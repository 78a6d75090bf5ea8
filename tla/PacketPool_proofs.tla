-------------------------- MODULE PacketPool_proofs --------------------------
(***************************************************************************)
(* The packet pool for any number of threads, variables, types and slots:  *)
(* exact counts, what a caller gets, and faithful copies.                  *)
(***************************************************************************)
EXTENDS PacketPool, RingArithmetic, SequenceTheorems, FiniteSetTheorems, TLAPS

-----------------------------------------------------------------------------
(* What the theorems ask of the types.  The packets that a program shares  *)
(* come from a factory that makes exactly what it is asked for, and their  *)
(* clones find memory: the clone by hand, made whenever the factory fails, *)
(* copies the user count of its source.                                    *)
SharedExact == \A type \in Shared : type \notin NoFactory \union Scarce /\ Canon[type] = type

-----------------------------------------------------------------------------
(* The inductive invariant, first the part about the pool. *)
PoolTypes ==
    /\ pool \in [Handle -> Header \union {Null}]
    /\ pool_size \in 1 .. MaxPool
    /\ fifo \in [Type -> Seq(Handle)]
    /\ ref \in [Ref -> Handle \union {Invalid}]

Placed == \A h \in Handle : pool[h] # Null => h < pool_size
RefsValid == \A r \in Ref : ref[r] # Invalid => pool[ref[r]] # Null
Counted == \A h \in Handle : pool[h] # Null => pool[h].users = Cardinality(References(h))

(* Two references to a packet are variables, and the packet is of a type   *)
(* that is shared: what a thread has obtained is its own.                  *)
Alone(r) == \A q \in Ref \ {r} : ref[q] # ref[r]
Sharing == \A r, q \in Ref : r # q /\ ref[r] = ref[q] /\ ref[r] # Invalid
              => r \in Var /\ q \in Var /\ pool[ref[r]].desc \in Shared

(* Packets without a description are in the hands of their constructor. *)
Described ==
    /\ \A v \in Var : ref[v] # Invalid => pool[ref[v]].desc # NoDesc
    /\ \A h \in Handle : pool[h] # Null /\ pool[h].users = 0 => pool[h].desc # NoDesc

NoRepeat(s) == \A i, j \in DOMAIN s : s[i] = s[j] => i = j
FifoOnce == \A type \in Type : NoRepeat(fifo[type])

PoolOK == PoolTypes /\ Placed /\ RefsValid /\ Counted /\ Sharing /\ Described /\ FifoOnce /\ UnusedFindable

(* Now what a thread has, needs and works on at each point of an operation. *)
Empty == {"idle", "reuse", "factory", "construct", "create", "fallback", "fallback_create",
          "cleanup", "crash"}
Taken == {"init", "delete", "fallback_init", "copy"}
Named == {"copy", "return", "release", "sleep"}
ByHand == {"fallback", "fallback_create", "fallback_init"}
Making == {"reuse", "factory", "construct", "create", "init", "delete", "copy"} \union ByHand
Releasing == {"sleep", "cleanup"}
Constructors == {"new", "factory"}
Copiers == {"clone", "copy_rw", "replace"}

HasHandle(t) ==
    /\ op[t].pc \in Empty => ref[t] = Invalid
    /\ op[t].pc \in Taken => ref[t] # Invalid
    /\ op[t].op \in {"mark_unused", "delete"} => ref[t] = Invalid
    /\ op[t].pc \in Named /\ ref[t] # Invalid => pool[ref[t]].desc = op[t].type

HasType(t) ==
    /\ op[t].pc = "idle" <=> op[t].op = "none"
    /\ op[t].pc = "idle" => op[t].src = None /\ op[t].dst = None
    /\ op[t].pc # "idle" => op[t].type \in Type
    /\ op[t].op = "new" => Canon[op[t].type] = op[t].type
    /\ op[t].pc = "delete" => Canon[op[t].type] # op[t].type
    /\ op[t].pc \in ByHand => op[t].type \notin Shared

HasSource(t) ==
    /\ op[t].pc \in Making => op[t].op \in Constructors \union Copiers
    /\ op[t].pc \in ByHand \union {"reuse", "copy"} => op[t].op \in Copiers
    /\ op[t].pc = "factory" => op[t].op # "new"
    /\ op[t].pc \in Making /\ op[t].op \in Copiers =>
           op[t].src \in Var /\ ref[op[t].src] # Invalid /\ pool[ref[op[t].src]].desc = op[t].type
    /\ op[t].pc = "release" => op[t].op = "replace" /\ ref[op[t].src] # Invalid
    /\ op[t].pc \in Releasing => op[t].src \in Var /\ ref[op[t].src] # Invalid /\ Alone(op[t].src)
    /\ op[t].pc = "sleep" => op[t].op \in {"replace", "mark_unused"}
    /\ op[t].pc = "cleanup" => op[t].op = "delete"

HasTarget(t) ==
    /\ op[t].op \in Constructors \union {"clone", "copy_rw"} =>
           op[t].dst \in Var /\ op[t].dst # op[t].src /\ ref[op[t].dst] = Invalid
    /\ op[t].op = "replace" => op[t].src \in Var /\ op[t].dst = op[t].src
    /\ op[t].op \in Copiers => op[t].src \in Var
    /\ op[t].pc = "return" => /\ op[t].op \in Constructors \union Copiers
                              /\ ref[op[t].dst] = Invalid

Phase(t) == HasHandle(t) /\ HasType(t) /\ HasSource(t) /\ HasTarget(t)

(* Threads work on different variables. *)
Works(t, v) == op[t].src = v \/ op[t].dst = v
Separate == \A t, u \in Thread, v \in Var : Works(t, v) /\ Works(u, v) => t = u

OpsOK ==
    /\ op \in [Thread -> Op] /\ lock \in Thread \union {None}
    /\ Separate
    /\ \A t \in Thread : Phase(t)

PoolIInv == PoolOK /\ OpsOK

-----------------------------------------------------------------------------
(* Counting references. *)
LEMMA RefsFinite ==
    ASSUME NEW h
    PROVE  IsFiniteSet(References(h)) /\ Cardinality(References(h)) \in Nat
<1>1. IsFiniteSet(Ref)
  BY RefAssumption, FS_Union DEF Ref
<1>2. References(h) \subseteq Ref
  BY DEF References
<1> QED
  BY <1>1, <1>2, FS_Subset, FS_CardinalityType

LEMMA HandleFacts ==
    /\ Handle \subseteq Nat /\ Invalid \notin Handle /\ Invalid \in Int
    /\ Var \subseteq Ref /\ Thread \subseteq Ref
    /\ Var \cap Thread = {} /\ None \notin Var
BY RefAssumption, NoneAssumption, SizeAssumption DEF Handle, Invalid, Ref

LEMMA AloneOne ==
    ASSUME PoolOK, NEW r \in Ref, ref[r] # Invalid, Alone(r)
    PROVE  ref[r] \in Handle /\ pool[ref[r]] \in Header /\ References(ref[r]) = {r} /\ pool[ref[r]].users = 1
<1>1. ref[r] \in Handle /\ pool[ref[r]] # Null /\ pool[ref[r]] \in Header
  BY DEF PoolOK, PoolTypes, RefsValid
<1>2. References(ref[r]) = {r}
  BY DEF Alone, References
<1>3. Cardinality(References(ref[r])) = 1
  BY <1>2, FS_Singleton
<1> QED
  BY <1>1, <1>2, <1>3 DEF PoolOK, Counted

LEMMA ThreadAlone ==
    ASSUME PoolOK, NEW t \in Thread, ref[t] # Invalid
    PROVE  Alone(t)
BY HandleFacts DEF PoolOK, Sharing, Alone

LEMMA OneAlone ==
    ASSUME PoolOK, NEW r \in Ref, ref[r] # Invalid, pool[ref[r]].users <= 1
    PROVE  Alone(r)
<1> SUFFICES ASSUME NEW q \in Ref \ {r}, ref[q] = ref[r] PROVE FALSE
  BY DEF Alone
<1> DEFINE R == References(ref[r])
<1>1. ref[r] \in Handle /\ pool[ref[r]] # Null /\ pool[ref[r]] \in Header
  BY DEF PoolOK, PoolTypes, RefsValid
<1>2. Cardinality(R) <= 1 /\ IsFiniteSet(R) /\ Cardinality(R) \in Nat
  BY <1>1, RefsFinite DEF PoolOK, Counted
<1>3. r \in R /\ q \in R
  BY DEF References
<1>4. Cardinality(R \ {r}) = Cardinality(R) - 1 /\ IsFiniteSet(R \ {r})
  BY <1>2, <1>3, FS_RemoveElement
<1>5. Cardinality(R \ {r}) \in Nat /\ R \ {r} # {}
  BY <1>3, <1>4, FS_CardinalityType
<1>6. Cardinality(R \ {r}) # 0
  BY <1>4, <1>5, FS_EmptySet
<1> QED
  BY <1>2, <1>4, <1>5, <1>6

LEMMA Unreferenced ==
    ASSUME PoolOK, NEW h \in Handle, pool[h] = Null \/ pool[h].users = 0
    PROVE  \A r \in Ref : ref[r] # h
<1>1. CASE pool[h] = Null
  BY <1>1, HandleFacts DEF PoolOK, RefsValid
<1>2. CASE pool[h] # Null /\ pool[h].users = 0
  <2>1. References(h) = {}
    BY <1>2, RefsFinite, FS_EmptySet DEF PoolOK, Counted
  <2> QED
    BY <2>1 DEF References
<1> QED
  BY <1>1, <1>2

-----------------------------------------------------------------------------
(* What the steps do to the pool.  The pool may grow. *)
LEMMA PoolGrows ==
    ASSUME PoolOK, UNCHANGED <<pool, fifo, ref>>, pool_size' \in pool_size .. MaxPool
    PROVE  PoolOK'
<1>1. PoolTypes'
  BY DEF PoolOK, PoolTypes
<1>2. Placed'
  BY DEF PoolOK, Placed, PoolTypes, Handle
<1>3. \A h : References(h)' = References(h)
  BY DEF References
<1>4. RefsValid' /\ Counted' /\ Sharing' /\ Described' /\ FifoOnce' /\ UnusedFindable'
  BY <1>3 DEF PoolOK, RefsValid, Counted, Sharing, Described, FifoOnce, UnusedFindable
<1> QED
  BY <1>1, <1>2, <1>4 DEF PoolOK

(* A thread takes a packet that nobody uses, or makes one. *)
LEMMA PacketTaken ==
    ASSUME PoolOK, NEW t \in Thread, ref[t] = Invalid, NEW h \in Handle, NEW x \in Header, x.users = 1,
           pool[h] = Null \/ pool[h].users = 0,
           pool' = [pool EXCEPT ![h] = x], ref' = [ref EXCEPT ![t] = h],
           pool_size' \in pool_size .. MaxPool, h < pool_size',
           fifo' \in [Type -> Seq(Handle)], FifoOnce',
           \A type \in Type : \A g \in Handle \ {h} : g \in Elems(fifo[type]) => g \in Elems(fifo'[type])
    PROVE  PoolOK'
<1>1. \A r \in Ref : ref[r] # h
  BY Unreferenced
<1>2. t \in Ref /\ ref \in [Ref -> Handle \union {Invalid}] /\ x # Null /\ h \in Nat /\ pool_size \in 1 .. MaxPool
  BY HandleFacts, NullAssumption DEF PoolOK, PoolTypes
<1>3. ref'[t] = h /\ \A r \in Ref \ {t} : ref'[r] = ref[r]
  BY <1>2
<1>4. pool'[h] = x /\ \A g \in Handle \ {h} : pool'[g] = pool[g]
  BY DEF PoolOK, PoolTypes
<1>5. PoolTypes'
  BY <1>2, SizeAssumption DEF PoolOK, PoolTypes
<1>6. Placed'
  BY <1>2, <1>4, HandleFacts, SizeAssumption DEF PoolOK, Placed
<1>7. RefsValid'
  BY <1>1, <1>2, <1>3, <1>4, HandleFacts DEF PoolOK, RefsValid
<1>8. References(h)' = {t}
  BY <1>1, <1>2, <1>3 DEF References
<1>9. \A g \in Handle \ {h} : References(g)' = References(g)
  BY <1>2, <1>3, HandleFacts DEF References
<1>10. Counted'
  <2>1. Cardinality(References(h)') = 1
    BY <1>8, FS_Singleton
  <2> QED
    BY <1>4, <1>9, <2>1 DEF PoolOK, Counted
<1>11. Sharing'
  BY <1>1, <1>2, <1>3, <1>4, HandleFacts DEF PoolOK, Sharing
<1>12. Described'
  <2>1. \A v \in Var : v # t /\ v \in Ref
    BY HandleFacts
  <2>2. \A v \in Var : ref'[v] # Invalid => pool'[ref'[v]].desc # NoDesc
    BY <1>1, <1>2, <1>3, <1>4, <2>1 DEF PoolOK, Described
  <2>3. \A g \in Handle : pool'[g] # Null /\ pool'[g].users = 0 => pool'[g].desc # NoDesc
    BY <1>4 DEF PoolOK, Described
  <2> QED
    BY <2>2, <2>3 DEF Described
<1>13. UnusedFindable'
  <2> SUFFICES ASSUME NEW g \in Handle, pool'[g] # Null, pool'[g].users = 0
               PROVE  g \in Elems(fifo'[pool'[g].desc])
    BY DEF UnusedFindable
  <2>1. g # h /\ pool'[g] = pool[g]
    BY <1>4
  <2>2. pool[g] \in Header /\ pool[g].desc \in Type /\ g \in Elems(fifo[pool[g].desc])
    BY <2>1 DEF PoolOK, PoolTypes, Described, UnusedFindable, Header
  <2> QED
    BY <2>1, <2>2
<1> QED
  BY <1>5, <1>6, <1>7, <1>10, <1>11, <1>12, <1>13 DEF PoolOK

(* A packet gets another header or other data; the count stays. *)
LEMMA PacketChanged ==
    ASSUME PoolOK, NEW h \in Handle, pool[h] # Null, NEW x \in Header,
           x.users = pool[h].users, x.users # 0, pool' = [pool EXCEPT ![h] = x],
           x.desc = pool[h].desc \/ \E t \in Thread : ref[t] = h,
           UNCHANGED <<pool_size, fifo, ref>>
    PROVE  PoolOK'
<1>1. pool'[h] = x /\ \A g \in Handle \ {h} : pool'[g] = pool[g]
  BY DEF PoolOK, PoolTypes
<1>2. x # Null /\ ref \in [Ref -> Handle \union {Invalid}]
  BY NullAssumption DEF PoolOK, PoolTypes
<1>3. PoolTypes'
  BY DEF PoolOK, PoolTypes
<1>4. Placed' /\ RefsValid'
  BY <1>1, <1>2 DEF PoolOK, Placed, RefsValid
<1>5. \A g : References(g)' = References(g)
  BY DEF References
<1>6. Counted'
  BY <1>1, <1>5 DEF PoolOK, Counted
<1>7. CASE x.desc = pool[h].desc
  <2>1. \A g \in Handle : pool[g] # Null => pool'[g].desc = pool[g].desc
    BY <1>1, <1>7
  <2>2. \A r \in Ref : ref[r] # Invalid => ref[r] \in Handle /\ pool[ref[r]] # Null
    BY <1>2 DEF PoolOK, RefsValid
  <2>3. Sharing'
    BY <2>1, <2>2 DEF PoolOK, Sharing
  <2>4. Described'
    BY <1>1, <2>1, <2>2, HandleFacts DEF PoolOK, Described
  <2>5. FifoOnce' /\ UnusedFindable'
    BY <1>1, <2>1 DEF PoolOK, FifoOnce, UnusedFindable
  <2> QED
    BY <1>3, <1>4, <1>6, <2>3, <2>4, <2>5 DEF PoolOK
<1>8. CASE \E t \in Thread : ref[t] = h
  <2>1. PICK t \in Thread : ref[t] = h
    BY <1>8
  <2>2. \A r \in Ref \ {t} : ref[r] # h
    BY <2>1, ThreadAlone, HandleFacts DEF Alone
  <2>3. Sharing'
    BY <1>1, <1>2, <2>2 DEF PoolOK, Sharing
  <2>4. \A v \in Var : ref[v] # h /\ v \in Ref
    BY <2>1, <2>2, HandleFacts
  <2>5. Described'
    BY <1>1, <1>2, <2>4 DEF PoolOK, Described
  <2>6. FifoOnce' /\ UnusedFindable'
    BY <1>1 DEF PoolOK, FifoOnce, UnusedFindable
  <2> QED
    BY <1>3, <1>4, <1>6, <2>3, <2>5, <2>6 DEF PoolOK
<1> QED
  BY <1>7, <1>8

(* The only reference to a packet goes, and the packet with it. *)
LEMMA PacketDeleted ==
    ASSUME PoolOK, NEW r \in Ref, ref[r] # Invalid, Alone(r),
           pool' = [pool EXCEPT ![ref[r]] = Null], ref' = [ref EXCEPT ![r] = Invalid],
           UNCHANGED <<pool_size, fifo>>
    PROVE  PoolOK'
<1> SUFFICES ASSUME NEW h \in Handle, h = ref[r] PROVE PoolOK'
  BY DEF PoolOK, PoolTypes
<1>1. h \in Handle /\ ref \in [Ref -> Handle \union {Invalid}]
  BY DEF PoolOK, PoolTypes
<1>2. ref'[r] = Invalid /\ \A q \in Ref \ {r} : ref'[q] = ref[q] /\ ref[q] # h
  BY <1>1 DEF Alone
<1>3. pool'[h] = Null /\ \A g \in Handle \ {h} : pool'[g] = pool[g]
  BY <1>1 DEF PoolOK, PoolTypes
<1>4. PoolTypes'
  BY DEF PoolOK, PoolTypes
<1>5. Placed' /\ RefsValid'
  BY <1>1, <1>2, <1>3 DEF PoolOK, Placed, RefsValid
<1>6. \A g \in Handle \ {h} : References(g)' = References(g)
  BY <1>1, <1>2, HandleFacts DEF References
<1>7. Counted'
  BY <1>3, <1>6 DEF PoolOK, Counted
<1>8. Sharing'
  BY <1>1, <1>2, <1>3 DEF PoolOK, Sharing
<1>10. Described'
  BY <1>1, <1>2, <1>3, HandleFacts DEF PoolOK, Described
<1>9. FifoOnce' /\ UnusedFindable'
  BY <1>3 DEF PoolOK, FifoOnce, UnusedFindable
<1> QED
  BY <1>4, <1>5, <1>7, <1>8, <1>9, <1>10 DEF PoolOK

(* A thread stores its handle in an empty variable. *)
LEMMA HandleStored ==
    ASSUME PoolOK, NEW t \in Thread, NEW v \in Var, ref[v] = Invalid,
           ref[t] # Invalid => pool[ref[t]].desc # NoDesc,
           ref' = [ref EXCEPT ![v] = ref[t], ![t] = Invalid],
           UNCHANGED <<pool, pool_size, fifo>>
    PROVE  PoolOK'
<1>1. t \in Ref /\ v \in Ref /\ t # v /\ ref \in [Ref -> Handle \union {Invalid}]
  BY HandleFacts DEF PoolOK, PoolTypes
<1>2. ref'[t] = Invalid /\ ref'[v] = ref[t] /\ \A q \in Ref \ {t, v} : ref'[q] = ref[q]
  BY <1>1
<1>3. PoolTypes'
  BY <1>1 DEF PoolOK, PoolTypes
<1>4. Placed' /\ RefsValid'
  BY <1>1, <1>2 DEF PoolOK, Placed, RefsValid
<1>5. Alone(t) \/ ref[t] = Invalid
  BY ThreadAlone
<1>6. ASSUME NEW g \in Handle
      PROVE  Cardinality(References(g)') = Cardinality(References(g))
  <2>1. CASE g # ref[t]
    <3>1. References(g)' = References(g)
      BY <1>1, <1>2, <2>1, HandleFacts DEF References
    <3> QED
      BY <3>1
  <2>2. CASE g = ref[t]
    <3>1. References(g) = {t}
      BY <1>1, <1>5, <2>2, HandleFacts DEF References, Alone
    <3>2. References(g)' = {v}
      BY <1>1, <1>2, <1>5, <2>2, HandleFacts DEF References, Alone
    <3> QED
      BY <3>1, <3>2, FS_Singleton
  <2> QED
    BY <2>1, <2>2
<1>7. Counted'
  BY <1>6 DEF PoolOK, Counted
<1>8. Sharing'
  BY <1>1, <1>2, <1>5, HandleFacts DEF PoolOK, Sharing, Alone
<1>9. Described'
  BY <1>1, <1>2, HandleFacts DEF PoolOK, Described
<1>10. FifoOnce' /\ UnusedFindable'
  BY DEF PoolOK, FifoOnce, UnusedFindable
<1> QED
  BY <1>3, <1>4, <1>7, <1>8, <1>9, <1>10 DEF PoolOK

(* A variable shares its packet with an empty one. *)
LEMMA PacketShared ==
    ASSUME PoolOK, NEW v \in Var, NEW w \in Var, ref[v] # Invalid, ref[w] = Invalid,
           pool[ref[v]].desc \in Shared,
           pool' = [pool EXCEPT ![ref[v]].users = @ + 1], ref' = [ref EXCEPT ![w] = ref[v]],
           UNCHANGED <<pool_size, fifo>>
    PROVE  PoolOK'
<1> SUFFICES ASSUME NEW h \in Handle, h = ref[v] PROVE PoolOK'
  BY HandleFacts DEF PoolOK, PoolTypes
<1> DEFINE x == [pool[h] EXCEPT !.users = @ + 1]
<1>1. h \in Handle /\ ref \in [Ref -> Handle \union {Invalid}] /\ v \in Ref /\ w \in Ref /\ v # w
      /\ pool[h] # Null /\ pool[h] \in Header
  BY HandleFacts DEF PoolOK, PoolTypes, RefsValid
<1>2. ref'[w] = h /\ \A q \in Ref \ {w} : ref'[q] = ref[q]
  BY <1>1
<1>3. x \in Header /\ x.users = pool[h].users + 1 /\ x.desc = pool[h].desc /\ pool[h].users \in Nat /\ x # Null
  BY <1>1, NullAssumption DEF Header
<1>4. pool' = [pool EXCEPT ![h] = x]
  BY <1>1 DEF PoolOK, PoolTypes
<1> HIDE DEF x
<1>5. pool'[h] = x /\ \A g \in Handle \ {h} : pool'[g] = pool[g]
  BY <1>1, <1>4 DEF PoolOK, PoolTypes
<1>6. PoolTypes'
  BY <1>1, <1>3, <1>4 DEF PoolOK, PoolTypes
<1>7. Placed' /\ RefsValid'
  BY <1>1, <1>2, <1>3, <1>5 DEF PoolOK, Placed, RefsValid
<1>8. References(h)' = References(h) \cup {w} /\ w \notin References(h)
  BY <1>1, <1>2, HandleFacts DEF References
<1>9. \A g \in Handle \ {h} : References(g)' = References(g)
  BY <1>1, <1>2, HandleFacts DEF References
<1>10. Counted'
  <2>1. Cardinality(References(h)') = Cardinality(References(h)) + 1
    BY <1>8, RefsFinite, FS_AddElement
  <2> QED
    BY <1>1, <1>3, <1>5, <1>9, <2>1 DEF PoolOK, Counted
<1>11. \A g \in Handle : pool[g] # Null => pool'[g].desc = pool[g].desc
  BY <1>3, <1>5
<1>12. \A q \in Ref : ref[q] # Invalid => ref[q] \in Handle /\ pool[ref[q]] # Null
  BY <1>1 DEF PoolOK, RefsValid
<1>13. \A q \in Ref : ref[q] = h => q \in Var
  <2> SUFFICES ASSUME NEW q \in Ref, ref[q] = h, q # v PROVE q \in Var
    OBVIOUS
  <2> QED
    BY <1>1 DEF PoolOK, Sharing
<1>14. Sharing'
  <2> SUFFICES ASSUME NEW r \in Ref, NEW q \in Ref, r # q, ref'[r] = ref'[q], ref'[r] # Invalid
               PROVE  r \in Var /\ q \in Var /\ pool'[ref'[r]].desc \in Shared
    BY DEF Sharing
  <2>1. CASE ref'[r] = h
    BY <1>1, <1>2, <1>3, <1>5, <1>13, <2>1
  <2>2. CASE ref'[r] # h
    BY <1>2, <1>11, <1>12, <2>2 DEF PoolOK, Sharing
  <2> QED
    BY <2>1, <2>2
<1>15. Described'
  <2>1. \A u \in Var : ref'[u] # Invalid => pool'[ref'[u]].desc # NoDesc
    BY <1>1, <1>2, <1>11, <1>12, HandleFacts DEF PoolOK, Described
  <2>2. \A g \in Handle : pool'[g] # Null /\ pool'[g].users = 0 => pool'[g].desc # NoDesc
    BY <1>3, <1>5 DEF PoolOK, Described
  <2> QED
    BY <2>1, <2>2 DEF Described
<1>16. FifoOnce' /\ UnusedFindable'
  BY <1>3, <1>5 DEF PoolOK, FifoOnce, UnusedFindable
<1> QED
  BY <1>6, <1>7, <1>10, <1>14, <1>15, <1>16 DEF PoolOK

(* Saving a handle keeps the fifos free of duplicates, and it is there. *)
JoinsOne(F, G, h, type) == \A y \in Type : \A g \in Elems(G[y]) : g \in Elems(F[y]) \/ (g = h /\ y = type)
LEMMA SaveFacts ==
    ASSUME NEW F \in [Type -> Seq(Handle)], NEW h \in Handle, NEW type \in Type,
           \A y \in Type : NoRepeat(F[y])
    PROVE  /\ Save(F, h, type) \in [Type -> Seq(Handle)]
           /\ \A y \in Type : NoRepeat(Save(F, h, type)[y])
           /\ h \in Elems(Save(F, h, type)[type])
           /\ \A y \in Type : Elems(F[y]) \subseteq Elems(Save(F, h, type)[y])
           /\ JoinsOne(F, Save(F, h, type), h, type)
<1>1. CASE h \in Elems(F[type])
  BY <1>1 DEF Save, JoinsOne
<1>2. CASE h \notin Elems(F[type])
  <2> DEFINE s == F[type]
             q == <<h>> \o s
             G == [F EXCEPT ![type] = q]
  <2>1. s \in Seq(Handle) /\ Len(s) \in Nat /\ DOMAIN s = 1 .. Len(s)
    OBVIOUS
  <2>2. q \in Seq(Handle) /\ Len(q) = Len(s) + 1 /\ DOMAIN q = 1 .. Len(s) + 1 /\ q[1] = h
        /\ \A i \in 2 .. Len(s) + 1 : q[i] = s[i - 1]
    <3>1. <<h>> \in Seq(Handle) /\ Len(<<h>>) = 1 /\ <<h>>[1] = h
      OBVIOUS
    <3>2. q \in Seq(Handle) /\ Len(q) = 1 + Len(s)
      BY <2>1, <3>1, ConcatProperties
    <3>3. \A i \in 1 .. Len(q) : q[i] = IF i <= 1 THEN <<h>>[i] ELSE s[i - 1]
      BY <2>1, <3>1, <3>2, ConcatProperties
    <3> HIDE DEF q, s
    <3> QED
      BY <2>1, <3>1, <3>2, <3>3
  <2>3. Save(F, h, type) = G
    BY <1>2 DEF Save
  <2> HIDE DEF q
  <2>4. G \in [Type -> Seq(Handle)] /\ G[type] = q /\ \A y \in Type \ {type} : G[y] = F[y]
    BY <2>2
  <2> HIDE DEF G
  <2>5. \A i \in DOMAIN s : s[i] # h /\ i + 1 \in DOMAIN q /\ q[i + 1] = s[i]
    BY <1>2, <2>1, <2>2 DEF Elems
  <2>6. \A i \in DOMAIN q : (i = 1 /\ q[i] = h) \/ (i - 1 \in DOMAIN s /\ q[i] = s[i - 1] /\ q[i] # h)
    BY <2>1, <2>2, <2>5
  <2>7. NoRepeat(q)
    <3> SUFFICES ASSUME NEW i \in DOMAIN q, NEW j \in DOMAIN q, q[i] = q[j] PROVE i = j
      BY DEF NoRepeat
    <3>1. i \in Nat /\ j \in Nat
      BY <2>1, <2>2
    <3>2. CASE i = 1 \/ j = 1
      BY <2>6, <3>1, <3>2
    <3>3. CASE i # 1 /\ j # 1
      <4>1. i - 1 \in DOMAIN s /\ j - 1 \in DOMAIN s /\ s[i - 1] = s[j - 1]
        BY <2>6, <3>3
      <4>2. i - 1 = j - 1
        BY <4>1 DEF NoRepeat
      <4> QED
        BY <3>1, <4>2
    <3> QED
      BY <3>2, <3>3
  <2>8. Elems(q) = Elems(s) \cup {h}
    <3>1. Elems(s) \subseteq Elems(q)
      BY <2>5 DEF Elems
    <3>2. h \in Elems(q)
      BY <2>1, <2>2 DEF Elems
    <3>3. Elems(q) \subseteq Elems(s) \cup {h}
      BY <2>6 DEF Elems
    <3> QED
      BY <3>1, <3>2, <3>3
  <2> HIDE DEF s
  <2>9. \A y \in Type : NoRepeat(G[y])
    BY <2>4, <2>7
  <2>10. h \in Elems(G[type]) /\ (\A y \in Type : Elems(F[y]) \subseteq Elems(G[y]))
         /\ JoinsOne(F, G, h, type)
    BY <2>4, <2>8 DEF s, JoinsOne
  <2> QED
    BY <2>3, <2>4, <2>9, <2>10
<1> QED
  BY <1>1, <1>2

(* One of several variables gives up a packet. *)
LEMMA UserLeft ==
    ASSUME PoolOK, NEW v \in Var, ref[v] # Invalid, pool[ref[v]].users > 1,
           pool' = [pool EXCEPT ![ref[v]].users = @ - 1], ref' = [ref EXCEPT ![v] = Invalid],
           UNCHANGED <<pool_size, fifo>>
    PROVE  PoolOK'
<1> SUFFICES ASSUME NEW h \in Handle, h = ref[v] PROVE PoolOK'
  BY HandleFacts DEF PoolOK, PoolTypes
<1> DEFINE x == [pool[h] EXCEPT !.users = @ - 1]
<1>1. h \in Handle /\ ref \in [Ref -> Handle \union {Invalid}] /\ v \in Ref
      /\ pool[h] # Null /\ pool[h] \in Header
  BY HandleFacts DEF PoolOK, PoolTypes, RefsValid
<1>2. ref'[v] = Invalid /\ \A q \in Ref \ {v} : ref'[q] = ref[q]
  BY <1>1
<1>3. x \in Header /\ x.users = pool[h].users - 1 /\ x.users > 0 /\ x.desc = pool[h].desc
      /\ pool[h].users \in Nat /\ x # Null
  BY <1>1, NullAssumption DEF Header
<1>4. pool' = [pool EXCEPT ![h] = x]
  BY <1>1 DEF PoolOK, PoolTypes
<1> HIDE DEF x
<1>5. pool'[h] = x /\ \A g \in Handle \ {h} : pool'[g] = pool[g]
  BY <1>1, <1>4 DEF PoolOK, PoolTypes
<1>6. PoolTypes'
  BY <1>1, <1>3, <1>4 DEF PoolOK, PoolTypes
<1>7. References(h)' = References(h) \ {v} /\ v \in References(h)
  BY <1>1, <1>2, HandleFacts DEF References
<1>8. Placed' /\ RefsValid'
  BY <1>1, <1>2, <1>3, <1>5 DEF PoolOK, Placed, RefsValid
<1>9. \A g \in Handle \ {h} : References(g)' = References(g)
  BY <1>1, <1>2, HandleFacts DEF References
<1>10. Counted'
  <2>1. Cardinality(References(h)') = Cardinality(References(h)) - 1
    BY <1>7, RefsFinite, FS_RemoveElement
  <2> QED
    BY <1>1, <1>3, <1>5, <1>9, <2>1 DEF PoolOK, Counted
<1>11. \A g \in Handle : pool[g] # Null => pool'[g].desc = pool[g].desc
  BY <1>3, <1>5
<1>12. \A q \in Ref : ref[q] # Invalid => ref[q] \in Handle /\ pool[ref[q]] # Null
  BY <1>1 DEF PoolOK, RefsValid
<1>13. Sharing'
  BY <1>2, <1>11, <1>12 DEF PoolOK, Sharing
<1>14. Described'
  <2>1. \A u \in Var : ref'[u] # Invalid => pool'[ref'[u]].desc # NoDesc
    BY <1>1, <1>2, <1>11, <1>12, HandleFacts DEF PoolOK, Described
  <2>2. \A g \in Handle : pool'[g] # Null /\ pool'[g].users = 0 => pool'[g].desc # NoDesc
    BY <1>3, <1>5 DEF PoolOK, Described
  <2> QED
    BY <2>1, <2>2 DEF Described
<1>15. FifoOnce' /\ UnusedFindable'
  BY <1>3, <1>5 DEF PoolOK, FifoOnce, UnusedFindable
<1> QED
  BY <1>6, <1>8, <1>10, <1>13, <1>14, <1>15 DEF PoolOK

(* The last user leaves: the packet goes to the fifo of its type. *)
LEMMA PacketRetired ==
    ASSUME PoolOK, NEW v \in Var, ref[v] # Invalid, Alone(v),
           pool' = [pool EXCEPT ![ref[v]].users = 0], ref' = [ref EXCEPT ![v] = Invalid],
           fifo' = Save(fifo, ref[v], pool[ref[v]].desc), UNCHANGED pool_size
    PROVE  PoolOK'
<1> SUFFICES ASSUME NEW h \in Handle, h = ref[v] PROVE PoolOK'
  BY HandleFacts DEF PoolOK, PoolTypes
<1> DEFINE x == [pool[h] EXCEPT !.users = 0]
<1>1. h \in Handle /\ ref \in [Ref -> Handle \union {Invalid}] /\ v \in Ref
      /\ pool[h] # Null /\ pool[h] \in Header /\ pool[h].desc \in Type
  BY HandleFacts DEF PoolOK, PoolTypes, RefsValid, Described, Header
<1>2. ref'[v] = Invalid /\ \A q \in Ref \ {v} : ref'[q] = ref[q] /\ ref[q] # h
  BY <1>1 DEF Alone
<1>3. x \in Header /\ x.users = 0 /\ x.desc = pool[h].desc /\ x # Null
  BY <1>1, NullAssumption DEF Header
<1>4. pool' = [pool EXCEPT ![h] = x]
  BY <1>1 DEF PoolOK, PoolTypes
<1> HIDE DEF x
<1>5. pool'[h] = x /\ \A g \in Handle \ {h} : pool'[g] = pool[g]
  BY <1>1, <1>4 DEF PoolOK, PoolTypes
<1>6. /\ fifo' \in [Type -> Seq(Handle)] /\ FifoOnce' /\ h \in Elems(fifo'[pool[h].desc])
      /\ \A y \in Type : Elems(fifo[y]) \subseteq Elems(fifo'[y])
  <2>1. fifo \in [Type -> Seq(Handle)] /\ \A y \in Type : NoRepeat(fifo[y])
    BY DEF PoolOK, PoolTypes, FifoOnce
  <2>2. fifo' = Save(fifo, h, pool[h].desc)
    OBVIOUS
  <2> DEFINE G == Save(fifo, h, pool[h].desc)
  <2>3. /\ G \in [Type -> Seq(Handle)] /\ \A y \in Type : NoRepeat(G[y])
        /\ h \in Elems(G[pool[h].desc]) /\ \A y \in Type : Elems(fifo[y]) \subseteq Elems(G[y])
    BY <1>1, <2>1, SaveFacts
  <2> HIDE DEF G
  <2>4. fifo' = G
    BY <2>2 DEF G
  <2> QED
    BY <2>3, <2>4 DEF FifoOnce
<1>7. PoolTypes'
  BY <1>1, <1>3, <1>4, <1>6 DEF PoolOK, PoolTypes
<1>8. Placed' /\ RefsValid'
  BY <1>1, <1>2, <1>3, <1>5 DEF PoolOK, Placed, RefsValid
<1>9. \A g \in Handle \ {h} : References(g)' = References(g)
  BY <1>1, <1>2, HandleFacts DEF References
<1>10. Counted'
  <2>1. References(h)' = {}
    BY <1>1, <1>2, HandleFacts DEF References
  <2>2. Cardinality(References(h)') = 0
    BY <2>1, FS_EmptySet
  <2> QED
    BY <1>1, <1>3, <1>5, <1>9, <2>2 DEF PoolOK, Counted
<1>11. \A g \in Handle : pool[g] # Null => pool'[g].desc = pool[g].desc
  BY <1>3, <1>5
<1>12. \A q \in Ref : ref[q] # Invalid => ref[q] \in Handle /\ pool[ref[q]] # Null
  BY <1>1 DEF PoolOK, RefsValid
<1>13. Sharing'
  BY <1>2, <1>11, <1>12 DEF PoolOK, Sharing
<1>14. Described'
  <2>1. \A u \in Var : ref'[u] # Invalid => pool'[ref'[u]].desc # NoDesc
    BY <1>1, <1>2, <1>11, <1>12, HandleFacts DEF PoolOK, Described
  <2>2. pool[h].desc # NoDesc
    BY <1>1, NoneAssumption
  <2>3. \A g \in Handle : pool'[g] # Null /\ pool'[g].users = 0 => pool'[g].desc # NoDesc
    BY <1>3, <1>5, <2>2 DEF PoolOK, Described
  <2> QED
    BY <2>1, <2>3 DEF Described
<1>15. UnusedFindable'
  <2> SUFFICES ASSUME NEW g \in Handle, pool'[g] # Null, pool'[g].users = 0
               PROVE  g \in Elems(fifo'[pool'[g].desc])
    BY DEF UnusedFindable
  <2>1. CASE g = h
    BY <1>3, <1>5, <1>6, <2>1
  <2>2. CASE g # h
    <3>1. pool'[g] = pool[g] /\ pool[g] \in Header /\ pool[g].desc \in Type /\ g \in Elems(fifo[pool[g].desc])
      BY <1>5, <2>2 DEF PoolOK, PoolTypes, Described, UnusedFindable, Header
    <3> QED
      BY <1>6, <3>1
  <2> QED
    BY <2>1, <2>2
<1> QED
  BY <1>6, <1>7, <1>8, <1>10, <1>13, <1>14, <1>15 DEF PoolOK

-----------------------------------------------------------------------------
(* What a step does to the operations of the other threads: nothing, if it *)
(* keeps the references they hold and work on, with the descriptions.      *)
LEMMA OthersKept ==
    ASSUME PoolIInv, NEW u \in Thread, NEW o \in Op, op' = [op EXCEPT ![u] = o],
           lock' \in Thread \union {None},
           \A v \in Var : o.src = v \/ o.dst = v => Works(u, v) \/ Free(v),
           \A t \in Thread \ {u} : ref'[t] = ref[t],
           \A t \in Thread \ {u} : \A v \in Var : Works(t, v) => ref'[v] = ref[v],
           \A r \in Ref \ {u} : ref[r] # Invalid /\ ref'[r] = ref[r] => pool'[ref[r]].desc = pool[ref[r]].desc,
           \A t \in Thread \ {u} : \A v \in Var : Works(t, v) /\ ref[v] # Invalid /\ Alone(v) => Alone(v)',
           Phase(u)'
    PROVE  OpsOK'
<1>1. op'[u] = o /\ (\A t \in Thread \ {u} : op'[t] = op[t]) /\ op' \in [Thread -> Op]
  BY DEF PoolIInv, OpsOK
<1>2. Separate'
  <2> SUFFICES ASSUME NEW t \in Thread, NEW s \in Thread, NEW v \in Var, Works(t, v)', Works(s, v)', t # s
               PROVE  FALSE
    BY DEF Separate
  <2>1. CASE t # u /\ s # u
    BY <1>1, <2>1 DEF Works, PoolIInv, OpsOK, Separate
  <2>2. CASE t = u
    BY <1>1, <2>2 DEF Works, PoolIInv, OpsOK, Separate, Free
  <2>3. CASE s = u
    BY <1>1, <2>3 DEF Works, PoolIInv, OpsOK, Separate, Free
  <2> QED
    BY <2>1, <2>2, <2>3
<1>3. ASSUME NEW t \in Thread \ {u}
      PROVE  Phase(t)'
  <2>1. Phase(t) /\ op'[t] = op[t] /\ ref'[t] = ref[t] /\ op[t] \in Op
    BY <1>1 DEF PoolIInv, OpsOK
  <2>2. t \in Ref /\ Var \subseteq Ref /\ u \notin Var /\ None \notin Var
    BY HandleFacts
  <2>3. /\ op[t].src \in Var => ref'[op[t].src] = ref[op[t].src]
        /\ op[t].dst \in Var => ref'[op[t].dst] = ref[op[t].dst]
    BY DEF Works
  <2>4. HasHandle(t)'
    BY <2>1, <2>2 DEF Phase, HasHandle
  <2>5. HasType(t)'
    BY <2>1 DEF Phase, HasType
  <2>6. HasSource(t)'
    <3>1. op[t].pc \in Making /\ op[t].op \in Copiers =>
             op[t].src \in Var /\ ref'[op[t].src] # Invalid /\ pool'[ref'[op[t].src]].desc = op[t].type
      BY <2>1, <2>2, <2>3 DEF Phase, HasSource
    <3>2. op[t].pc = "release" => op[t].op = "replace" /\ ref'[op[t].src] # Invalid
      BY <2>1, <2>2, <2>3 DEF Phase, HasSource, HasTarget
    <3>3. op[t].pc \in Releasing => op[t].src \in Var /\ ref'[op[t].src] # Invalid /\ Alone(op[t].src)'
      <4> SUFFICES ASSUME op[t].pc \in Releasing
                   PROVE  op[t].src \in Var /\ ref'[op[t].src] # Invalid /\ Alone(op[t].src)'
        OBVIOUS
      <4>1. op[t].src \in Var /\ ref[op[t].src] # Invalid /\ Alone(op[t].src)
        BY <2>1 DEF Phase, HasSource
      <4>2. PICK v \in Var : v = op[t].src
        BY <4>1
      <4>3. ref'[v] = ref[v] /\ ref[v] # Invalid /\ Alone(v)
        BY <2>3, <4>1, <4>2
      <4>4. Alone(v)' /\ op'[t].src = v
        BY <2>1, <4>2, <4>3 DEF Works
      <4> QED
        BY <2>1, <4>2, <4>3, <4>4 DEF Alone
    <3> QED
      BY <2>1, <3>1, <3>2, <3>3 DEF Phase, HasSource
  <2>7. HasTarget(t)'
    BY <2>1, <2>2, <2>3 DEF Phase, HasTarget, Copiers, Constructors
  <2> QED
    BY <2>4, <2>5, <2>6, <2>7 DEF Phase
<1> QED
  BY <1>1, <1>2, <1>3 DEF OpsOK

(* A step that changes the operation of its thread and nothing else. *)
LEMMA QuietStep ==
    ASSUME PoolIInv, NEW t \in Thread, NEW o \in Op, op' = [op EXCEPT ![t] = o],
           lock' \in Thread \union {None}, pool_size' \in pool_size .. MaxPool, UNCHANGED <<pool, fifo, ref>>,
           \A v \in Var : o.src = v \/ o.dst = v => Works(t, v) \/ Free(v),
           Phase(t)'
    PROVE  PoolIInv'
<1>1. PoolOK'
  BY PoolGrows DEF PoolIInv
<1>2. \A v \in Var : Alone(v) => Alone(v)'
  BY DEF Alone
<1>3. OpsOK'
  BY <1>2, OthersKept
<1> QED
  BY <1>1, <1>3 DEF PoolIInv

LEMMA Kept == ASSUME PoolIInv PROVE pool_size \in pool_size .. MaxPool /\ lock \in Thread \union {None}
BY SizeAssumption DEF PoolIInv, PoolOK, PoolTypes, OpsOK

(* An idle thread holds no handle. *)
LEMMA IdleFacts ==
    ASSUME PoolIInv, NEW t \in Thread, op[t].pc = "idle"
    PROVE  /\ ref[t] = Invalid /\ op[t].src = None /\ op[t].dst = None /\ op[t].op = "none"
           /\ op[t] \in Op /\ op \in [Thread -> Op]
BY DEF PoolIInv, OpsOK, Phase, HasHandle, HasType, Empty

(* A packet in a variable has a type. *)
LEMMA VarFacts ==
    ASSUME PoolIInv, NEW v \in Var, ref[v] # Invalid
    PROVE  /\ ref[v] \in Handle /\ pool[ref[v]] # Null /\ pool[ref[v]] \in Header /\ pool[ref[v]].desc \in Type
           /\ pool[ref[v]].users \in Nat
BY HandleFacts DEF PoolIInv, PoolOK, PoolTypes, RefsValid, Described, Header

-----------------------------------------------------------------------------
(* Every step keeps the invariant, an action at a time.  First those that  *)
(* start an operation.                                                     *)
LEMMA NewStep ==
    ASSUME PoolIInv, NEW t \in Thread, NEW type \in Type, NEW v \in Var, pdp_packet_new_type(t, type, v)
    PROVE  PoolIInv'
<1> DEFINE o == [pc |-> "construct", op |-> "new", type |-> type, src |-> None, dst |-> v]
<1>1. Free(v) /\ ref[v] = Invalid /\ Canon[type] = type /\ v # None
  BY HandleFacts DEF pdp_packet_new_type, Vacant
<1>2. op[t].pc = "idle" /\ op' = [op EXCEPT ![t] = o] /\ UNCHANGED <<pool, pool_size, fifo, ref, lock>>
  BY DEF pdp_packet_new_type, Start, Vacant, Holds
<1>3. o \in Op
  BY <1>1 DEF Op, Pc, Reuse, OpName
<1>4. ref[t] = Invalid /\ op'[t] = o
  BY <1>2, IdleFacts
<1>5. Phase(t)'
  BY <1>1, <1>2, <1>4 DEF Phase, HasHandle, HasType, HasSource, HasTarget, Empty, Taken, Named, ByHand, Making, Releasing,
             Constructors, Copiers
<1>6. \A u \in Var : o.src = u \/ o.dst = u => Works(t, u) \/ Free(u)
  BY <1>1, HandleFacts
<1> HIDE DEF o
<1> QED
  BY <1>2, <1>3, <1>5, <1>6, Kept, QuietStep

LEMMA FactoryStep ==
    ASSUME PoolIInv, NEW t \in Thread, NEW type \in Type, NEW v \in Var, pdp_factory_newpacket(t, type, v)
    PROVE  PoolIInv'
<1> DEFINE o == [pc |-> "factory", op |-> "factory", type |-> type, src |-> None, dst |-> v]
<1>1. Free(v) /\ ref[v] = Invalid /\ v # None
  BY HandleFacts DEF pdp_factory_newpacket, Vacant
<1>2. op[t].pc = "idle" /\ op' = [op EXCEPT ![t] = o] /\ UNCHANGED <<pool, pool_size, fifo, ref, lock>>
  BY DEF pdp_factory_newpacket, Start, Vacant, Holds
<1>3. o \in Op
  BY <1>1 DEF Op, Pc, Reuse, OpName
<1>4. ref[t] = Invalid /\ op'[t] = o
  BY <1>2, IdleFacts
<1>5. Phase(t)'
  BY <1>1, <1>2, <1>4 DEF Phase, HasHandle, HasType, HasSource, HasTarget, Empty, Taken, Named, ByHand, Making, Releasing,
             Constructors, Copiers
<1>6. \A u \in Var : o.src = u \/ o.dst = u => Works(t, u) \/ Free(u)
  BY <1>1, HandleFacts
<1> HIDE DEF o
<1> QED
  BY <1>2, <1>3, <1>5, <1>6, Kept, QuietStep

LEMMA CloneStep ==
    ASSUME PoolIInv, NEW t \in Thread, NEW v \in Var, NEW w \in Var \ {v}, pdp_packet_clone_rw(t, v, w)
    PROVE  PoolIInv'
<1> DEFINE o == [pc |-> "reuse", op |-> "clone", type |-> pool[ref[v]].desc, src |-> v, dst |-> w]
<1>1. Free(v) /\ Free(w) /\ ref[w] = Invalid /\ ref[v] # Invalid /\ pool[ref[v]].desc \in Type
  BY VarFacts, HandleFacts DEF pdp_packet_clone_rw, Vacant, Holds, Valid
<1>2. op[t].pc = "idle" /\ op' = [op EXCEPT ![t] = o] /\ UNCHANGED <<pool, pool_size, fifo, ref, lock>>
  BY DEF pdp_packet_clone_rw, Start, Vacant, Holds
<1>3. o \in Op
  BY <1>1 DEF Op, Pc, Reuse, OpName
<1>4. ref[t] = Invalid /\ op'[t] = o
  BY <1>2, IdleFacts
<1>5. Phase(t)'
  BY <1>1, <1>2, <1>4 DEF Phase, HasHandle, HasType, HasSource, HasTarget, Empty, Taken, Named, ByHand, Making, Releasing,
             Constructors, Copiers
<1>6. \A u \in Var : o.src = u \/ o.dst = u => Works(t, u) \/ Free(u)
  BY <1>1, HandleFacts
<1> HIDE DEF o
<1> QED
  BY <1>2, <1>3, <1>5, <1>6, Kept, QuietStep

LEMMA CopyStep ==
    ASSUME PoolIInv, NEW t \in Thread, NEW v \in Var, NEW w \in Var \ {v}, pdp_packet_copy_rw(t, v, w)
    PROVE  PoolIInv'
<1> DEFINE o == [pc |-> "reuse", op |-> "copy_rw", type |-> pool[ref[v]].desc, src |-> v, dst |-> w]
<1>1. Free(v) /\ Free(w) /\ ref[w] = Invalid /\ ref[v] # Invalid /\ pool[ref[v]].desc \in Type
  BY VarFacts, HandleFacts DEF pdp_packet_copy_rw, Vacant, Holds, Valid
<1>2. op[t].pc = "idle" /\ op' = [op EXCEPT ![t] = o] /\ UNCHANGED <<pool, pool_size, fifo, ref, lock>>
  BY DEF pdp_packet_copy_rw, Start, Vacant, Holds
<1>3. o \in Op
  BY <1>1 DEF Op, Pc, Reuse, OpName
<1>4. ref[t] = Invalid /\ op'[t] = o
  BY <1>2, IdleFacts
<1>5. Phase(t)'
  BY <1>1, <1>2, <1>4 DEF Phase, HasHandle, HasType, HasSource, HasTarget, Empty, Taken, Named, ByHand, Making, Releasing,
             Constructors, Copiers
<1>6. \A u \in Var : o.src = u \/ o.dst = u => Works(t, u) \/ Free(u)
  BY <1>1, HandleFacts
<1> HIDE DEF o
<1> QED
  BY <1>2, <1>3, <1>5, <1>6, Kept, QuietStep

LEMMA ReplaceStep ==
    ASSUME PoolIInv, NEW t \in Thread, NEW v \in Var, pdp_packet_replace_with_writable(t, v)
    PROVE  PoolIInv'
<1> DEFINE o == [pc |-> IF pool[ref[v]].desc \in DoNotCopy THEN "release" ELSE "reuse", op |-> "replace", type |-> pool[ref[v]].desc, src |-> v, dst |-> v]
<1>1. Free(v) /\ ref[v] # Invalid /\ pool[ref[v]].desc \in Type
  BY VarFacts, HandleFacts DEF pdp_packet_replace_with_writable, Holds, Valid
<1>2. op[t].pc = "idle" /\ op' = [op EXCEPT ![t] = o] /\ UNCHANGED <<pool, pool_size, fifo, ref, lock>>
  BY DEF pdp_packet_replace_with_writable, Start, Vacant, Holds
<1>3. o \in Op
  BY <1>1 DEF Op, Pc, Reuse, OpName
<1>4. ref[t] = Invalid /\ op'[t] = o
  BY <1>2, IdleFacts
<1>5. Phase(t)'
  BY <1>1, <1>2, <1>4 DEF Phase, HasHandle, HasType, HasSource, HasTarget, Empty, Taken, Named, ByHand, Making, Releasing,
             Constructors, Copiers
<1>6. \A u \in Var : o.src = u \/ o.dst = u => Works(t, u) \/ Free(u)
  BY <1>1, HandleFacts
<1> HIDE DEF o
<1> QED
  BY <1>2, <1>3, <1>5, <1>6, Kept, QuietStep

LEMMA DeleteStep ==
    ASSUME PoolIInv, NEW t \in Thread, NEW v \in Var, pdp_packet_delete(t, v)
    PROVE  PoolIInv'
<1> DEFINE o == [pc |-> "cleanup", op |-> "delete", type |-> pool[ref[v]].desc, src |-> v, dst |-> None]
<1>1. Free(v) /\ ref[v] # Invalid /\ pool[ref[v]].desc \in Type /\ Alone(v) /\ v # None
  BY VarFacts, HandleFacts, OneAlone DEF pdp_packet_delete, Holds, Valid, PoolIInv
<1>2. op[t].pc = "idle" /\ op' = [op EXCEPT ![t] = o] /\ UNCHANGED <<pool, pool_size, fifo, ref, lock>>
  BY DEF pdp_packet_delete, Start, Vacant, Holds
<1>3. o \in Op
  BY <1>1 DEF Op, Pc, Reuse, OpName
<1>4. ref[t] = Invalid /\ op'[t] = o
  BY <1>2, IdleFacts
<1>5. Phase(t)'
  BY <1>1, <1>2, <1>4 DEF Alone, Phase, HasHandle, HasType, HasSource, HasTarget, Empty, Taken, Named, ByHand, Making, Releasing,
             Constructors, Copiers
<1>6. \A u \in Var : o.src = u \/ o.dst = u => Works(t, u) \/ Free(u)
  BY <1>1, HandleFacts
<1> HIDE DEF o
<1> QED
  BY <1>2, <1>3, <1>5, <1>6, Kept, QuietStep

(* An operation that is over. *)
LEMMA IdleOp == Idle \in Op /\ Idle.pc = "idle" /\ Idle.op = "none" /\ Idle.src = None /\ Idle.dst = None
BY DEF Idle, Op, Pc, OpName

LEMMA IdlePhase ==
    ASSUME PoolIInv, NEW t \in Thread, op' = [op EXCEPT ![t] = Idle], ref'[t] = Invalid
    PROVE  Phase(t)'
<1>1. op'[t] = Idle
  BY DEF PoolIInv, OpsOK
<1> QED
  BY <1>1, IdleOp DEF Phase, HasHandle, HasType, HasSource, HasTarget, Empty, Taken, Named, ByHand, Making, Releasing,
             Constructors, Copiers

(* A thread takes a reference from a variable it works on. *)
LEMMA VariableLeft ==
    ASSUME PoolIInv, NEW t \in Thread, NEW o \in Op, op' = [op EXCEPT ![t] = o], lock' = lock,
           NEW v \in Var, ref[v] # Invalid, Works(t, v) \/ Free(v), ref' = [ref EXCEPT ![v] = Invalid],
           \A r \in Ref \ {v} : ref[r] # Invalid => pool'[ref[r]].desc = pool[ref[r]].desc,
           \A u \in Var : o.src = u \/ o.dst = u => Works(t, u) \/ Free(u),
           Phase(t)'
    PROVE  OpsOK'
<1>1. v \in Ref /\ Var \subseteq Ref /\ Thread \subseteq Ref /\ Var \cap Thread = {} /\ ref \in [Ref -> Handle \union {Invalid}]
  BY HandleFacts DEF PoolIInv, PoolOK, PoolTypes
<1>2. ref'[v] = Invalid /\ \A r \in Ref \ {v} : ref'[r] = ref[r]
  BY <1>1
<1>3. \A u \in Thread \ {t} : ref'[u] = ref[u]
  BY <1>1, <1>2
<1>4. \A u \in Thread \ {t} : \A w \in Var : Works(u, w) => ref'[w] = ref[w]
  BY <1>1, <1>2 DEF Works, Free, PoolIInv, OpsOK, Separate
<1>5. \A r \in Ref \ {t} : ref[r] # Invalid /\ ref'[r] = ref[r] => pool'[ref[r]].desc = pool[ref[r]].desc
  BY <1>2
<1>6. \A u \in Thread \ {t} : \A w \in Var : Works(u, w) /\ ref[w] # Invalid /\ Alone(w) => Alone(w)'
  BY <1>1, <1>2, <1>4 DEF Alone
<1>7. lock' \in Thread \union {None}
  BY DEF PoolIInv, OpsOK
<1> QED
  BY <1>3, <1>4, <1>5, <1>6, <1>7, OthersKept

(* A variable gives up a packet that others use, or that none uses now. *)
LEMMA Leaves ==
    ASSUME PoolIInv, NEW t \in Thread, NEW v \in Var, ref[v] # Invalid,
           \/ pool[ref[v]].users > 1 /\ Decrement(t, v)
           \/ pool[ref[v]].users <= 1 /\ Retire(t, v)
    PROVE  /\ PoolOK' /\ ref' = [ref EXCEPT ![v] = Invalid] /\ lock' = lock
           /\ \A r \in Ref : ref[r] # Invalid => pool'[ref[r]].desc = pool[ref[r]].desc
<1>1. v \in Ref /\ ref \in [Ref -> Handle \union {Invalid}] /\ PoolOK
      /\ ref[v] \in Handle /\ pool[ref[v]] \in Header /\ pool \in [Handle -> Header \union {Null}]
  BY HandleFacts, VarFacts DEF PoolIInv, PoolOK, PoolTypes
<1>2. \A r \in Ref : ref[r] # Invalid => ref[r] \in Handle /\ pool[ref[r]] \in Header
  BY <1>1 DEF PoolOK, RefsValid
<1>3. CASE pool[ref[v]].users > 1 /\ Decrement(t, v)
  <2>1. PoolOK'
    BY <1>1, <1>3, UserLeft DEF Decrement
  <2>2. \A h \in Handle : pool[h] \in Header => pool'[h].desc = pool[h].desc
    BY <1>1, <1>3 DEF Decrement, Header
  <2> QED
    BY <1>2, <1>3, <2>1, <2>2 DEF Decrement
<1>4. CASE pool[ref[v]].users <= 1 /\ Retire(t, v)
  <2>1. PoolOK'
    BY <1>1, <1>4, OneAlone, PacketRetired DEF Retire
  <2>2. \A h \in Handle : pool[h] \in Header => pool'[h].desc = pool[h].desc
    BY <1>1, <1>4 DEF Retire, Header
  <2> QED
    BY <1>2, <1>4, <2>1, <2>2 DEF Retire
<1> QED
  BY <1>3, <1>4

LEMMA UnusedStep ==
    ASSUME PoolIInv, NEW t \in Thread, NEW v \in Var, pdp_packet_mark_unused(t, v)
    PROVE  PoolIInv'
<1>1. op[t].pc = "idle" /\ Free(v) /\ ref[v] # Invalid /\ pool[ref[v]].desc \in Type /\ v # None
  BY VarFacts, HandleFacts DEF pdp_packet_mark_unused, Holds, Valid
<1>2. CASE (\/ pool[ref[v]].users > 1 /\ Decrement(t, v)
            \/ pool[ref[v]].users <= 1 /\ Retire(t, v)) /\ UNCHANGED op
  <2>1. PoolOK' /\ ref' = [ref EXCEPT ![v] = Invalid] /\ lock' = lock
        /\ \A r \in Ref : ref[r] # Invalid => pool'[ref[r]].desc = pool[ref[r]].desc
    BY <1>1, <1>2, Leaves
  <2>2. op[t] \in Op /\ op' = [op EXCEPT ![t] = op[t]] /\ op[t].src = None /\ op[t].dst = None
        /\ ref[t] = Invalid /\ op[t].op = "none"
    BY <1>1, <1>2, IdleFacts
  <2>3. t \in Ref /\ t # v
    BY HandleFacts
  <2>4. ref'[t] = Invalid /\ op'[t] = op[t]
    BY <1>2, <2>1, <2>2, <2>3 DEF PoolIInv, PoolOK, PoolTypes
  <2>5. Phase(t)'
    BY <1>1, <2>2, <2>4 DEF Phase, HasHandle, HasType, HasSource, HasTarget, Empty, Taken, Named, ByHand, Making, Releasing,
             Constructors, Copiers
  <2>6. \A u \in Var : op[t].src = u \/ op[t].dst = u => Works(t, u) \/ Free(u)
    BY DEF Works
  <2> QED
    BY <1>1, <2>1, <2>2, <2>5, <2>6, VariableLeft DEF PoolIInv
<1>3. CASE /\ pool[ref[v]].users <= 1
           /\ Start(t, "mark_unused", "sleep", pool[ref[v]].desc, v, None)
           /\ UNCHANGED <<pool, pool_size, fifo, ref, lock>>
  <2> DEFINE o == [pc |-> "sleep", op |-> "mark_unused", type |-> pool[ref[v]].desc, src |-> v, dst |-> None]
  <2>1. Alone(v)
    BY <1>1, <1>3, OneAlone, HandleFacts DEF PoolIInv
  <2>2. op' = [op EXCEPT ![t] = o]
    BY <1>3 DEF Start
  <2>3. o \in Op
    BY <1>1 DEF Op, Pc, OpName
  <2>4. ref[t] = Invalid /\ op'[t] = o
    BY <1>1, <2>2, IdleFacts
  <2>5. Phase(t)'
    BY <1>1, <1>3, <2>1, <2>4 DEF Alone, Phase, HasHandle, HasType, HasSource, HasTarget, Empty, Taken, Named, ByHand, Making, Releasing,
             Constructors, Copiers
  <2>6. \A u \in Var : o.src = u \/ o.dst = u => Works(t, u) \/ Free(u)
    BY <1>1, HandleFacts
  <2> HIDE DEF o
  <2> QED
    BY <1>3, <2>2, <2>3, <2>5, <2>6, Kept, QuietStep
<1> QED
  BY <1>2, <1>3 DEF pdp_packet_mark_unused

(* The steps that release: the old packet of a replacement, a packet after *)
(* its sleep method, and one that is deleted.                              *)
LEMMA ReleaseStep ==
    ASSUME PoolIInv, NEW t \in Thread, ReleaseOld(t)
    PROVE  PoolIInv'
<1> DEFINE v == op[t].src
           o == [op[t] EXCEPT !.pc = "return"]
           s == [op[t] EXCEPT !.pc = "sleep"]
<1>1. /\ op[t] \in Op /\ op[t].pc = "release" /\ op[t].op = "replace" /\ v \in Var /\ op[t].dst = v
      /\ ref[v] # Invalid /\ op[t].type \in Type /\ Phase(t)
      /\ (ref[t] # Invalid => pool[ref[t]].desc = op[t].type)
  BY DEF ReleaseOld, PoolIInv, OpsOK, Phase, HasHandle, HasType, HasSource, HasTarget, Empty, Taken, Named, ByHand, Making, Releasing,
             Constructors, Copiers
<1>2. \A u \in Var : u = v => Works(t, u)
  BY DEF Works
<1>3. o \in Op /\ o.pc = "return" /\ o.src = v /\ o.dst = v /\ o.op = "replace" /\ o.type = op[t].type
      /\ s \in Op /\ s.pc = "sleep" /\ s.src = v /\ s.dst = v /\ s.op = "replace" /\ s.type = op[t].type
  BY <1>1 DEF Op, Pc
<1> HIDE DEF o, s
<1>4. CASE (\/ pool[ref[v]].users > 1 /\ Decrement(t, v)
            \/ pool[ref[v]].users <= 1 /\ Retire(t, v)) /\ Continue(t)
  <2>1. PoolOK' /\ ref' = [ref EXCEPT ![v] = Invalid] /\ lock' = lock
        /\ \A r \in Ref : ref[r] # Invalid => pool'[ref[r]].desc = pool[ref[r]].desc
    BY <1>1, <1>4, Leaves
  <2>2. op' = [op EXCEPT ![t] = o]
    BY <1>1, <1>4 DEF Continue, Goto, o, PoolIInv, OpsOK, Op
  <2>3. t \in Ref /\ t # v /\ v \in Ref
    BY <1>1, HandleFacts
  <2>4. ref'[t] = ref[t] /\ ref'[v] = Invalid /\ op'[t] = o
    BY <2>1, <2>2, <2>3 DEF PoolIInv, PoolOK, PoolTypes, OpsOK
  <2>5. Phase(t)'
    BY <1>1, <1>3, <2>1, <2>3, <2>4 DEF Phase, HasHandle, HasType, HasSource, HasTarget, Empty, Taken, Named, ByHand, Making, Releasing,
             Constructors, Copiers
  <2>6. \A u \in Var : o.src = u \/ o.dst = u => Works(t, u) \/ Free(u)
    BY <1>2, <1>3
  <2>7. OpsOK'
    BY <1>1, <1>2, <1>3, <2>1, <2>2, <2>5, <2>6, VariableLeft
  <2> QED
    BY <2>1, <2>7 DEF PoolIInv
<1>5. CASE pool[ref[v]].users <= 1 /\ Goto(t, "sleep") /\ UNCHANGED <<pool, pool_size, fifo, ref, lock>>
  <2>1. Alone(v)
    BY <1>1, <1>5, OneAlone, HandleFacts DEF PoolIInv
  <2>2. op' = [op EXCEPT ![t] = s]
    BY <1>5 DEF Goto, s, PoolIInv, OpsOK, Op
  <2>3. op'[t] = s
    BY <2>2 DEF PoolIInv, OpsOK
  <2>4. Phase(t)'
    BY <1>1, <1>3, <1>5, <2>1, <2>3 DEF Alone, Phase, HasHandle, HasType, HasSource, HasTarget, Empty, Taken, Named, ByHand, Making, Releasing,
             Constructors, Copiers
  <2>5. \A u \in Var : s.src = u \/ s.dst = u => Works(t, u) \/ Free(u)
    BY <1>2, <1>3
  <2> QED
    BY <1>3, <1>5, <2>2, <2>4, <2>5, Kept, QuietStep
<1> QED
  BY <1>4, <1>5 DEF ReleaseOld

LEMMA SleepStep ==
    ASSUME PoolIInv, NEW t \in Thread, SleepDone(t)
    PROVE  PoolIInv'
<1> DEFINE v == op[t].src
           o == IF op[t].op = "replace" THEN [op[t] EXCEPT !.pc = "return"] ELSE Idle
<1>1. /\ op[t] \in Op /\ op[t].pc = "sleep" /\ op[t].op \in {"replace", "mark_unused"} /\ v \in Var
      /\ ref[v] # Invalid /\ Alone(v) /\ op[t].type \in Type
      /\ (op[t].op = "replace" => op[t].dst = v) /\ (op[t].op = "mark_unused" => ref[t] = Invalid)
      /\ (ref[t] # Invalid => pool[ref[t]].desc = op[t].type)
  BY DEF SleepDone, PoolIInv, OpsOK, Phase, HasHandle, HasType, HasSource, HasTarget, Empty, Taken, Named, ByHand, Making, Releasing,
             Constructors, Copiers
<1>2. pool[ref[v]].users <= 1
  BY <1>1, AloneOne, HandleFacts DEF PoolIInv
<1>3. PoolOK' /\ ref' = [ref EXCEPT ![v] = Invalid] /\ lock' = lock
      /\ \A r \in Ref : ref[r] # Invalid => pool'[ref[r]].desc = pool[ref[r]].desc
  BY <1>1, <1>2, Leaves DEF SleepDone
<1>4. op' = [op EXCEPT ![t] = o]
  BY DEF SleepDone, Continue, Goto, Return, PoolIInv, OpsOK, Op
<1>5. t \in Ref /\ t # v /\ v \in Ref
  BY <1>1, HandleFacts
<1>6. ref'[t] = ref[t] /\ ref'[v] = Invalid /\ op'[t] = o
  BY <1>3, <1>4, <1>5 DEF PoolIInv, PoolOK, PoolTypes, OpsOK
<1>7. CASE op[t].op = "replace"
  <2>1. o \in Op /\ o.pc = "return" /\ o.src = v /\ o.dst = v /\ o.op = "replace" /\ o.type = op[t].type
    BY <1>1, <1>7 DEF Op, Pc
  <2> HIDE DEF o
  <2>2. Phase(t)'
    BY <1>1, <1>3, <1>5, <1>6, <2>1 DEF Phase, HasHandle, HasType, HasSource, HasTarget, Empty, Taken, Named, ByHand, Making, Releasing,
             Constructors, Copiers
  <2>3. Works(t, v) /\ \A u \in Var : o.src = u \/ o.dst = u => Works(t, u) \/ Free(u)
    BY <2>1 DEF Works
  <2>4. OpsOK'
    BY <1>1, <1>3, <1>4, <2>1, <2>2, <2>3, VariableLeft
  <2> QED
    BY <1>3, <2>4 DEF PoolIInv
<1>8. CASE op[t].op = "mark_unused"
  <2>1. o = Idle
    BY <1>8
  <2>2. Phase(t)'
    BY <1>1, <1>4, <1>6, <1>8, <2>1, IdlePhase
  <2>3. Works(t, v) /\ \A u \in Var : Idle.src = u \/ Idle.dst = u => Works(t, u) \/ Free(u)
    BY IdleOp, HandleFacts DEF Works
  <2> HIDE DEF o
  <2>4. OpsOK'
    BY <1>1, <1>3, <1>4, <2>1, <2>2, <2>3, IdleOp, VariableLeft
  <2> QED
    BY <1>3, <2>4 DEF PoolIInv
<1> QED
  BY <1>1, <1>7, <1>8

LEMMA CleanupStep ==
    ASSUME PoolIInv, NEW t \in Thread, CleanupDone(t)
    PROVE  PoolIInv'
<1> DEFINE v == op[t].src
<1>1. op[t].pc = "cleanup" /\ v \in Var /\ ref[v] # Invalid /\ Alone(v) /\ ref[t] = Invalid
  BY DEF CleanupDone, PoolIInv, OpsOK, Phase, HasHandle, HasType, HasSource, HasTarget, Empty, Taken, Named, ByHand, Making, Releasing,
             Constructors, Copiers
<1>2. pool' = [pool EXCEPT ![ref[v]] = Null] /\ ref' = [ref EXCEPT ![v] = Invalid]
      /\ op' = [op EXCEPT ![t] = Idle] /\ UNCHANGED <<pool_size, fifo, lock>>
  BY DEF CleanupDone, Return
<1>3. t \in Ref /\ t # v /\ v \in Ref
  BY <1>1, HandleFacts
<1>4. PoolOK'
  BY <1>1, <1>2, <1>3, PacketDeleted DEF PoolIInv
<1>5. \A r \in Ref \ {v} : ref[r] # Invalid => pool'[ref[r]].desc = pool[ref[r]].desc
  BY <1>1, <1>2 DEF Alone, PoolIInv, PoolOK, PoolTypes
<1>6. ref'[t] = Invalid
  BY <1>1, <1>2, <1>3 DEF PoolIInv, PoolOK, PoolTypes
<1>7. Phase(t)'
  BY <1>2, <1>6, IdlePhase
<1>8. Works(t, v) /\ \A u \in Var : Idle.src = u \/ Idle.dst = u => Works(t, u) \/ Free(u)
  BY IdleOp, HandleFacts DEF Works
<1>9. OpsOK'
  BY <1>1, <1>2, <1>5, <1>7, <1>8, IdleOp, VariableLeft
<1> QED
  BY <1>4, <1>9 DEF PoolIInv

LEMMA ShareStep ==
    ASSUME PoolIInv, NEW t \in Thread, NEW v \in Var, NEW w \in Var \ {v}, pdp_packet_copy_ro(t, v, w)
    PROVE  PoolIInv'
<1>1. op[t].pc = "idle" /\ Free(v) /\ Free(w) /\ ref[v] # Invalid /\ ref[w] = Invalid
      /\ pool[ref[v]].desc \in Shared
  BY HandleFacts DEF pdp_packet_copy_ro, Holds, Vacant, Valid
<1>2. pool' = [pool EXCEPT ![ref[v]].users = @ + 1] /\ ref' = [ref EXCEPT ![w] = ref[v]]
      /\ UNCHANGED <<pool_size, fifo, op, lock>>
  BY DEF pdp_packet_copy_ro
<1>3. PoolOK'
  BY <1>1, <1>2, PacketShared DEF PoolIInv
<1>4. op[t] \in Op /\ op' = [op EXCEPT ![t] = op[t]] /\ op[t].src = None /\ op[t].dst = None
      /\ ref[t] = Invalid /\ op[t].op = "none"
  BY <1>1, <1>2, IdleFacts
<1>5. v \in Ref /\ w \in Ref /\ Var \subseteq Ref /\ Thread \subseteq Ref /\ Var \cap Thread = {}
      /\ ref \in [Ref -> Handle \union {Invalid}] /\ lock \in Thread \union {None}
  BY HandleFacts DEF PoolIInv, PoolOK, PoolTypes, OpsOK
<1>6. ref'[w] = ref[v] /\ \A r \in Ref \ {w} : ref'[r] = ref[r]
  BY <1>2, <1>5
<1>7. ref'[t] = Invalid /\ op'[t] = op[t]
  BY <1>2, <1>4, <1>5, <1>6
<1>8. Phase(t)'
  BY <1>1, <1>4, <1>7 DEF Phase, HasHandle, HasType, HasSource, HasTarget, Empty, Taken, Named, ByHand, Making, Releasing,
             Constructors, Copiers
<1>9. \A u \in Thread \ {t} : ref'[u] = ref[u]
  BY <1>5, <1>6
<1>10. \A u \in Thread \ {t} : \A x \in Var : Works(u, x) => x # v /\ x # w /\ ref'[x] = ref[x]
  BY <1>1, <1>5, <1>6 DEF Works, Free
<1>11. \A r \in Ref \ {t} : ref[r] # Invalid /\ ref'[r] = ref[r] => pool'[ref[r]].desc = pool[ref[r]].desc
  <2>1. \A r \in Ref : ref[r] # Invalid => ref[r] \in Handle /\ pool[ref[r]] \in Header
    BY DEF PoolIInv, PoolOK, RefsValid, PoolTypes
  <2>2. \A h \in Handle : pool[h] \in Header => pool'[h].desc = pool[h].desc
    BY <1>2 DEF Header, PoolIInv, PoolOK, PoolTypes
  <2> QED
    BY <2>1, <2>2
<1>12. \A u \in Thread \ {t} : \A x \in Var : Works(u, x) /\ ref[x] # Invalid /\ Alone(x) => Alone(x)'
  <2> SUFFICES ASSUME NEW u \in Thread \ {t}, NEW x \in Var, Works(u, x), ref[x] # Invalid, Alone(x)
               PROVE  Alone(x)'
    OBVIOUS
  <2>1. x # v /\ x # w /\ ref'[x] = ref[x] /\ ref[v] # ref[x]
    BY <1>5, <1>10 DEF Alone
  <2> QED
    BY <1>6, <2>1 DEF Alone
<1>13. \A u \in Var : op[t].src = u \/ op[t].dst = u => Works(t, u) \/ Free(u)
  BY DEF Works
<1>14. OpsOK'
  <2>1. \A u \in Thread \ {t} : \A x \in Var : Works(u, x) => ref'[x] = ref[x]
    BY <1>10
  <2>2. lock' \in Thread \union {None}
    BY <1>2, <1>5
  <2> QED
    BY <1>4, <1>8, <1>9, <1>11, <1>12, <1>13, <2>1, <2>2, OthersKept
<1> QED
  BY <1>3, <1>14 DEF PoolIInv

(* A step that changes a packet and keeps who refers to it. *)
LEMMA ContentsStep ==
    ASSUME PoolIInv, NEW t \in Thread, NEW o \in Op, op' = [op EXCEPT ![t] = o], UNCHANGED <<pool_size, fifo, ref, lock>>,
           NEW h \in Handle, pool[h] # Null, NEW x \in Header, pool' = [pool EXCEPT ![h] = x],
           x.users = pool[h].users, x.users # 0, x.desc = pool[h].desc \/ ref[t] = h,
           \A v \in Var : o.src = v \/ o.dst = v => Works(t, v) \/ Free(v),
           Phase(t)'
    PROVE  PoolIInv'
<1>1. PoolOK'
  BY PacketChanged DEF PoolIInv
<1>2. lock' \in Thread \union {None} /\ t \in Ref
  BY HandleFacts DEF PoolIInv, OpsOK
<1>3. pool'[h] = x /\ \A g \in Handle \ {h} : pool'[g] = pool[g]
  BY DEF PoolIInv, PoolOK, PoolTypes
<1>4. \A r \in Ref : ref[r] # Invalid => ref[r] \in Handle
  BY DEF PoolIInv, PoolOK, PoolTypes
<1>5. \A r \in Ref \ {t} : ref[r] # Invalid => pool'[ref[r]].desc = pool[ref[r]].desc
  <2>1. CASE x.desc = pool[h].desc
    BY <1>3, <1>4, <2>1
  <2>2. CASE ref[t] = h
    BY <1>2, <1>3, <1>4, <2>2, ThreadAlone, HandleFacts DEF Alone, PoolIInv
  <2> QED
    BY <2>1, <2>2
<1>6. \A v \in Var : Alone(v) => Alone(v)'
  BY DEF Alone
<1>7. OpsOK'
  BY <1>2, <1>5, <1>6, OthersKept
<1> QED
  BY <1>1, <1>7 DEF PoolIInv

LEMMA WriteStep ==
    ASSUME PoolIInv, NEW t \in Thread, NEW v \in Var, NEW d \in Data, Write(t, v, d)
    PROVE  PoolIInv'
<1> DEFINE h == ref[v]
           x == [pool[h] EXCEPT !.data = d]
<1>1. op[t].pc = "idle" /\ ref[v] # Invalid /\ pool[ref[v]].users = 1
  BY HandleFacts DEF Write, Holds, Valid, pdp_packet_writable
<1>2. h \in Handle /\ pool[h] # Null /\ pool[h] \in Header
  BY <1>1, VarFacts
<1>3. x \in Header /\ x.users = pool[h].users /\ x.users # 0 /\ x.desc = pool[h].desc
  BY <1>1, <1>2 DEF Header
<1>4. pool' = [pool EXCEPT ![h] = x] /\ UNCHANGED <<pool_size, fifo, ref, op, lock>>
  BY <1>2 DEF Write, PoolIInv, PoolOK, PoolTypes
<1>5. op[t] \in Op /\ op' = [op EXCEPT ![t] = op[t]] /\ op[t].src = None /\ op[t].dst = None
      /\ ref[t] = Invalid /\ op[t].op = "none"
  BY <1>1, <1>4, IdleFacts
<1>6. Phase(t)'
  BY <1>1, <1>4, <1>5 DEF Phase, HasHandle, HasType, HasSource, HasTarget, Empty, Taken, Named, ByHand, Making, Releasing,
             Constructors, Copiers
<1>7. \A u \in Var : op[t].src = u \/ op[t].dst = u => Works(t, u) \/ Free(u)
  BY DEF Works
<1> HIDE DEF x
<1> QED
  BY <1>2, <1>3, <1>4, <1>5, <1>6, <1>7, ContentsStep

-----------------------------------------------------------------------------
(* The steps of an operation: the thread goes on, or its operation is over. *)
LEMMA GotoFacts ==
    ASSUME PoolIInv, NEW t \in Thread, NEW c \in Pc, Goto(t, c)
    PROVE  \E o \in Op : /\ op' = [op EXCEPT ![t] = o] /\ op'[t] = o
                         /\ o.pc = c /\ o.op = op[t].op /\ o.type = op[t].type /\ o.src = op[t].src /\ o.dst = op[t].dst
                         /\ \A v \in Var : o.src = v \/ o.dst = v => Works(t, v) \/ Free(v)
<1> DEFINE o == [op[t] EXCEPT !.pc = c]
<1>1. op[t] \in Op /\ op \in [Thread -> Op]
  BY DEF PoolIInv, OpsOK
<1>2. o \in Op /\ o.pc = c /\ o.op = op[t].op /\ o.type = op[t].type /\ o.src = op[t].src /\ o.dst = op[t].dst
  BY <1>1 DEF Op
<1>3. op' = [op EXCEPT ![t] = o] /\ op'[t] = o
  BY <1>1 DEF Goto, Op
<1> HIDE DEF o
<1> QED
  BY <1>2, <1>3 DEF Works

LEMMA ReturnFacts ==
    ASSUME PoolIInv, NEW t \in Thread, Return(t)
    PROVE  /\ op' = [op EXCEPT ![t] = Idle] /\ op'[t] = Idle /\ Idle \in Op
           /\ \A v \in Var : Idle.src = v \/ Idle.dst = v => Works(t, v) \/ Free(v)
BY IdleOp, HandleFacts DEF Return, PoolIInv, OpsOK

(* A thread that has no handle may go on to another such point. *)
LEMMA OnStep ==
    ASSUME PoolIInv, NEW t \in Thread, NEW c \in Pc, Goto(t, c),
           lock' \in Thread \union {None}, pool_size' \in pool_size .. MaxPool, UNCHANGED <<pool, fifo, ref>>,
           \A o \in Op : /\ op'[t] = o
                        /\ o.pc = c /\ o.op = op[t].op /\ o.type = op[t].type /\ o.src = op[t].src /\ o.dst = op[t].dst
                        => Phase(t)'
    PROVE  PoolIInv'
<1>1. PICK o \in Op : /\ op' = [op EXCEPT ![t] = o] /\ op'[t] = o
                     /\ o.pc = c /\ o.op = op[t].op /\ o.type = op[t].type /\ o.src = op[t].src /\ o.dst = op[t].dst
                     /\ \A v \in Var : o.src = v \/ o.dst = v => Works(t, v) \/ Free(v)
  BY GotoFacts
<1> QED
  BY <1>1, QuietStep

LEMMA OverStep ==
    ASSUME PoolIInv, NEW t \in Thread, Return(t), ref[t] = Invalid,
           lock' \in Thread \union {None}, pool_size' \in pool_size .. MaxPool, UNCHANGED <<pool, fifo, ref>>
    PROVE  PoolIInv'
<1>1. Phase(t)'
  BY IdlePhase DEF Return
<1> QED
  BY <1>1, ReturnFacts, QuietStep

LEMMA EmptyStep ==
    ASSUME SharedExact, PoolIInv, NEW t \in Thread, ReuseEmpty(t)
    PROVE  PoolIInv'
<1>1. op[t].pc \in {"reuse", "factory"} /\ lock' = None /\ UNCHANGED <<pool, pool_size, fifo, ref>> /\ Phase(t)
      /\ op[t] \in Op /\ ref[t] = Invalid
  BY DEF ReuseEmpty, Reuse, PoolIInv, OpsOK, Phase, HasHandle, Empty
<1>2. pool_size' \in pool_size .. MaxPool /\ lock' \in Thread \union {None}
  BY <1>1, Kept
<1>3. CASE Goto(t, "factory") /\ op[t].pc = "reuse"
  <2>1. ASSUME NEW o \in Op, op'[t] = o, o.pc = "factory", o.op = op[t].op, o.type = op[t].type,
               o.src = op[t].src, o.dst = op[t].dst
        PROVE  Phase(t)'
    BY <1>1, <1>3, <2>1 DEF Phase, HasHandle, HasType, HasSource, HasTarget, Empty, Taken, Named, ByHand, Making, Releasing,
             Constructors, Copiers
  <2>2. "factory" \in Pc
    BY DEF Pc, Reuse
  <2> QED
    BY <1>1, <1>2, <1>3, <2>1, <2>2, OnStep
<1>4. CASE Goto(t, "construct") /\ op[t].pc = "factory"
  <2>1. ASSUME NEW o \in Op, op'[t] = o, o.pc = "construct", o.op = op[t].op, o.type = op[t].type,
               o.src = op[t].src, o.dst = op[t].dst
        PROVE  Phase(t)'
    BY <1>1, <1>4, <2>1 DEF Phase, HasHandle, HasType, HasSource, HasTarget, Empty, Taken, Named, ByHand, Making, Releasing,
             Constructors, Copiers
  <2>2. "construct" \in Pc
    BY DEF Pc
  <2> QED
    BY <1>1, <1>2, <1>4, <2>1, <2>2, OnStep
<1>5. CASE Return(t)
  BY <1>1, <1>2, <1>5, OverStep
<1>6. CASE Goto(t, "fallback") /\ op[t].pc = "factory" /\ op[t].type \in NoFactory /\ op[t].op # "factory"
  <2>1. op[t].type \notin Shared
    BY <1>6 DEF SharedExact
  <2>2. ASSUME NEW o \in Op, op'[t] = o, o.pc = "fallback", o.op = op[t].op, o.type = op[t].type,
               o.src = op[t].src, o.dst = op[t].dst
        PROVE  Phase(t)'
    BY <1>1, <1>6, <2>1, <2>2 DEF Phase, HasHandle, HasType, HasSource, HasTarget, Empty, Taken, Named, ByHand, Making, Releasing,
             Constructors, Copiers
  <2>3. "fallback" \in Pc
    BY DEF Pc
  <2> QED
    BY <1>1, <1>2, <1>6, <2>2, <2>3, OnStep
<1> QED
  BY <1>1, <1>3, <1>4, <1>5, <1>6 DEF ReuseEmpty, Constructor

LEMMA DanglingStep ==
    ASSUME PoolIInv, NEW t \in Thread, ReuseDangling(t)
    PROVE  PoolIInv'
<1>1. op[t].pc \in {"reuse", "factory"} /\ UNCHANGED <<pool, pool_size, fifo, ref, lock>> /\ Phase(t)
      /\ Goto(t, "crash")
  BY DEF ReuseDangling, Popping, Reuse, PoolIInv, OpsOK
<1>2. ASSUME NEW o \in Op, op'[t] = o, o.pc = "crash", o.op = op[t].op, o.type = op[t].type,
             o.src = op[t].src, o.dst = op[t].dst
      PROVE  Phase(t)'
  BY <1>1, <1>2 DEF Phase, HasHandle, HasType, HasSource, HasTarget, Empty, Taken, Named, ByHand, Making, Releasing,
             Constructors, Copiers
<1>3. "crash" \in Pc
  BY DEF Pc
<1> QED
  BY <1>1, <1>2, <1>3, Kept, OnStep

(* Popping a fifo loses its head alone. *)
LEMMA PopFacts ==
    ASSUME PoolIInv, NEW t \in Thread, Popping(t)
    PROVE  /\ Popped(t) \in Handle /\ op[t].type \in Type
           /\ Pop(t) \in [Type -> Seq(Handle)]
           /\ \A y \in Type : NoRepeat(Pop(t)[y])
           /\ \A y \in Type : \A g \in Handle \ {Popped(t)} : g \in Elems(fifo[y]) => g \in Elems(Pop(t)[y])
           /\ \A y \in Type : Elems(Pop(t)[y]) \subseteq Elems(fifo[y])
           /\ Popped(t) \notin Elems(Pop(t)[op[t].type]) /\ Popped(t) \in Elems(fifo[op[t].type])
           /\ \A y \in Type \ {op[t].type} : Pop(t)[y] = fifo[y]
<1> DEFINE type == op[t].type
           s == fifo[type]
           q == Tail(s)
<1>1. type \in Type /\ fifo \in [Type -> Seq(Handle)] /\ s \in Seq(Handle) /\ s # <<>> /\ \A y \in Type : NoRepeat(fifo[y])
  <2>1. op[t].pc \in {"reuse", "factory"} /\ s # <<>> /\ Phase(t)
    BY DEF Popping, Reuse, PoolIInv, OpsOK
  <2>2. type \in Type
    BY <2>1 DEF Phase, HasType
  <2> QED
    BY <2>1, <2>2 DEF PoolIInv, PoolOK, PoolTypes, FifoOnce
<1>2. /\ Len(s) \in Nat \ {0} /\ DOMAIN s = 1 .. Len(s) /\ Head(s) = s[1] /\ s[1] \in Handle
      /\ q \in Seq(Handle) /\ Len(q) = Len(s) - 1 /\ DOMAIN q = 1 .. Len(s) - 1
      /\ \A i \in 1 .. Len(s) - 1 : q[i] = s[i + 1]
  BY <1>1, HeadTailProperties
<1>3. Pop(t)[type] = q /\ (\A y \in Type \ {type} : Pop(t)[y] = fifo[y]) /\ Pop(t) \in [Type -> Seq(Handle)]
  BY <1>1, <1>2 DEF Pop
<1>4. Popped(t) = s[1]
  BY <1>2 DEF Popped
<1> HIDE DEF q, s, type
<1>5. NoRepeat(s)
  BY <1>1 DEF s
<1>6. NoRepeat(q)
  <2> SUFFICES ASSUME NEW i \in DOMAIN q, NEW j \in DOMAIN q, q[i] = q[j] PROVE i = j
    BY DEF NoRepeat
  <2>1. i \in Nat /\ j \in Nat /\ i + 1 \in DOMAIN s /\ j + 1 \in DOMAIN s /\ s[i + 1] = s[j + 1]
    BY <1>2
  <2>2. i + 1 = j + 1
    BY <1>5, <2>1 DEF NoRepeat
  <2> QED
    BY <2>1, <2>2
<1>7. \A i \in DOMAIN q : q[i] # s[1]
  <2> SUFFICES ASSUME NEW i \in DOMAIN q, q[i] = s[1] PROVE FALSE
    OBVIOUS
  <2>1. i \in Nat \ {0} /\ i + 1 \in DOMAIN s /\ 1 \in DOMAIN s /\ s[i + 1] = s[1]
    BY <1>2
  <2>2. i + 1 = 1
    BY <1>5, <2>1 DEF NoRepeat
  <2> QED
    BY <2>1, <2>2
<1>8. \A g \in Elems(s) : g # s[1] => g \in Elems(q)
  <2> SUFFICES ASSUME NEW i \in DOMAIN s, s[i] # s[1] PROVE s[i] \in Elems(q)
    BY DEF Elems
  <2>1. i - 1 \in DOMAIN q /\ (i - 1) + 1 = i
    BY <1>2
  <2>2. q[i - 1] = s[(i - 1) + 1]
    BY <1>2, <2>1
  <2> QED
    BY <2>1, <2>2 DEF Elems
<1>9. Elems(q) \subseteq Elems(s)
  <2> SUFFICES ASSUME NEW i \in DOMAIN q PROVE q[i] \in Elems(s)
    BY DEF Elems
  <2>1. i + 1 \in DOMAIN s /\ q[i] = s[i + 1]
    BY <1>2
  <2> QED
    BY <2>1 DEF Elems
<1>10. s[1] \notin Elems(q) /\ s[1] \in Elems(s)
  BY <1>2, <1>7 DEF Elems
<1>11. \A y \in Type : NoRepeat(Pop(t)[y])
  BY <1>1, <1>3, <1>6
<1>12. \A y \in Type : \A g \in Handle \ {Popped(t)} : g \in Elems(fifo[y]) => g \in Elems(Pop(t)[y])
  BY <1>3, <1>4, <1>8 DEF s
<1>13. \A y \in Type : Elems(Pop(t)[y]) \subseteq Elems(fifo[y])
  BY <1>3, <1>9 DEF s
<1> QED
  BY <1>1, <1>2, <1>3, <1>4, <1>10, <1>11, <1>12, <1>13 DEF type, s

LEMMA SkipStep ==
    ASSUME PoolIInv, NEW t \in Thread, ReuseSkip(t)
    PROVE  PoolIInv'
<1> SUFFICES ASSUME NEW h, h = Popped(t) PROVE PoolIInv'
  OBVIOUS
<1>1. /\ Popping(t) /\ Valid(h) /\ lock' = t /\ UNCHANGED <<pool, pool_size, ref, op>>
      /\ pool[h].users > 0 \/ pool[h].desc # op[t].type
      /\ fifo' = IF pool[h].users = 0 THEN Save(Pop(t), h, pool[h].desc) ELSE Pop(t)
  BY DEF ReuseSkip
<1>2. h \in Handle /\ pool[h] \in Header /\ pool[h] # Null /\ PoolOK
  BY <1>1, PopFacts DEF Valid, PoolIInv, PoolOK, PoolTypes
<1>3. /\ fifo' \in [Type -> Seq(Handle)] /\ \A y \in Type : NoRepeat(fifo'[y])
      /\ \A y \in Type : \A g \in Handle \ {h} : g \in Elems(fifo[y]) => g \in Elems(fifo'[y])
      /\ pool[h].users = 0 => h \in Elems(fifo'[pool[h].desc])
  <2> DEFINE P == Pop(t)
  <2>1. /\ P \in [Type -> Seq(Handle)] /\ \A y \in Type : NoRepeat(P[y])
        /\ \A y \in Type : \A g \in Handle \ {h} : g \in Elems(fifo[y]) => g \in Elems(P[y])
    BY <1>1, PopFacts
  <2> HIDE DEF P
  <2>2. CASE pool[h].users = 0
    <3> DEFINE G == Save(P, h, pool[h].desc)
    <3>1. pool[h].desc \in Type /\ fifo' = G
      BY <1>1, <1>2, <2>2 DEF PoolOK, Described, Header, P
    <3>2. /\ G \in [Type -> Seq(Handle)] /\ \A y \in Type : NoRepeat(G[y])
          /\ h \in Elems(G[pool[h].desc]) /\ \A y \in Type : Elems(P[y]) \subseteq Elems(G[y])
      BY <1>2, <2>1, <3>1, SaveFacts
    <3> HIDE DEF G
    <3> QED
      BY <2>1, <3>1, <3>2
  <2>3. CASE pool[h].users # 0
    BY <1>1, <2>1, <2>3 DEF P
  <2> QED
    BY <2>2, <2>3
<1>4. PoolTypes' /\ FifoOnce'
  BY <1>1, <1>2, <1>3 DEF PoolOK, PoolTypes, FifoOnce
<1>5. UnusedFindable'
  <2> SUFFICES ASSUME NEW g \in Handle, pool[g] # Null, pool[g].users = 0
               PROVE  g \in Elems(fifo'[pool[g].desc])
    BY <1>1 DEF UnusedFindable
  <2>1. pool[g] \in Header /\ pool[g].desc \in Type /\ g \in Elems(fifo[pool[g].desc])
    BY <1>2 DEF PoolOK, PoolTypes, Described, UnusedFindable, Header
  <2> QED
    BY <1>3, <2>1
<1>6. \A g : References(g)' = References(g)
  BY <1>1 DEF References
<1>7. Placed' /\ RefsValid' /\ Counted' /\ Sharing' /\ Described'
  BY <1>1, <1>2, <1>6 DEF PoolOK, Placed, RefsValid, Counted, Sharing, Described
<1>8. OpsOK'
  <2>1. \A u \in Thread : Phase(u)'
    BY <1>1 DEF PoolIInv, OpsOK, Phase, HasHandle, HasType, HasSource, HasTarget, Alone
  <2>2. Separate'
    BY <1>1 DEF PoolIInv, OpsOK, Separate, Works
  <2> QED
    BY <1>1, <2>1, <2>2 DEF PoolIInv, OpsOK
<1> QED
  BY <1>4, <1>5, <1>7, <1>8 DEF PoolIInv, PoolOK

(* Thread t takes packet h, which nobody uses, with header x. *)
Takes(t, h, x) ==
    /\ ref[t] = Invalid /\ h \in Handle /\ x \in Header /\ x.users = 1
    /\ pool[h] = Null \/ pool[h].users = 0
    /\ pool' = [pool EXCEPT ![h] = x] /\ ref' = [ref EXCEPT ![t] = h]
    /\ pool_size' \in pool_size .. MaxPool /\ h < pool_size'
    /\ fifo' \in [Type -> Seq(Handle)] /\ FifoOnce'
    /\ \A type \in Type : \A g \in Handle \ {h} : g \in Elems(fifo[type]) => g \in Elems(fifo'[type])

LEMMA TookFacts ==
    ASSUME PoolIInv, NEW t \in Thread, NEW h, NEW x, Takes(t, h, x)
    PROVE  /\ t \in Ref /\ ref'[t] = h /\ pool'[h] = x /\ h # Invalid
           /\ \A r \in Ref \ {t} : /\ ref'[r] = ref[r] /\ ref[r] # h
                                   /\ ref[r] # Invalid => pool'[ref[r]] = pool[ref[r]]
<1>1. h \in Handle /\ ref \in [Ref -> Handle \union {Invalid}] /\ t \in Ref /\ PoolOK
      /\ pool \in [Handle -> Header \union {Null}]
  BY HandleFacts DEF PoolIInv, PoolOK, PoolTypes, Takes
<1>2. \A r \in Ref : ref[r] # h
  BY <1>1, Unreferenced DEF Takes
<1> QED
  BY <1>1, <1>2, HandleFacts DEF Takes

LEMMA TookStep ==
    ASSUME PoolIInv, NEW t \in Thread, NEW h, NEW x, Takes(t, h, x), NEW o \in Op, op' = [op EXCEPT ![t] = o],
           lock' \in Thread \union {None},
           \A v \in Var : o.src = v \/ o.dst = v => Works(t, v) \/ Free(v),
           Phase(t)'
    PROVE  PoolIInv'
<1>1. PoolOK'
  BY PacketTaken DEF PoolIInv, Takes
<1>2. \A r \in Ref \ {t} : /\ ref'[r] = ref[r] /\ ref[r] # h
                           /\ ref[r] # Invalid => pool'[ref[r]] = pool[ref[r]]
  BY TookFacts
<1>3. ref'[t] = h /\ Thread \subseteq Ref /\ Var \subseteq Ref \ {t}
  BY TookFacts, HandleFacts
<1>4. \A u \in Thread \ {t} : ref'[u] = ref[u]
  BY <1>2, <1>3
<1>5. \A u \in Thread \ {t} : \A v \in Var : Works(u, v) => ref'[v] = ref[v]
  BY <1>2, <1>3
<1>6. \A r \in Ref \ {t} : ref[r] # Invalid /\ ref'[r] = ref[r] => pool'[ref[r]].desc = pool[ref[r]].desc
  BY <1>2
<1>7. \A u \in Thread \ {t} : \A v \in Var : Works(u, v) /\ ref[v] # Invalid /\ Alone(v) => Alone(v)'
  BY <1>2, <1>3 DEF Alone
<1>8. OpsOK'
  BY <1>4, <1>5, <1>6, <1>7, OthersKept
<1> QED
  BY <1>1, <1>8 DEF PoolIInv

(* The point a thread is at once it has taken a packet. *)
LEMMA TakenPhase ==
    ASSUME PoolIInv, NEW t \in Thread, NEW h, NEW x, Takes(t, h, x), NEW o \in Op, op'[t] = o,
           op[t].pc \in {"reuse", "factory", "construct", "fallback", "create", "fallback_create"},
           o.op = op[t].op, o.type = op[t].type, o.src = op[t].src, o.dst = op[t].dst,
           \/ o.pc = "init" /\ op[t].pc \in {"construct", "create"}
           \/ o.pc = "fallback_init" /\ op[t].pc \in {"fallback", "fallback_create"}
           \/ /\ x.desc = op[t].type
              /\ o.pc = IF op[t].op \in {"copy_rw", "replace"} THEN "copy" ELSE "return"
    PROVE  Phase(t)'
<1>1. Phase(t) /\ op[t] \in Op /\ ref'[t] = h /\ pool'[h] = x /\ h # Invalid
  BY TookFacts DEF PoolIInv, OpsOK
<1>2. \A v \in Var : ref'[v] = ref[v] /\ (ref[v] # Invalid => pool'[ref[v]] = pool[ref[v]])
  BY TookFacts, HandleFacts
<1>3. op[t].op \in Constructors \union Copiers /\ op[t].type \in Type
      /\ (op[t].op \in Copiers => op[t].src \in Var /\ ref[op[t].src] # Invalid /\ pool[ref[op[t].src]].desc = op[t].type)
  BY <1>1 DEF Phase, HasHandle, HasType, HasSource, HasTarget, Empty, Taken, Named, ByHand, Making, Releasing,
             Constructors, Copiers
<1>4. o.pc \in {"init", "fallback_init", "copy", "return"}
  OBVIOUS
<1>5. HasHandle(t)'
  BY <1>1, <1>3, <1>4 DEF HasHandle, Empty, Taken, Named, Constructors, Copiers
<1>6. HasType(t)'
  BY <1>1, <1>3, <1>4 DEF Phase, HasType, ByHand
<1>7. HasSource(t)'
  BY <1>1, <1>2, <1>3, <1>4 DEF Phase, HasSource, ByHand, Making, Releasing, Constructors, Copiers
<1>8. HasTarget(t)'
  BY <1>1, <1>2, <1>3, <1>4 DEF Phase, HasTarget, Constructors, Copiers
<1> QED
  BY <1>5, <1>6, <1>7, <1>8 DEF Phase

LEMMA ReviveTakes ==
    ASSUME PoolIInv, NEW t \in Thread, ReuseRevive(t)
    PROVE  \E x : /\ Takes(t, Popped(t), x) /\ x.desc = op[t].type /\ x.size = pool[Popped(t)].size
                  /\ pool[Popped(t)] \in Header
<1> SUFFICES ASSUME NEW h, h = Popped(t)
             PROVE  \E x : Takes(t, h, x) /\ x.desc = op[t].type /\ x.size = pool[h].size /\ pool[h] \in Header
  OBVIOUS
<1> DEFINE x == [pool[h] EXCEPT !.users = 1]
<1>1. /\ Popping(t) /\ Valid(h) /\ UNCHANGED pool_size
      /\ pool[h].users = 0 /\ pool[h].desc = op[t].type
      /\ fifo' = Pop(t) /\ pool' = [pool EXCEPT ![h].users = 1] /\ ref' = [ref EXCEPT ![t] = h]
  BY DEF ReuseRevive
<1>2. h \in Handle /\ pool[h] \in Header /\ h < pool_size /\ pool \in [Handle -> Header \union {Null}]
  BY <1>1, PopFacts DEF Valid, PoolIInv, PoolOK, PoolTypes
<1>3. x \in Header /\ x.users = 1 /\ x.desc = op[t].type /\ x.size = pool[h].size
  BY <1>1, <1>2 DEF Header
<1>4. pool' = [pool EXCEPT ![h] = x]
  BY <1>1, <1>2
<1> HIDE DEF x
<1>5. ref[t] = Invalid
  BY <1>1 DEF Popping, Reuse, PoolIInv, OpsOK, Phase, HasHandle, Empty
<1>6. fifo' \in [Type -> Seq(Handle)] /\ FifoOnce'
      /\ \A type \in Type : \A g \in Handle \ {h} : g \in Elems(fifo[type]) => g \in Elems(fifo'[type])
  BY <1>1, PopFacts DEF FifoOnce
<1>7. Takes(t, h, x)
  BY <1>1, <1>2, <1>3, <1>4, <1>5, <1>6, Kept DEF Takes
<1> QED
  BY <1>2, <1>3, <1>7

LEMMA ReviveStep ==
    ASSUME PoolIInv, NEW t \in Thread, ReuseRevive(t)
    PROVE  PoolIInv'
<1> DEFINE h == Popped(t)
           c == IF op[t].op \in {"copy_rw", "replace"} THEN "copy" ELSE "return"
<1>1. op[t].pc \in {"reuse", "factory"} /\ lock' = None /\ Goto(t, c) /\ c \in Pc
  BY DEF ReuseRevive, Obtained, Popping, Reuse, Pc
<1>2. PICK x : Takes(t, h, x) /\ x.desc = op[t].type
  BY ReviveTakes
<1> HIDE DEF h
<1>3. PICK o \in Op : /\ op' = [op EXCEPT ![t] = o] /\ op'[t] = o
                     /\ o.pc = c /\ o.op = op[t].op /\ o.type = op[t].type /\ o.src = op[t].src /\ o.dst = op[t].dst
                     /\ \A v \in Var : o.src = v \/ o.dst = v => Works(t, v) \/ Free(v)
  BY <1>1, GotoFacts
<1>4. Phase(t)'
  BY <1>1, <1>2, <1>3, TakenPhase
<1> QED
  BY <1>1, <1>2, <1>3, <1>4, TookStep

(* The first element of a set of handles is one of them. *)
LEMMA LeastFacts ==
    ASSUME NEW S \in SUBSET Handle, S # {}
    PROVE  Least(S) \in S
<1>1. S \in SUBSET Nat
  BY HandleFacts
<1>2. \E h \in S : \A g \in S : h <= g
  BY <1>1, Smallest
<1> QED
  BY <1>2 DEF Least

(* The size pdp_packet_new is asked for. *)
LEMMA SizeFacts ==
    ASSUME PoolIInv, NEW t \in Thread,
           op[t].pc \in {"construct", "create", "fallback", "fallback_create"}
    PROVE  /\ ref[t] = Invalid /\ op[t].type \in Type
           /\ op[t].pc \in {"construct", "create"} => SizeOf[Canon[op[t].type]] \in Nat
           /\ op[t].pc \in {"fallback", "fallback_create"} => pool[ref[op[t].src]].size \in Nat
<1>1. Phase(t)
  BY DEF PoolIInv, OpsOK
<1>2. ref[t] = Invalid /\ op[t].type \in Type
  BY <1>1 DEF Phase, HasHandle, HasType, Empty
<1>3. SizeOf[Canon[op[t].type]] \in Nat
  BY <1>2, TypeAssumption
<1>4. ASSUME op[t].pc \in {"fallback", "fallback_create"}
      PROVE  pool[ref[op[t].src]].size \in Nat
  <2>1. op[t].src \in Var /\ ref[op[t].src] # Invalid
    BY <1>1, <1>4 DEF Phase, HasHandle, HasType, HasSource, HasTarget, Empty, Taken, Named, ByHand, Making, Releasing,
             Constructors, Copiers
  <2>2. pool[ref[op[t].src]] \in Header
    BY <2>1, VarFacts
  <2> QED
    BY <2>2 DEF Header
<1> QED
  BY <1>2, <1>3, <1>4

LEMMA ReapTakes ==
    ASSUME PoolIInv, NEW t \in Thread, pdp_packet_new(t), Reapable(t) # {}
    PROVE  \E x : \E h \in Reapable(t) : Takes(t, h, x) /\ x.desc = NoDesc /\ x.size = NewSize(t) /\ fifo' = fifo
<1> SUFFICES ASSUME NEW n, n = NewSize(t), NEW h, h = Least(Reapable(t))
             PROVE  \E x : \E g \in Reapable(t) : Takes(t, g, x) /\ x.desc = NoDesc /\ x.size = n /\ fifo' = fifo
  OBVIOUS
<1> DEFINE x == Fresh(n, pool[h].data)
<1>1. /\ op[t].pc \in {"construct", "fallback"} /\ UNCHANGED <<pool_size, fifo, lock>>
      /\ pool' = [pool EXCEPT ![h] = x] /\ ref' = [ref EXCEPT ![t] = h]
  BY DEF pdp_packet_new
<1>2. ref[t] = Invalid /\ n \in Nat
  BY <1>1, SizeFacts DEF NewSize
<1>3. h \in Reapable(t)
  BY LeastFacts DEF Reapable
<1>4. h \in Handle /\ h < pool_size /\ pool[h].users = 0 /\ pool[h] \in Header
  BY <1>3 DEF Reapable, Valid, PoolIInv, PoolOK, PoolTypes
<1>5. x \in Header /\ x.users = 1 /\ x.desc = NoDesc /\ x.size = n
  BY <1>2, <1>4 DEF Header, Fresh
<1> HIDE DEF x
<1>6. Takes(t, h, x)
  BY <1>1, <1>2, <1>4, <1>5, Kept DEF Takes, PoolIInv, PoolOK, PoolTypes, FifoOnce
<1> QED
  BY <1>1, <1>3, <1>5, <1>6

LEMMA ReapStep ==
    ASSUME PoolIInv, NEW t \in Thread, pdp_packet_new(t)
    PROVE  PoolIInv'
<1>1. op[t].pc \in {"construct", "fallback"} /\ UNCHANGED <<pool_size, fifo, lock>>
  BY DEF pdp_packet_new
<1>2. CASE Reapable(t) # {}
  <2> DEFINE c == IF op[t].pc = "construct" THEN "init" ELSE "fallback_init"
  <2>1. Goto(t, c) /\ c \in Pc
    BY <1>2 DEF pdp_packet_new, Pc
  <2>2. PICK h, x : Takes(t, h, x)
    BY <1>2, ReapTakes
  <2>3. PICK o \in Op : /\ op' = [op EXCEPT ![t] = o] /\ op'[t] = o
                     /\ o.pc = c /\ o.op = op[t].op /\ o.type = op[t].type /\ o.src = op[t].src /\ o.dst = op[t].dst
                     /\ \A v \in Var : o.src = v \/ o.dst = v => Works(t, v) \/ Free(v)
    BY <2>1, GotoFacts
  <2>4. Phase(t)'
    BY <1>1, <2>2, <2>3, TakenPhase
  <2> QED
    BY <1>1, <2>2, <2>3, <2>4, Kept, TookStep
<1>3. CASE Reapable(t) = {}
  <2> DEFINE c == IF op[t].pc = "construct" THEN "create" ELSE "fallback_create"
  <2>1. Goto(t, c) /\ UNCHANGED <<pool, ref>> /\ c \in Pc /\ Phase(t)
    BY <1>3 DEF pdp_packet_new, Pc, PoolIInv, OpsOK
  <2>2. ASSUME NEW o \in Op, op'[t] = o, o.pc = c, o.op = op[t].op, o.type = op[t].type,
               o.src = op[t].src, o.dst = op[t].dst
        PROVE  Phase(t)'
    BY <1>1, <2>1, <2>2 DEF Phase, HasHandle, HasType, HasSource, HasTarget, Empty, Taken, Named, ByHand, Making, Releasing,
             Constructors, Copiers
  <2> HIDE DEF c
  <2> QED
    BY <1>1, <2>1, <2>2, Kept, OnStep
<1> QED
  BY <1>2, <1>3

LEMMA CreateTakes ==
    ASSUME PoolIInv, NEW t \in Thread, NEW d \in Data, pdp_packet_create(t, d)
    PROVE  \E x : \E h \in Handle : /\ Takes(t, h, x) /\ x.desc = NoDesc /\ x.size = CreateSize(t) /\ fifo' = fifo
                                    /\ pool[h] = Null
<1> SUFFICES ASSUME NEW n, n = CreateSize(t), NEW h, h = Slot
             PROVE  \E x : \E g \in Handle : Takes(t, g, x) /\ x.desc = NoDesc /\ x.size = n /\ fifo' = fifo /\ pool[g] = Null
  OBVIOUS
<1> DEFINE x == Fresh(n, d)
<1>1. /\ op[t].pc \in {"create", "fallback_create"} /\ UNCHANGED <<fifo, lock>>
      /\ pool' = [pool EXCEPT ![h] = x] /\ ref' = [ref EXCEPT ![t] = h]
  BY DEF pdp_packet_create
<1>2. ref[t] = Invalid /\ n \in Nat
  BY <1>1, SizeFacts DEF CreateSize
<1>3. h \in Handle /\ pool[h] = Null /\ pool_size' \in pool_size .. MaxPool /\ h < pool_size'
  <2>1. pool_size \in 1 .. MaxPool /\ MaxPool \in Nat
    BY SizeAssumption DEF PoolIInv, PoolOK, PoolTypes
  <2>2. CASE FreeSlot # {}
    <3>1. h \in FreeSlot
      BY <2>2, LeastFacts DEF Slot, FreeSlot
    <3>2. pool_size' = pool_size
      BY <2>2 DEF pdp_packet_create
    <3> QED
      BY <2>1, <3>1, <3>2 DEF FreeSlot
  <2>3. CASE FreeSlot = {}
    <3>1. h = pool_size /\ pool_size' = 2 * pool_size /\ 2 * pool_size <= MaxPool
      BY <2>3 DEF Slot, pdp_packet_create
    <3>2. h \in Handle
      BY <2>1, <3>1 DEF Handle
    <3>3. pool[h] = Null
      BY <2>1, <3>1, <3>2 DEF PoolIInv, PoolOK, Placed
    <3> QED
      BY <2>1, <3>1, <3>2, <3>3
  <2> QED
    BY <2>2, <2>3
<1>4. x \in Header /\ x.users = 1 /\ x.desc = NoDesc /\ x.size = n
  BY <1>2 DEF Header, Fresh
<1> HIDE DEF x
<1>5. Takes(t, h, x)
  BY <1>1, <1>2, <1>3, <1>4 DEF Takes, PoolIInv, PoolOK, PoolTypes, FifoOnce
<1> QED
  BY <1>1, <1>3, <1>4, <1>5

LEMMA CreateStep ==
    ASSUME PoolIInv, NEW t \in Thread, NEW d \in Data, pdp_packet_create(t, d)
    PROVE  PoolIInv'
<1> DEFINE c == IF op[t].pc = "create" THEN "init" ELSE "fallback_init"
<1>1. op[t].pc \in {"create", "fallback_create"} /\ UNCHANGED lock /\ Goto(t, c) /\ c \in Pc
  BY DEF pdp_packet_create, Pc
<1>2. PICK h, x : Takes(t, h, x)
  BY CreateTakes
<1>3. PICK o \in Op : /\ op' = [op EXCEPT ![t] = o] /\ op'[t] = o
                     /\ o.pc = c /\ o.op = op[t].op /\ o.type = op[t].type /\ o.src = op[t].src /\ o.dst = op[t].dst
                     /\ \A v \in Var : o.src = v \/ o.dst = v => Works(t, v) \/ Free(v)
  BY <1>1, GotoFacts
<1>4. Phase(t)'
  BY <1>1, <1>2, <1>3, TakenPhase
<1> QED
  BY <1>1, <1>2, <1>3, <1>4, Kept, TookStep

LEMMA FailStep ==
    ASSUME SharedExact, PoolIInv, NEW t \in Thread, CreateFails(t)
    PROVE  PoolIInv'
<1>1. op[t].pc \in {"create", "fallback_create"} /\ UNCHANGED <<pool, fifo, ref, lock>> /\ Phase(t)
  BY DEF CreateFails, PoolIInv, OpsOK
<1>2. pool_size' \in pool_size .. MaxPool
  BY SizeAssumption DEF CreateFails, PoolIInv, PoolOK, PoolTypes
<1>3. ref[t] = Invalid
  BY <1>1, SizeFacts
<1>4. CASE Goto(t, "fallback") /\ op[t].pc = "create" /\ op[t].op \notin Constructors /\ op[t].type \in Scarce
  <2>1. op[t].type \notin Shared
    BY <1>4 DEF SharedExact
  <2>2. ASSUME NEW o \in Op, op'[t] = o, o.pc = "fallback", o.op = op[t].op, o.type = op[t].type,
               o.src = op[t].src, o.dst = op[t].dst
        PROVE  Phase(t)'
    BY <1>1, <1>3, <1>4, <2>1, <2>2 DEF Phase, HasHandle, HasType, HasSource, HasTarget, Empty, Taken, Named, ByHand, Making, Releasing,
             Constructors, Copiers
  <2>3. "fallback" \in Pc
    BY DEF Pc
  <2> QED
    BY <1>1, <1>2, <1>4, <2>2, <2>3, Kept, OnStep
<1>5. CASE Goto(t, "release") /\ op[t].op = "replace"
  <2>1. "release" \in Pc
    BY DEF Pc
  <2>2. ASSUME NEW o \in Op, op'[t] = o, o.pc = "release", o.op = op[t].op, o.type = op[t].type,
               o.src = op[t].src, o.dst = op[t].dst
        PROVE  Phase(t)'
    BY <1>1, <1>3, <1>5, <2>2 DEF Phase, HasHandle, HasType, HasSource, HasTarget, Empty, Taken, Named, ByHand, Making, Releasing,
             Constructors, Copiers
  <2> QED
    BY <1>1, <1>2, <1>5, <2>1, <2>2, Kept, OnStep
<1>6. CASE Return(t)
  BY <1>1, <1>2, <1>3, <1>6, Kept, OverStep
<1> QED
  BY <1>4, <1>5, <1>6 DEF CreateFails, Failed, Constructors

(* A thread that has taken a packet is its only user. *)
LEMMA TakenFacts ==
    ASSUME PoolIInv, NEW t \in Thread, op[t].pc \in {"init", "delete", "fallback_init", "copy"}
    PROVE  /\ t \in Ref /\ ref[t] # Invalid /\ Alone(t) /\ ref[t] \in Handle /\ pool[ref[t]] \in Header
           /\ pool[ref[t]] # Null /\ pool[ref[t]].users = 1 /\ op[t].type \in Type
           /\ op[t].op \in Constructors \union Copiers
           /\ (op[t].op \in Copiers => op[t].src \in Var /\ ref[op[t].src] # Invalid /\ pool[ref[op[t].src]].desc = op[t].type)
           /\ pool \in [Handle -> Header \union {Null}]
<1>1. Phase(t) /\ PoolOK /\ t \in Ref /\ pool \in [Handle -> Header \union {Null}]
  BY HandleFacts DEF PoolIInv, OpsOK, PoolOK, PoolTypes
<1>2. ref[t] # Invalid /\ op[t].type \in Type /\ op[t].op \in Constructors \union Copiers
      /\ (op[t].op \in Copiers => op[t].src \in Var /\ ref[op[t].src] # Invalid /\ pool[ref[op[t].src]].desc = op[t].type)
  BY <1>1 DEF Phase, HasHandle, HasType, HasSource, HasTarget, Empty, Taken, Named, ByHand, Making, Releasing,
             Constructors, Copiers
<1>3. Alone(t)
  BY <1>1, <1>2, ThreadAlone
<1>4. ref[t] \in Handle /\ pool[ref[t]] \in Header /\ pool[ref[t]].users = 1
  BY <1>1, <1>2, <1>3, AloneOne
<1> QED
  BY <1>1, <1>2, <1>3, <1>4, NullAssumption

(* The thread fills in the packet it has taken and goes on. *)
LEMMA FillStep ==
    ASSUME PoolIInv, NEW t \in Thread, op[t].pc \in {"init", "fallback_init", "copy"},
           UNCHANGED <<pool_size, fifo, ref, lock>>,
           NEW x \in Header, x.users = 1, pool' = [pool EXCEPT ![ref[t]] = x], NEW c \in Pc, Goto(t, c),
           \/ c = "delete" /\ op[t].pc = "init" /\ Canon[op[t].type] # op[t].type
           \/ /\ x.desc = op[t].type
              /\ c = IF op[t].op \in {"copy_rw", "replace"} THEN "copy" ELSE "return"
           \/ /\ x.desc = op[t].type /\ op[t].pc = "copy"
              /\ c = IF op[t].op = "replace" THEN "release" ELSE "return"
    PROVE  PoolIInv'
<1> SUFFICES ASSUME NEW h, h = ref[t] PROVE PoolIInv'
  OBVIOUS
<1>1. /\ t \in Ref /\ h # Invalid /\ h \in Handle /\ pool[h] \in Header
      /\ pool[h] # Null /\ pool[h].users = 1 /\ op[t].type \in Type
      /\ op[t].op \in Constructors \union Copiers
      /\ (op[t].op \in Copiers => op[t].src \in Var /\ ref[op[t].src] # Invalid /\ pool[ref[op[t].src]].desc = op[t].type)
      /\ pool \in [Handle -> Header \union {Null}]
  BY TakenFacts
<1>2. \A v \in Var : v \in Ref /\ ref[v] # h
  BY TakenFacts, HandleFacts DEF Alone
<1>3. pool'[h] = x /\ \A v \in Var : ref[v] # Invalid => pool'[ref[v]] = pool[ref[v]]
  BY <1>1, <1>2 DEF PoolIInv, PoolOK, PoolTypes
<1>4. PICK o \in Op : /\ op' = [op EXCEPT ![t] = o] /\ op'[t] = o
                     /\ o.pc = c /\ o.op = op[t].op /\ o.type = op[t].type /\ o.src = op[t].src /\ o.dst = op[t].dst
                     /\ \A v \in Var : o.src = v \/ o.dst = v => Works(t, v) \/ Free(v)
  BY GotoFacts
<1>5. Phase(t) /\ op[t] \in Op /\ ref' = ref
  BY DEF PoolIInv, OpsOK
<1>6. o.pc \in {"delete", "copy", "return", "release"}
  BY <1>4
<1>7. HasHandle(t)'
  BY <1>1, <1>3, <1>4, <1>5, <1>6 DEF HasHandle, Empty, Taken, Named, Constructors, Copiers
<1>8. HasType(t)'
  BY <1>1, <1>4, <1>5, <1>6 DEF Phase, HasType, ByHand
<1>9. HasSource(t)'
  BY <1>1, <1>3, <1>4, <1>5, <1>6 DEF Phase, HasSource, ByHand, Making, Releasing, Constructors, Copiers
<1>10. HasTarget(t)'
  BY <1>1, <1>4, <1>5, <1>6 DEF Phase, HasTarget, HasSource, Constructors, Copiers
<1>11. Phase(t)'
  BY <1>7, <1>8, <1>9, <1>10 DEF Phase
<1>12. pool' = [pool EXCEPT ![h] = x] /\ x.users = pool[h].users /\ x.users # 0 /\ ref[t] = h
  BY <1>1
<1>13. op' = [op EXCEPT ![t] = o] /\ \A v \in Var : o.src = v \/ o.dst = v => Works(t, v) \/ Free(v)
  BY <1>4
<1>14. UNCHANGED <<pool_size, fifo, ref, lock>>
  OBVIOUS
<1> QED
  BY ONLY PoolIInv, t \in Thread, o \in Op, x \in Header, <1>1, <1>11, <1>12, <1>13, <1>14, ContentsStep

LEMMA InitStep ==
    ASSUME PoolIInv, NEW t \in Thread, InitHeader(t)
    PROVE  PoolIInv'
<1> DEFINE type == op[t].type
           x == [pool[ref[t]] EXCEPT !.desc = Canon[type]]
           c == IF Canon[type] # type THEN "delete"
                ELSE IF op[t].op \in {"copy_rw", "replace"} THEN "copy" ELSE "return"
<1>1. op[t].pc = "init" /\ UNCHANGED <<pool_size, fifo, ref, lock>> /\ Goto(t, c)
  BY DEF InitHeader, Obtained
<1>2. ref[t] \in Handle /\ pool[ref[t]] \in Header /\ pool[ref[t]].users = 1 /\ type \in Type
      /\ pool \in [Handle -> Header \union {Null}]
  BY <1>1, TakenFacts
<1>3. Canon[type] \in Type
  BY <1>2, TypeAssumption
<1>4. x \in Header /\ x.users = 1 /\ x.desc = Canon[type]
  BY <1>2, <1>3 DEF Header
<1>5. pool' = [pool EXCEPT ![ref[t]] = x]
  BY <1>2 DEF InitHeader
<1>6. c \in Pc
  BY DEF Pc
<1> HIDE DEF x
<1> QED
  BY <1>1, <1>4, <1>5, <1>6, FillStep

LEMMA CloneHeaderStep ==
    ASSUME PoolIInv, NEW t \in Thread, CloneHeader(t)
    PROVE  PoolIInv'
<1> DEFINE v == op[t].src
           x == [pool[ref[v]] EXCEPT !.data = pool[ref[t]].data]
           c == IF op[t].op \in {"copy_rw", "replace"} THEN "copy" ELSE "return"
<1>1. op[t].pc = "fallback_init" /\ UNCHANGED <<pool_size, fifo, ref, lock>> /\ Goto(t, c)
      /\ pool' = [pool EXCEPT ![ref[t]] = x]
  BY DEF CloneHeader, Obtained
<1>2. pool[ref[t]] \in Header
  BY <1>1, TakenFacts
<1>3. v \in Var /\ ref[v] # Invalid /\ pool[ref[v]].desc = op[t].type /\ op[t].type \notin Shared
  BY <1>1 DEF PoolIInv, OpsOK, Phase, HasHandle, HasType, HasSource, HasTarget, Empty, Taken, Named, ByHand, Making, Releasing,
             Constructors, Copiers
<1>4. Alone(v) /\ v \in Ref
  BY <1>3, HandleFacts DEF Alone, PoolIInv, PoolOK, Sharing
<1>5. pool[ref[v]] \in Header /\ pool[ref[v]].users = 1
  BY <1>3, <1>4, AloneOne DEF PoolIInv
<1>6. x \in Header /\ x.users = 1 /\ x.desc = op[t].type
  BY <1>2, <1>3, <1>5 DEF Header
<1>7. c \in Pc
  BY DEF Pc
<1> HIDE DEF x
<1> QED
  BY <1>1, <1>6, <1>7, FillStep

LEMMA CopyDataStep ==
    ASSUME PoolIInv, NEW t \in Thread, CopyData(t)
    PROVE  PoolIInv'
<1> DEFINE h == ref[t]
           v == op[t].src
           x == IF op[t].type \in SwappedCopy THEN pool[h] ELSE [pool[h] EXCEPT !.data = pool[ref[v]].data]
           c == IF op[t].op = "replace" THEN "release" ELSE "return"
<1>1. op[t].pc = "copy" /\ UNCHANGED <<pool_size, fifo, ref, lock>> /\ Goto(t, c)
  BY DEF CopyData
<1>2. h \in Handle /\ pool[h] \in Header /\ pool[h].users = 1 /\ h # Invalid /\ pool \in [Handle -> Header \union {Null}]
  BY <1>1, TakenFacts
<1>3. v \in Var /\ ref[v] # Invalid /\ pool[h].desc = op[t].type
  BY <1>1, <1>2 DEF PoolIInv, OpsOK, Phase, HasHandle, HasType, HasSource, HasTarget, Empty, Taken, Named, ByHand, Making, Releasing,
             Constructors, Copiers
<1>4. pool[ref[v]] \in Header
  BY <1>3, VarFacts
<1>5. x \in Header /\ x.users = 1 /\ x.desc = op[t].type
  BY <1>2, <1>3, <1>4 DEF Header
<1>6. pool' = [pool EXCEPT ![h] = x]
  BY <1>2 DEF CopyData
<1>7. c \in Pc
  BY DEF Pc
<1> HIDE DEF x
<1> QED
  BY <1>1, <1>5, <1>6, <1>7, FillStep

LEMMA InexactStep ==
    ASSUME SharedExact, PoolIInv, NEW t \in Thread, DeleteInexact(t)
    PROVE  PoolIInv'
<1> SUFFICES ASSUME NEW h, h = ref[t] PROVE PoolIInv'
  OBVIOUS
<1>1. /\ op[t].pc = "delete" /\ UNCHANGED <<pool_size, fifo, lock>>
      /\ pool' = [pool EXCEPT ![ref[t]] = Null] /\ ref' = [ref EXCEPT ![t] = Invalid]
  BY DEF DeleteInexact
<1>2. /\ t \in Ref /\ h # Invalid /\ Alone(t) /\ h \in Handle /\ op[t].type \in Type
      /\ op[t].op \in Constructors \union Copiers
      /\ (op[t].op \in Copiers => op[t].src \in Var /\ ref[op[t].src] # Invalid /\ pool[ref[op[t].src]].desc = op[t].type)
      /\ pool \in [Handle -> Header \union {Null}] /\ ref \in [Ref -> Handle \union {Invalid}]
  BY <1>1, TakenFacts DEF PoolIInv, PoolOK, PoolTypes
<1>3. PoolOK'
  BY <1>1, <1>2, PacketDeleted DEF PoolIInv
<1>4. ref'[t] = Invalid /\ \A r \in Ref \ {t} : ref'[r] = ref[r] /\ ref[r] # h
  BY <1>1, <1>2 DEF Alone
<1>5. \A r \in Ref \ {t} : ref[r] # Invalid => pool'[ref[r]] = pool[ref[r]]
  BY <1>1, <1>2, <1>4
<1>6. \A v \in Var : v \in Ref \ {t}
  BY HandleFacts
<1>7. \A u \in Thread \ {t} : ref'[u] = ref[u]
  BY <1>4, HandleFacts
<1>8. \A u \in Thread \ {t} : \A v \in Var : Works(u, v) => ref'[v] = ref[v]
  BY <1>4, <1>6
<1>9. \A r \in Ref \ {t} : ref[r] # Invalid /\ ref'[r] = ref[r] => pool'[ref[r]].desc = pool[ref[r]].desc
  BY <1>5
<1>10. \A u \in Thread \ {t} : \A v \in Var : Works(u, v) /\ ref[v] # Invalid /\ Alone(v) => Alone(v)'
  BY <1>4, <1>6 DEF Alone
<1>11. CASE op[t].op = "factory"
  <2>1. Return(t)
    BY <1>11 DEF DeleteInexact
  <2>2. Phase(t)'
    BY <1>4, <2>1, IdlePhase DEF Return
  <2>3. OpsOK'
    BY <1>1, <1>7, <1>8, <1>9, <1>10, <2>1, <2>2, Kept, ReturnFacts, OthersKept
  <2> QED
    BY <1>3, <2>3 DEF PoolIInv
<1>12. CASE op[t].op # "factory"
  <2> DEFINE c == "fallback"
  <2>1. Goto(t, c) /\ c \in Pc /\ Phase(t)
    BY <1>12 DEF DeleteInexact, Pc, PoolIInv, OpsOK
  <2>2. PICK o \in Op : /\ op' = [op EXCEPT ![t] = o] /\ op'[t] = o
                     /\ o.pc = c /\ o.op = op[t].op /\ o.type = op[t].type /\ o.src = op[t].src /\ o.dst = op[t].dst
                     /\ \A v \in Var : o.src = v \/ o.dst = v => Works(t, v) \/ Free(v)
    BY <2>1, GotoFacts
  <2>3. op[t].op \in Copiers /\ op[t].type \notin Shared
    BY <1>1, <1>2, <1>12, <2>1 DEF SharedExact, Phase, HasType, Constructors, Copiers
  <2>4. HasHandle(t)'
    BY <1>4, <2>2 DEF HasHandle, Empty, Taken, Named
  <2>5. HasType(t)'
    BY <1>1, <1>2, <2>1, <2>2, <2>3 DEF Phase, HasType, Copiers
  <2>6. HasSource(t)'
    BY <1>2, <1>4, <1>5, <1>6, <2>2, <2>3 DEF HasSource, ByHand, Making, Releasing
  <2>7. HasTarget(t)'
    BY <1>4, <1>6, <2>1, <2>2, <2>3 DEF Phase, HasTarget, Constructors, Copiers
  <2>8. Phase(t)'
    BY <2>4, <2>5, <2>6, <2>7 DEF Phase
  <2>9. OpsOK'
    BY <1>1, <1>7, <1>8, <1>9, <1>10, <2>2, <2>8, Kept, OthersKept
  <2> QED
    BY <1>3, <2>9 DEF PoolIInv
<1> QED
  BY <1>11, <1>12

LEMMA StoreStep ==
    ASSUME PoolIInv, NEW t \in Thread, StoreHandle(t)
    PROVE  PoolIInv'
<1> SUFFICES ASSUME NEW w, w = op[t].dst PROVE PoolIInv'
  OBVIOUS
<1>1. /\ op[t].pc = "return" /\ UNCHANGED <<pool, pool_size, fifo, lock>> /\ Return(t)
      /\ ref' = [ref EXCEPT ![w] = ref[t], ![t] = Invalid]
  BY DEF StoreHandle
<1>2. w \in Var /\ ref[w] = Invalid /\ Works(t, w) /\ op[t].type \in Type
      /\ (ref[t] # Invalid => pool[ref[t]].desc = op[t].type)
  BY <1>1 DEF Works, PoolIInv, OpsOK, Phase, HasHandle, HasType, HasSource, HasTarget, Empty, Taken, Named, ByHand, Making, Releasing,
             Constructors, Copiers
<1>3. t \in Ref /\ w \in Ref /\ t # w /\ ref \in [Ref -> Handle \union {Invalid}]
      /\ Thread \subseteq Ref \ {w} /\ Var \subseteq Ref \ {t}
  BY <1>2, HandleFacts DEF PoolIInv, PoolOK, PoolTypes
<1>4. PoolOK'
  BY <1>1, <1>2, NoneAssumption, HandleStored DEF PoolIInv
<1>5. ref'[t] = Invalid /\ ref'[w] = ref[t] /\ \A r \in Ref \ {t, w} : ref'[r] = ref[r]
  BY <1>1, <1>3
<1>6. \A u \in Thread \ {t} : ref'[u] = ref[u]
  BY <1>3, <1>5
<1>7. \A u \in Thread \ {t} : \A v \in Var : Works(u, v) => v # w /\ ref'[v] = ref[v]
  BY <1>2, <1>3, <1>5 DEF PoolIInv, OpsOK, Separate
<1>8. \A r \in Ref \ {t} : ref[r] # Invalid /\ ref'[r] = ref[r] => pool'[ref[r]].desc = pool[ref[r]].desc
  BY <1>1
<1>9. \A u \in Thread \ {t} : \A v \in Var : Works(u, v) /\ ref[v] # Invalid /\ Alone(v) => Alone(v)'
  <2> SUFFICES ASSUME NEW u \in Thread \ {t}, NEW v \in Var, Works(u, v), ref[v] # Invalid, Alone(v)
               PROVE  Alone(v)'
    OBVIOUS
  <2>1. v # w /\ v # t /\ ref'[v] = ref[v] /\ ref[t] # ref[v]
    BY <1>3, <1>7 DEF Alone
  <2> QED
    BY <1>3, <1>5, <2>1 DEF Alone
<1>10. \A u \in Thread \ {t} : \A v \in Var : Works(u, v) => ref'[v] = ref[v]
  BY <1>7
<1>11. Phase(t)'
  BY <1>1, <1>5, IdlePhase DEF Return
<1>12. OpsOK'
  BY <1>1, <1>6, <1>8, <1>9, <1>10, <1>11, Kept, ReturnFacts, OthersKept
<1> QED
  BY <1>4, <1>12 DEF PoolIInv

-----------------------------------------------------------------------------
LEMMA PoolInit == Init => PoolIInv
<1> SUFFICES ASSUME Init PROVE PoolIInv
  OBVIOUS
<1>1. \A r \in Ref : ref[r] = Invalid
  BY DEF Init
<1>2. \A h \in Handle : pool[h] = Null
  BY DEF Init
<1>3. PoolTypes
  BY SizeAssumption DEF Init, PoolTypes
<1>4. Placed /\ RefsValid /\ Counted /\ Sharing /\ Described /\ UnusedFindable
  BY <1>1, <1>2, HandleFacts DEF Placed, RefsValid, Counted, Sharing, Described, UnusedFindable
<1>5. FifoOnce
  BY DEF Init, FifoOnce, NoRepeat
<1>6. \A t \in Thread : op[t] = Idle
  BY DEF Init
<1>7. op \in [Thread -> Op] /\ lock \in Thread \union {None}
  BY IdleOp DEF Init
<1>8. Separate
  BY <1>6, IdleOp, HandleFacts DEF Separate, Works
<1>9. \A t \in Thread : Phase(t)
  BY <1>1, <1>6, IdleOp, HandleFacts DEF Phase, HasHandle, HasType, HasSource, HasTarget, Empty, Taken, Named, ByHand, Making, Releasing,
             Constructors, Copiers
<1> QED
  BY <1>3, <1>4, <1>5, <1>7, <1>8, <1>9 DEF PoolIInv, PoolOK, OpsOK

LEMMA PoolNext ==
    ASSUME SharedExact, PoolIInv, [Next]_vars
    PROVE  PoolIInv'
<1>1. CASE UNCHANGED vars
  BY <1>1 DEF vars, PoolIInv, PoolOK, PoolTypes, Placed, RefsValid, Counted, References, Sharing, Described, FifoOnce,
              UnusedFindable, OpsOK, Separate, Works, Phase, HasHandle, HasType, HasSource, HasTarget, Alone
<1>2. ASSUME NEW t \in Thread, UserStep(t)
      PROVE  PoolIInv'
  BY <1>2, ReplaceStep, UnusedStep, DeleteStep, WriteStep, NewStep, FactoryStep, ShareStep, CloneStep, CopyStep DEF UserStep
<1>3. ASSUME NEW t \in Thread, PoolStep(t)
      PROVE  PoolIInv'
  BY <1>3, EmptyStep, DanglingStep, ReviveStep, SkipStep, ReapStep, FailStep, InitStep, InexactStep, CreateStep,
     CloneHeaderStep, CopyDataStep, StoreStep, ReleaseStep, SleepStep, CleanupStep DEF PoolStep
<1> QED
  BY <1>1, <1>2, <1>3 DEF Next

(* The invariant holds in every reachable state of every pool. *)
THEOREM PoolInvariant == SharedExact => (Spec => []PoolIInv)
<1> SUFFICES ASSUME SharedExact PROVE Spec => []PoolIInv
  OBVIOUS
<1> QED
  BY PoolInit, PoolNext, PTL DEF Spec

(* Every packet has as many users as there are references to it, and no    *)
(* reference is to a packet that is gone, whatever threads, variables and  *)
(* types there are: what mark_unused, copy_ro and reuse count is exact.    *)
THEOREM RefCountExact == SharedExact => (Spec => []RefCount)
<1>1. PoolIInv => RefCount
  BY DEF PoolIInv, PoolOK, PoolTypes, Placed, RefsValid, Counted, RefCount, Valid
<1> SUFFICES ASSUME SharedExact PROVE Spec => []RefCount
  OBVIOUS
<1> QED
  BY <1>1, PoolInvariant, PTL

-----------------------------------------------------------------------------
(***************************************************************************)
(* What a step of thread t may do to the packets and variables of others:  *)
(* nothing, but for the one variable v that it stores to, releases, writes *)
(* or shares with.                                                         *)
(***************************************************************************)
Same(h) == pool'[h].desc = pool[h].desc /\ pool'[h].size = pool[h].size /\ pool'[h].data = pool[h].data
Others(t) == \A u \in Thread \ {t} : op'[u] = op[u]
RefsKept(t, v) == \A r \in Ref \ {t, v} : ref'[r] = ref[r] /\ (ref[r] # Invalid => Same(ref[r]))

Calm(t) == RefsKept(t, None) /\ op[t].pc # "return" /\ op'[t].pc # "return"
Arrives(t) ==
    /\ RefsKept(t, None) /\ op[t].pc # "return" /\ op'[t].pc = "return" /\ ref'[t] # Invalid
    /\ op'[t].dst \in Var /\ ref[op'[t].dst] = Invalid /\ Works(t, op'[t].dst)
Stores(t) ==
    /\ RefsKept(t, op[t].dst) /\ op[t].pc = "return" /\ op'[t].pc # "return"
    /\ op[t].dst \in Var /\ ref'[op[t].dst] = ref[t] /\ (ref[t] # Invalid => Same(ref[t]))
LeavesVar(t, v) ==
    /\ RefsKept(t, v) /\ op[t].pc # "return" /\ (op'[t].pc = "return" => op'[t].dst = v)
    /\ ref[v] # Invalid /\ ref'[v] = Invalid /\ (Works(t, v) \/ Free(v))
WritesVar(t, v) == RefsKept(t, v) /\ UNCHANGED <<op, ref>> /\ op[t].pc = "idle" /\ ref[v] # Invalid /\ Free(v)
SharesVar(t, v, w) ==
    /\ RefsKept(t, w) /\ UNCHANGED op /\ op[t].pc = "idle" /\ Free(w) /\ Free(v)
    /\ v # w /\ ref[v] # Invalid /\ ref[w] = Invalid /\ ref'[w] = ref[v]

StepKind(t) ==
    /\ Others(t)
    /\ \/ Calm(t) \/ Arrives(t) \/ Stores(t)
       \/ \E v \in Var : LeavesVar(t, v) \/ WritesVar(t, v)
       \/ \E v, w \in Var : SharesVar(t, v, w)

(* CopyFaithful for a thread, whose type has a copy method (src, dst). *)
Faithful(t) ==
    /\ op[t].op \in {"copy_rw", "replace"} /\ op[t].pc \in {"release", "return"} /\ op[t].type \notin SwappedCopy
    /\ ref[t] # Invalid /\ ref[op[t].src] # Invalid
    => pool[ref[t]].data = pool[ref[op[t].src]].data

LEMMA OthersFacts ==
    ASSUME PoolIInv, NEW t \in Thread, NEW o, op' = [op EXCEPT ![t] = o]
    PROVE  Others(t) /\ op'[t] = o
BY DEF Others, PoolIInv, OpsOK

(* Three kinds of steps: those that leave packets and references alone, ... *)
LEMMA QuietKind ==
    ASSUME PoolIInv, NEW t \in Thread, NEW o, op' = [op EXCEPT ![t] = o], UNCHANGED <<pool, ref>>,
           op[t].pc # "return", o.pc # "return", o.pc = "release" => ref[t] = Invalid
    PROVE  StepKind(t) /\ Faithful(t)'
<1>1. Others(t) /\ op'[t] = o
  BY OthersFacts
<1>2. Calm(t)
  BY <1>1 DEF Calm, RefsKept, Same
<1>3. Faithful(t)'
  BY <1>1 DEF Faithful
<1> QED
  BY <1>1, <1>2, <1>3 DEF StepKind

(* ... those that take a packet, ... *)
LEMMA TookKind ==
    ASSUME PoolIInv, NEW t \in Thread, NEW h, NEW x, Takes(t, h, x), NEW o, op' = [op EXCEPT ![t] = o],
           op[t].pc # "return", o.pc # "release", o.dst = op[t].dst,
           o.pc = "return" => /\ o.op \notin {"copy_rw", "replace"}
                              /\ o.dst \in Var /\ ref[o.dst] = Invalid
    PROVE  StepKind(t) /\ Faithful(t)'
<1>1. Others(t) /\ op'[t] = o
  BY OthersFacts
<1>2. RefsKept(t, None) /\ ref'[t] # Invalid
  BY TookFacts DEF RefsKept, Same
<1>3. Calm(t) \/ Arrives(t)
  BY <1>1, <1>2 DEF Calm, Arrives, Works
<1>4. Faithful(t)'
  BY <1>1 DEF Faithful
<1> QED
  BY <1>1, <1>3, <1>4 DEF StepKind

(* ... and those that fill in the packet the thread has. *)
LEMMA FillKind ==
    ASSUME PoolIInv, NEW t \in Thread, op[t].pc \in {"init", "fallback_init", "copy"}, NEW o, op' = [op EXCEPT ![t] = o],
           UNCHANGED ref, NEW x, pool' = [pool EXCEPT ![ref[t]] = x],
           o.dst = op[t].dst, o.src = op[t].src, o.op = op[t].op, o.type = op[t].type,
           o.pc = "return" => o.dst \in Var /\ ref[o.dst] = Invalid,
           /\ o.op \in {"copy_rw", "replace"} /\ o.pc \in {"release", "return"} /\ o.type \notin SwappedCopy
           => x.data = pool[ref[op[t].src]].data
    PROVE  StepKind(t) /\ Faithful(t)'
<1>1. Others(t) /\ op'[t] = o
  BY OthersFacts
<1>2. /\ t \in Ref /\ ref[t] # Invalid /\ ref[t] \in Handle /\ Alone(t)
      /\ (op[t].op \in Copiers => op[t].src \in Var /\ ref[op[t].src] # Invalid)
      /\ pool \in [Handle -> Header \union {Null}] /\ ref \in [Ref -> Handle \union {Invalid}]
  BY TakenFacts DEF PoolIInv, PoolOK, PoolTypes
<1>3. RefsKept(t, None) /\ pool'[ref[t]] = x
  BY <1>2 DEF RefsKept, Same, Alone
<1>4. Calm(t) \/ Arrives(t)
  BY <1>1, <1>2, <1>3 DEF Calm, Arrives, Works
<1>5. Faithful(t)'
  <2> SUFFICES ASSUME o.op \in {"copy_rw", "replace"}, o.pc \in {"release", "return"}, o.type \notin SwappedCopy
               PROVE  pool'[ref[t]].data = pool'[ref[op[t].src]].data
    BY <1>1 DEF Faithful
  <2>1. op[t].src \in Var /\ op[t].src \in Ref \ {t} /\ ref[op[t].src] # Invalid
    BY <1>2, HandleFacts DEF Copiers
  <2>2. op[t].src # None
    BY <2>1, HandleFacts
  <2>3. pool'[ref[op[t].src]].data = pool[ref[op[t].src]].data
    BY <1>3, <2>1, <2>2 DEF RefsKept, Same
  <2> QED
    BY <1>3, <2>3
<1> QED
  BY <1>1, <1>4, <1>5 DEF StepKind

(* A variable gives up its packet. *)
LEMMA LeaveKind ==
    ASSUME PoolIInv, NEW t \in Thread, op[t].pc # "return", NEW v \in Var, ref[v] # Invalid, Works(t, v) \/ Free(v),
           \/ pool[ref[v]].users > 1 /\ Decrement(t, v)
           \/ pool[ref[v]].users <= 1 /\ Retire(t, v),
           NEW o, op' = [op EXCEPT ![t] = o],
           o.pc = "idle" \/ (o.pc = "return" /\ o.dst = v /\ o.src = v)
    PROVE  StepKind(t) /\ Faithful(t)'
<1> SUFFICES ASSUME NEW h, h = ref[v] PROVE StepKind(t) /\ Faithful(t)'
  OBVIOUS
<1>1. Others(t) /\ op'[t] = o
  BY OthersFacts
<1>2. v \in Ref /\ h \in Handle /\ pool[h] \in Header /\ pool \in [Handle -> Header \union {Null}]
      /\ ref \in [Ref -> Handle \union {Invalid}] /\ \A r \in Ref : ref[r] # Invalid => ref[r] \in Handle /\ pool[ref[r]] \in Header
  BY HandleFacts, VarFacts DEF PoolIInv, PoolOK, PoolTypes, RefsValid
<1>3. ref' = [ref EXCEPT ![v] = Invalid]
  BY DEF Decrement, Retire
<1>4. \A g \in Handle : pool[g] \in Header => Same(g)
  <2>1. CASE Decrement(t, v)
    BY <1>2, <2>1 DEF Decrement, Same, Header
  <2>2. CASE Retire(t, v)
    BY <1>2, <2>2 DEF Retire, Same, Header
  <2> QED
    BY <2>1, <2>2
<1>5. RefsKept(t, v) /\ ref'[v] = Invalid
  BY <1>2, <1>3, <1>4 DEF RefsKept
<1>6. LeavesVar(t, v)
  BY <1>1, <1>5 DEF LeavesVar
<1>7. Faithful(t)'
  BY <1>1, <1>5 DEF Faithful
<1> QED
  BY <1>1, <1>6, <1>7 DEF StepKind

LEMMA UserKind ==
    ASSUME PoolIInv, NEW t \in Thread, UserStep(t)
    PROVE  StepKind(t) /\ Faithful(t)'
<1>1. PICK v \in Var :
        \/ pdp_packet_replace_with_writable(t, v) \/ pdp_packet_mark_unused(t, v) \/ pdp_packet_delete(t, v)
        \/ \E d \in Data : Write(t, v, d)
        \/ \E type \in Type : pdp_packet_new_type(t, type, v) \/ pdp_factory_newpacket(t, type, v)
        \/ \E w \in Var \ {v} : \/ pdp_packet_copy_ro(t, v, w) \/ pdp_packet_clone_rw(t, v, w)
                                \/ pdp_packet_copy_rw(t, v, w)
  BY DEF UserStep
<1>2. op[t].pc = "idle"
  BY <1>1 DEF pdp_packet_replace_with_writable, pdp_packet_mark_unused, pdp_packet_delete, Write, pdp_packet_new_type,
     pdp_factory_newpacket, pdp_packet_copy_ro, pdp_packet_clone_rw, pdp_packet_copy_rw, Holds, Vacant
<1>3. ref[t] = Invalid /\ op[t] \in Op /\ op \in [Thread -> Op] /\ op[t].src = None /\ op[t].dst = None
  BY <1>2, IdleFacts
<1>4. ASSUME NEW name, NEW pc, NEW type, NEW src, NEW dst, Start(t, name, pc, type, src, dst), pc # "return",
             UNCHANGED <<pool, ref>>
      PROVE  StepKind(t) /\ Faithful(t)'
  <2> DEFINE o == [pc |-> pc, op |-> name, type |-> type, src |-> src, dst |-> dst]
  <2>1. op' = [op EXCEPT ![t] = o] /\ o.pc = pc
    BY <1>4 DEF Start
  <2> HIDE DEF o
  <2> QED
    BY <1>2, <1>3, <1>4, <2>1, QuietKind
<1>5. CASE pdp_packet_replace_with_writable(t, v)
  <2>1. UNCHANGED <<pool, ref>>
        /\ \/ Start(t, "replace", "release", pool[ref[v]].desc, v, v)
           \/ Start(t, "replace", "reuse", pool[ref[v]].desc, v, v)
    BY <1>5 DEF pdp_packet_replace_with_writable
  <2> QED
    BY <1>4, <2>1
<1>6. CASE pdp_packet_mark_unused(t, v)
  <2>1. ref[v] # Invalid /\ Free(v)
    BY <1>6, HandleFacts DEF pdp_packet_mark_unused, Holds, Valid
  <2>2. CASE (\/ pool[ref[v]].users > 1 /\ Decrement(t, v)
              \/ pool[ref[v]].users <= 1 /\ Retire(t, v)) /\ UNCHANGED op
    <3>1. op' = [op EXCEPT ![t] = op[t]]
      BY <1>3, <2>2
    <3> QED
      BY <1>2, <2>1, <2>2, <3>1, LeaveKind
  <2>3. CASE Start(t, "mark_unused", "sleep", pool[ref[v]].desc, v, None) /\ UNCHANGED <<pool, pool_size, fifo, ref, lock>>
    BY <1>4, <2>3
  <2> QED
    BY <1>6, <2>2, <2>3 DEF pdp_packet_mark_unused
<1>7. CASE pdp_packet_delete(t, v)
  <2>1. UNCHANGED <<pool, ref>> /\ Start(t, "delete", "cleanup", pool[ref[v]].desc, v, None)
    BY <1>7 DEF pdp_packet_delete
  <2> QED
    BY <1>4, <2>1
<1>8. CASE \E type \in Type : pdp_packet_new_type(t, type, v) \/ pdp_factory_newpacket(t, type, v)
  <2>1. PICK type \in Type : UNCHANGED <<pool, ref>>
            /\ \/ Start(t, "new", "construct", type, None, v)
               \/ Start(t, "factory", "factory", type, None, v)
    BY <1>8 DEF pdp_packet_new_type, pdp_factory_newpacket
  <2> QED
    BY <1>4, <2>1
<1>9. CASE \E w \in Var \ {v} : pdp_packet_clone_rw(t, v, w) \/ pdp_packet_copy_rw(t, v, w)
  <2>1. PICK w \in Var \ {v} : UNCHANGED <<pool, ref>>
            /\ \/ Start(t, "clone", "reuse", pool[ref[v]].desc, v, w)
               \/ Start(t, "copy_rw", "reuse", pool[ref[v]].desc, v, w)
    BY <1>9 DEF pdp_packet_clone_rw, pdp_packet_copy_rw
  <2> QED
    BY <1>4, <2>1
<1>10. CASE \E d \in Data : Write(t, v, d)
  <2>1. PICK d \in Data : Write(t, v, d)
    BY <1>10
  <2>2. UNCHANGED <<op, ref>> /\ Free(v) /\ ref[v] # Invalid /\ pool[ref[v]].users = 1
        /\ pool' = [pool EXCEPT ![ref[v]].data = d]
    BY <2>1, HandleFacts DEF Write, Holds, Valid, pdp_packet_writable
  <2>3. Alone(v) /\ v \in Ref
    BY <2>2, OneAlone, HandleFacts DEF PoolIInv
  <2>4. RefsKept(t, v)
    BY <2>2, <2>3 DEF RefsKept, Same, Alone, PoolIInv, PoolOK, PoolTypes
  <2>5. WritesVar(t, v) /\ Others(t)
    BY <1>2, <2>2, <2>4 DEF WritesVar, Others
  <2>6. Faithful(t)'
    BY <1>2, <2>2 DEF Faithful
  <2> QED
    BY <2>5, <2>6 DEF StepKind
<1>11. CASE \E w \in Var \ {v} : pdp_packet_copy_ro(t, v, w)
  <2>1. PICK w \in Var \ {v} : pdp_packet_copy_ro(t, v, w)
    BY <1>11
  <2>2. UNCHANGED op /\ Free(v) /\ Free(w) /\ ref[v] # Invalid /\ ref[w] = Invalid
        /\ pool' = [pool EXCEPT ![ref[v]].users = @ + 1] /\ ref' = [ref EXCEPT ![w] = ref[v]]
    BY <2>1, HandleFacts DEF pdp_packet_copy_ro, Holds, Vacant, Valid
  <2>3. v \in Ref /\ w \in Ref /\ ref \in [Ref -> Handle \union {Invalid}] /\ pool \in [Handle -> Header \union {Null}]
        /\ \A r \in Ref : ref[r] # Invalid => ref[r] \in Handle /\ pool[ref[r]] \in Header
    BY HandleFacts DEF PoolIInv, PoolOK, PoolTypes, RefsValid
  <2>4. \A g \in Handle : pool[g] \in Header => Same(g)
    BY <2>2, <2>3 DEF Same, Header
  <2>5. RefsKept(t, w) /\ ref'[w] = ref[v]
    BY <2>2, <2>3, <2>4 DEF RefsKept
  <2>6. SharesVar(t, v, w) /\ Others(t)
    BY <1>2, <2>2, <2>5 DEF SharesVar, Others
  <2>7. Faithful(t)'
    BY <1>2, <2>2 DEF Faithful
  <2> QED
    BY <2>6, <2>7 DEF StepKind
<1> QED
  BY <1>1, <1>5, <1>6, <1>7, <1>8, <1>9, <1>10, <1>11

(* The variable that waits for the packet is empty until it is stored. *)
LEMMA TargetEmpty ==
    ASSUME PoolIInv, NEW t \in Thread, op[t].pc \in Making, op[t].op # "replace"
    PROVE  op[t].dst \in Var /\ ref[op[t].dst] = Invalid
BY DEF PoolIInv, OpsOK, Phase, HasHandle, HasType, HasSource, HasTarget, Empty, Taken, Named, ByHand, Making, Releasing,
             Constructors, Copiers

LEMMA TakeKind ==
    ASSUME PoolIInv, NEW t \in Thread,
           ReuseRevive(t) \/ pdp_packet_new(t) \/ \E d \in Data : pdp_packet_create(t, d)
    PROVE  StepKind(t) /\ Faithful(t)'
<1>1. op[t].pc \in {"reuse", "factory", "construct", "create", "fallback", "fallback_create"} /\ op[t].pc \in Making
  BY DEF ReuseRevive, Popping, Reuse, pdp_packet_new, pdp_packet_create, Making, ByHand
<1>2. ASSUME NEW h, NEW x, Takes(t, h, x), NEW c \in Pc, Goto(t, c), c # "release",
             c = "return" => op[t].op \notin {"copy_rw", "replace"}
      PROVE  StepKind(t) /\ Faithful(t)'
  <2>1. PICK o \in Op : /\ op' = [op EXCEPT ![t] = o] /\ op'[t] = o
                     /\ o.pc = c /\ o.op = op[t].op /\ o.type = op[t].type /\ o.src = op[t].src /\ o.dst = op[t].dst
                     /\ \A v \in Var : o.src = v \/ o.dst = v => Works(t, v) \/ Free(v)
    BY <1>2, GotoFacts
  <2>2. o.pc = "return" => o.dst \in Var /\ ref[o.dst] = Invalid /\ o.op \notin {"copy_rw", "replace"}
    BY <1>1, <1>2, <2>1, TargetEmpty
  <2>3. op[t].pc # "return" /\ o.pc # "release" /\ o.dst = op[t].dst
    BY <1>1, <1>2, <2>1
  <2> QED
    BY <1>2, <2>1, <2>2, <2>3, TookKind
<1>3. CASE ReuseRevive(t)
  <2>1. \E c \in Pc : Goto(t, c) /\ c # "release" /\ (c = "return" => op[t].op \notin {"copy_rw", "replace"})
    BY <1>3 DEF ReuseRevive, Obtained, Pc
  <2>2. \E h, x : Takes(t, h, x)
    BY <1>3, ReviveTakes
  <2> QED
    BY <1>2, <2>1, <2>2
<1>4. CASE pdp_packet_new(t) /\ Reapable(t) # {}
  <2>1. \E c \in Pc : Goto(t, c) /\ c # "release" /\ c # "return"
    BY <1>4 DEF pdp_packet_new, Pc
  <2>2. \E h, x : Takes(t, h, x)
    BY <1>4, ReapTakes
  <2> QED
    BY <1>2, <2>1, <2>2
<1>5. CASE pdp_packet_new(t) /\ Reapable(t) = {}
  <2> DEFINE c == IF op[t].pc = "construct" THEN "create" ELSE "fallback_create"
  <2>1. Goto(t, c) /\ UNCHANGED <<pool, ref>> /\ c \in Pc
    BY <1>5 DEF pdp_packet_new, Pc
  <2>2. PICK o \in Op : /\ op' = [op EXCEPT ![t] = o] /\ op'[t] = o
                     /\ o.pc = c /\ o.op = op[t].op /\ o.type = op[t].type /\ o.src = op[t].src /\ o.dst = op[t].dst
                     /\ \A v \in Var : o.src = v \/ o.dst = v => Works(t, v) \/ Free(v)
    BY <2>1, GotoFacts
  <2> QED
    BY <1>1, <2>1, <2>2, QuietKind
<1>6. CASE \E d \in Data : pdp_packet_create(t, d)
  <2>1. PICK d \in Data : pdp_packet_create(t, d)
    BY <1>6
  <2>2. \E c \in Pc : Goto(t, c) /\ c # "release" /\ c # "return"
    BY <2>1 DEF pdp_packet_create, Pc
  <2>3. \E h, x : Takes(t, h, x)
    BY <2>1, CreateTakes
  <2> QED
    BY <1>2, <2>2, <2>3
<1> QED
  BY <1>3, <1>4, <1>5, <1>6

LEMMA CalmKind ==
    ASSUME PoolIInv, NEW t \in Thread,
           ReuseEmpty(t) \/ ReuseDangling(t) \/ ReuseSkip(t) \/ CreateFails(t)
    PROVE  StepKind(t) /\ Faithful(t)'
<1>1. op[t].pc \in {"reuse", "factory", "create", "fallback_create"} /\ UNCHANGED <<pool, ref>> /\ ref[t] = Invalid
  BY DEF ReuseEmpty, ReuseDangling, ReuseSkip, CreateFails, Popping, Reuse, PoolIInv, OpsOK, Phase, HasHandle, Empty
<1>2. ASSUME NEW c \in Pc, Goto(t, c), c # "return"
      PROVE  StepKind(t) /\ Faithful(t)'
  <2>1. PICK o \in Op : /\ op' = [op EXCEPT ![t] = o] /\ op'[t] = o
                     /\ o.pc = c /\ o.op = op[t].op /\ o.type = op[t].type /\ o.src = op[t].src /\ o.dst = op[t].dst
                     /\ \A v \in Var : o.src = v \/ o.dst = v => Works(t, v) \/ Free(v)
    BY <1>2, GotoFacts
  <2> QED
    BY <1>1, <1>2, <2>1, QuietKind
<1>3. CASE Return(t)
  BY <1>1, <1>3, IdleOp, QuietKind DEF Return
<1>4. CASE UNCHANGED op
  <2>1. op' = [op EXCEPT ![t] = op[t]]
    BY <1>4 DEF PoolIInv, OpsOK
  <2> QED
    BY <1>1, <2>1, QuietKind
<1>5. Return(t) \/ UNCHANGED op \/ \E c \in Pc : Goto(t, c) /\ c # "return"
  BY DEF ReuseEmpty, ReuseDangling, ReuseSkip, CreateFails, Constructor, Failed, Pc, Reuse
<1> QED
  BY <1>2, <1>3, <1>4, <1>5

LEMMA FilledKind ==
    ASSUME PoolIInv, NEW t \in Thread, InitHeader(t) \/ CloneHeader(t) \/ CopyData(t)
    PROVE  StepKind(t) /\ Faithful(t)'
<1>1. op[t].pc \in {"init", "fallback_init", "copy"} /\ UNCHANGED ref /\ op[t].pc \in Making
  BY DEF InitHeader, CloneHeader, CopyData, Making, ByHand
<1>2. ref[t] \in Handle /\ pool[ref[t]] \in Header /\ pool \in [Handle -> Header \union {Null}]
  BY <1>1, TakenFacts
<1>3. ASSUME NEW c \in Pc, Goto(t, c), NEW x, pool' = [pool EXCEPT ![ref[t]] = x],
             c = "return" => op[t].op # "replace",
             /\ op[t].op \in {"copy_rw", "replace"} /\ c \in {"release", "return"} /\ op[t].type \notin SwappedCopy
             => x.data = pool[ref[op[t].src]].data
      PROVE  StepKind(t) /\ Faithful(t)'
  <2>1. PICK o \in Op : /\ op' = [op EXCEPT ![t] = o] /\ op'[t] = o
                     /\ o.pc = c /\ o.op = op[t].op /\ o.type = op[t].type /\ o.src = op[t].src /\ o.dst = op[t].dst
                     /\ \A v \in Var : o.src = v \/ o.dst = v => Works(t, v) \/ Free(v)
    BY <1>3, GotoFacts
  <2>2. o.pc = "return" => o.dst \in Var /\ ref[o.dst] = Invalid
    BY <1>1, <1>3, <2>1, TargetEmpty
  <2>3. /\ o.op \in {"copy_rw", "replace"} /\ o.pc \in {"release", "return"} /\ o.type \notin SwappedCopy
        => x.data = pool[ref[op[t].src]].data
    BY <1>3, <2>1
  <2> QED
    BY <1>1, <1>3, <2>1, <2>2, <2>3, FillKind
<1>4. CASE InitHeader(t)
  <2> DEFINE x == [pool[ref[t]] EXCEPT !.desc = Canon[op[t].type]]
             c == IF Canon[op[t].type] # op[t].type THEN "delete"
                  ELSE IF op[t].op \in {"copy_rw", "replace"} THEN "copy" ELSE "return"
  <2>1. Goto(t, c) /\ c \in Pc
    BY <1>4 DEF InitHeader, Obtained, Pc
  <2>2. pool' = [pool EXCEPT ![ref[t]] = x]
    BY <1>2, <1>4 DEF InitHeader
  <2> HIDE DEF x
  <2> QED
    BY <1>3, <2>1, <2>2
<1>5. CASE CloneHeader(t)
  <2> DEFINE x == [pool[ref[op[t].src]] EXCEPT !.data = pool[ref[t]].data]
             c == IF op[t].op \in {"copy_rw", "replace"} THEN "copy" ELSE "return"
  <2>1. Goto(t, c) /\ c \in Pc /\ pool' = [pool EXCEPT ![ref[t]] = x]
    BY <1>5 DEF CloneHeader, Obtained, Pc
  <2> HIDE DEF x
  <2> QED
    BY <1>3, <2>1
<1>6. CASE CopyData(t)
  <2> DEFINE y == [pool[ref[t]] EXCEPT !.data = pool[ref[op[t].src]].data]
             x == IF op[t].type \in SwappedCopy THEN pool[ref[t]] ELSE y
             c == IF op[t].op = "replace" THEN "release" ELSE "return"
  <2>1. Goto(t, c) /\ c \in Pc
    BY <1>6 DEF CopyData, Pc
  <2>2. pool' = [pool EXCEPT ![ref[t]] = x]
    BY <1>2, <1>6 DEF CopyData
  <2>3. y.data = pool[ref[op[t].src]].data
    BY <1>2 DEF Header
  <2>4. op[t].type \notin SwappedCopy => x.data = pool[ref[op[t].src]].data
    BY <2>3
  <2> HIDE DEF x
  <2> QED
    BY <1>3, <2>1, <2>2, <2>4
<1> QED
  BY <1>4, <1>5, <1>6

LEMMA ReleasedKind ==
    ASSUME PoolIInv, NEW t \in Thread, ReleaseOld(t) \/ SleepDone(t) \/ CleanupDone(t)
    PROVE  StepKind(t) /\ Faithful(t)'
<1> SUFFICES ASSUME NEW v, v = op[t].src PROVE StepKind(t) /\ Faithful(t)'
  OBVIOUS
<1>1. /\ op[t] \in Op /\ op[t].pc \in {"release", "sleep", "cleanup"} /\ v \in Var /\ ref[v] # Invalid /\ Works(t, v)
      /\ (op[t].op = "replace" => op[t].dst = v) /\ (op[t].pc # "release" => Alone(v))
  BY DEF ReleaseOld, SleepDone, CleanupDone, Works, PoolIInv, OpsOK, Phase, HasHandle, HasType, HasSource, HasTarget, Empty, Taken, Named, ByHand, Making, Releasing,
             Constructors, Copiers
<1>2. ASSUME Continue(t)
      PROVE  \E o : op' = [op EXCEPT ![t] = o] /\ (o.pc = "idle" \/ (o.pc = "return" /\ o.dst = v /\ o.src = v))
  <2>1. CASE op[t].op = "replace"
    <3> DEFINE c == "return"
    <3>1. Goto(t, c) /\ c \in Pc
      BY <1>2, <2>1 DEF Continue, Pc
    <3>2. PICK o \in Op : /\ op' = [op EXCEPT ![t] = o] /\ op'[t] = o
                     /\ o.pc = c /\ o.op = op[t].op /\ o.type = op[t].type /\ o.src = op[t].src /\ o.dst = op[t].dst
                     /\ \A w \in Var : o.src = w \/ o.dst = w => Works(t, w) \/ Free(w)
      BY <3>1, GotoFacts
    <3> QED
      BY <1>1, <2>1, <3>2
  <2>2. CASE op[t].op # "replace"
    BY <1>2, <2>2, IdleOp DEF Continue, Return
  <2> QED
    BY <2>1, <2>2
<1>3. CASE (\/ pool[ref[v]].users > 1 /\ Decrement(t, v)
            \/ pool[ref[v]].users <= 1 /\ Retire(t, v)) /\ Continue(t)
  BY <1>1, <1>2, <1>3, LeaveKind
<1>4. CASE Goto(t, "sleep") /\ UNCHANGED <<pool, ref>>
  <2> DEFINE c == "sleep"
  <2>1. Goto(t, c) /\ c \in Pc
    BY <1>4 DEF Pc
  <2>2. PICK o \in Op : /\ op' = [op EXCEPT ![t] = o] /\ op'[t] = o
                     /\ o.pc = c /\ o.op = op[t].op /\ o.type = op[t].type /\ o.src = op[t].src /\ o.dst = op[t].dst
                     /\ \A w \in Var : o.src = w \/ o.dst = w => Works(t, w) \/ Free(w)
    BY <2>1, GotoFacts
  <2> QED
    BY <1>1, <1>4, <2>2, QuietKind
<1>5. CASE ReleaseOld(t)
  BY <1>3, <1>4, <1>5 DEF ReleaseOld
<1>6. CASE SleepDone(t)
  <2>1. pool[ref[v]].users <= 1
    BY <1>1, <1>6, AloneOne, HandleFacts DEF PoolIInv, SleepDone
  <2> QED
    BY <1>3, <1>6, <2>1 DEF SleepDone
<1>7. CASE CleanupDone(t)
  <2>1. op[t].pc = "cleanup" /\ pool' = [pool EXCEPT ![ref[v]] = Null] /\ ref' = [ref EXCEPT ![v] = Invalid]
        /\ op' = [op EXCEPT ![t] = Idle]
    BY <1>7 DEF CleanupDone, Return
  <2>2. Others(t) /\ op'[t] = Idle
    BY <2>1, OthersFacts
  <2>3. RefsKept(t, v) /\ ref'[v] = Invalid
    BY <1>1, <2>1, HandleFacts DEF RefsKept, Same, Alone, PoolIInv, PoolOK, PoolTypes
  <2>4. LeavesVar(t, v)
    BY <1>1, <2>1, <2>2, <2>3, IdleOp DEF LeavesVar
  <2>5. Faithful(t)'
    BY <2>2, IdleOp DEF Faithful
  <2> QED
    BY <1>1, <2>2, <2>4, <2>5 DEF StepKind
<1> QED
  BY <1>5, <1>6, <1>7

LEMMA StoredKind ==
    ASSUME PoolIInv, NEW t \in Thread, StoreHandle(t) \/ DeleteInexact(t)
    PROVE  StepKind(t) /\ Faithful(t)'
<1>1. CASE StoreHandle(t)
  <2> SUFFICES ASSUME NEW w, w = op[t].dst PROVE StepKind(t) /\ Faithful(t)'
    OBVIOUS
  <2>1. /\ op[t].pc = "return" /\ UNCHANGED pool /\ ref' = [ref EXCEPT ![w] = ref[t], ![t] = Invalid]
        /\ op' = [op EXCEPT ![t] = Idle]
    BY <1>1 DEF StoreHandle, Return
  <2>2. Others(t) /\ op'[t] = Idle
    BY <2>1, OthersFacts
  <2>3. w \in Var
    BY <2>1 DEF PoolIInv, OpsOK, Phase, HasHandle, HasType, HasSource, HasTarget, Empty, Taken, Named, ByHand, Making, Releasing,
             Constructors, Copiers
  <2>4. w \in Ref /\ t \in Ref /\ w # t /\ ref \in [Ref -> Handle \union {Invalid}]
    BY <2>3, HandleFacts DEF PoolIInv, PoolOK, PoolTypes
  <2>5. RefsKept(t, w) /\ ref'[w] = ref[t] /\ Same(ref[t])
    BY <2>1, <2>4 DEF RefsKept, Same
  <2>6. Stores(t) /\ Faithful(t)'
    BY <2>1, <2>2, <2>3, <2>5, IdleOp DEF Stores, Faithful
  <2> QED
    BY <2>2, <2>6 DEF StepKind
<1>2. CASE DeleteInexact(t)
  <2>1. op[t].pc = "delete" /\ pool' = [pool EXCEPT ![ref[t]] = Null] /\ ref' = [ref EXCEPT ![t] = Invalid]
    BY <1>2 DEF DeleteInexact
  <2>2. Alone(t) /\ t \in Ref /\ ref[t] \in Handle
    BY <2>1, TakenFacts
  <2>3. RefsKept(t, None) /\ ref'[t] = Invalid
    BY <2>1, <2>2 DEF RefsKept, Same, Alone, PoolIInv, PoolOK, PoolTypes
  <2>4. \E o : op' = [op EXCEPT ![t] = o] /\ o.pc # "return" /\ o.pc # "release"
    <3>1. CASE Return(t)
      BY <3>1, IdleOp DEF Return
    <3>2. CASE Goto(t, "fallback")
      <4> DEFINE c == "fallback"
      <4>1. c \in Pc
        BY DEF Pc
      <4>2. PICK o \in Op : /\ op' = [op EXCEPT ![t] = o] /\ op'[t] = o
                     /\ o.pc = c /\ o.op = op[t].op /\ o.type = op[t].type /\ o.src = op[t].src /\ o.dst = op[t].dst
                     /\ \A v \in Var : o.src = v \/ o.dst = v => Works(t, v) \/ Free(v)
        BY <3>2, <4>1, GotoFacts
      <4> QED
        BY <4>2
    <3> QED
      BY <1>2, <3>1, <3>2 DEF DeleteInexact
  <2>5. Others(t) /\ op'[t].pc # "return"
    BY <2>4, OthersFacts
  <2>6. Calm(t) /\ Faithful(t)'
    BY <2>1, <2>3, <2>5 DEF Calm, Faithful
  <2> QED
    BY <2>5, <2>6 DEF StepKind
<1> QED
  BY <1>1, <1>2

LEMMA Kinds ==
    ASSUME PoolIInv, NEW t \in Thread, UserStep(t) \/ PoolStep(t)
    PROVE  StepKind(t) /\ Faithful(t)'
BY UserKind, TakeKind, CalmKind, FilledKind, ReleasedKind, StoredKind DEF PoolStep

(* The step of a thread keeps what another works on. *)
LEMMA Undisturbed ==
    ASSUME PoolIInv, NEW t \in Thread, StepKind(t), NEW u \in Thread \ {t}
    PROVE  /\ op'[u] = op[u] /\ ref'[u] = ref[u] /\ (ref[u] # Invalid => Same(ref[u]))
           /\ \A v \in Var : Works(u, v) => ref'[v] = ref[v] /\ (ref[v] # Invalid => Same(ref[v]))
<1>1. u \in Ref /\ u \notin Var /\ u # None /\ t \notin Var /\ Var \subseteq Ref /\ None \notin Var
  BY HandleFacts, NoneAssumption
<1>2. op'[u] = op[u]
  BY DEF StepKind, Others
<1>3. ASSUME NEW w, RefsKept(t, w), w = None \/ (w \in Var /\ ~Works(u, w))
      PROVE  /\ ref'[u] = ref[u] /\ (ref[u] # Invalid => Same(ref[u]))
             /\ \A v \in Var : Works(u, v) => ref'[v] = ref[v] /\ (ref[v] # Invalid => Same(ref[v]))
  BY <1>1, <1>3 DEF RefsKept
<1>4. ASSUME NEW v \in Var, Works(t, v) \/ Free(v)
      PROVE  ~Works(u, v)
  BY <1>4 DEF PoolIInv, OpsOK, Separate, Free, Works
<1>5. CASE Calm(t) \/ Arrives(t)
  BY <1>2, <1>3, <1>5 DEF Calm, Arrives
<1>6. CASE Stores(t)
  <2>1. RefsKept(t, op[t].dst) /\ op[t].dst \in Var /\ Works(t, op[t].dst)
    BY <1>6 DEF Stores, Works
  <2> QED
    BY <1>2, <1>3, <1>4, <2>1
<1>7. CASE \E v \in Var : LeavesVar(t, v) \/ WritesVar(t, v)
  <2>1. PICK v \in Var : RefsKept(t, v) /\ (Works(t, v) \/ Free(v))
    BY <1>7 DEF LeavesVar, WritesVar
  <2> QED
    BY <1>2, <1>3, <1>4, <2>1
<1>8. CASE \E v, w \in Var : SharesVar(t, v, w)
  <2>1. PICK v \in Var, w \in Var : RefsKept(t, w) /\ Free(w)
    BY <1>8 DEF SharesVar
  <2> QED
    BY <1>2, <1>3, <1>4, <2>1
<1> QED
  BY <1>5, <1>6, <1>7, <1>8 DEF StepKind

-----------------------------------------------------------------------------
(* Copies are faithful. *)
CopyIInv == PoolIInv /\ \A t \in Thread : Faithful(t)

LEMMA CopyNext ==
    ASSUME SharedExact, CopyIInv, [Next]_vars
    PROVE  CopyIInv'
<1>1. PoolIInv'
  BY PoolNext DEF CopyIInv
<1>2. CASE UNCHANGED vars
  BY <1>1, <1>2 DEF CopyIInv, Faithful, vars
<1>3. ASSUME NEW t \in Thread, UserStep(t) \/ PoolStep(t)
      PROVE  CopyIInv'
  <2>1. StepKind(t) /\ Faithful(t)'
    BY <1>3, Kinds DEF CopyIInv
  <2>2. ASSUME NEW u \in Thread \ {t}
        PROVE  Faithful(u)'
    <3>1. /\ op'[u] = op[u] /\ ref'[u] = ref[u] /\ (ref[u] # Invalid => Same(ref[u]))
          /\ \A v \in Var : Works(u, v) => ref'[v] = ref[v] /\ (ref[v] # Invalid => Same(ref[v]))
      BY <2>1, Undisturbed DEF CopyIInv
    <3>2. CASE op[u].op \in {"copy_rw", "replace"} /\ op[u].pc \in {"release", "return"}
      <4>1. op[u].src \in Var /\ Works(u, op[u].src)
        BY <3>2 DEF Works, CopyIInv, PoolIInv, OpsOK, Phase, HasHandle, HasType, HasSource, HasTarget, Empty, Taken, Named, ByHand, Making, Releasing,
             Constructors, Copiers
      <4>2. ref'[op[u].src] = ref[op[u].src] /\ (ref[op[u].src] # Invalid => Same(ref[op[u].src]))
        BY <3>1, <4>1
      <4> QED
        BY <3>1, <4>2 DEF Faithful, Same, CopyIInv
    <3>3. CASE ~(op[u].op \in {"copy_rw", "replace"} /\ op[u].pc \in {"release", "return"})
      BY <3>1, <3>3 DEF Faithful
    <3> QED
      BY <3>2, <3>3
  <2> QED
    BY <1>1, <2>1, <2>2 DEF CopyIInv
<1> QED
  BY <1>2, <1>3 DEF Next

(* What pdp_packet_copy_rw and pdp_packet_replace_with_writable return has *)
(* the data of the packet it was copied from, whatever other threads do to *)
(* the packet meanwhile, when the copy methods take the source first.      *)
THEOREM CopiesFaithful == SharedExact /\ SwappedCopy = {} => (Spec => []CopyFaithful)
<1> SUFFICES ASSUME SharedExact, SwappedCopy = {} PROVE Spec => []CopyFaithful
  OBVIOUS
<1>1. Init => CopyIInv
  BY PoolInit, IdleOp DEF CopyIInv, Faithful, Init
<1>2. CopyIInv /\ [Next]_vars => CopyIInv'
  BY CopyNext
<1>3. CopyIInv => CopyFaithful
  BY DEF CopyIInv, CopyFaithful, Faithful
<1> QED
  BY <1>1, <1>2, <1>3, PTL DEF Spec

-----------------------------------------------------------------------------
(***************************************************************************)
(* Packet variables hold values of their own.  At most one thread is about *)
(* to store to a variable, so that its value is that of one reference.     *)
(***************************************************************************)
Storing(t, v) == op[t].pc = "return" /\ op[t].dst = v
ValueFacts ==
    /\ \A t \in Thread, v \in Var : Storing(t, v) => ValueOf(v) = Contents(ref[t])
    /\ \A v \in Var : (\A t \in Thread : ~Storing(t, v)) => ValueOf(v) = Contents(ref[v])
    /\ \A r \in Ref : /\ ref[r] = Invalid => Contents(ref[r]) = Null
                      /\ ref[r] # Invalid => Contents(ref[r]) = pool[ref[r]].data /\ Contents(ref[r]) \in Data
LEMMA ValuesKnown == PoolIInv => ValueFacts
<1> SUFFICES ASSUME PoolIInv PROVE ValueFacts
  OBVIOUS
<1>1. ASSUME NEW t \in Thread, NEW v \in Var, Storing(t, v)
      PROVE  ValueOf(v) = Contents(ref[t])
  <2> DEFINE u == CHOOSE u \in Thread : op[u].pc = "return" /\ op[u].dst = v
  <2>1. u \in Thread /\ op[u].pc = "return" /\ op[u].dst = v
    BY <1>1 DEF Storing
  <2>2. u = t
    BY <1>1, <2>1 DEF Storing, PoolIInv, OpsOK, Separate, Works
  <2> HIDE DEF u
  <2>3. ValueOf(v) = Contents(ref[u])
    BY <2>1 DEF ValueOf, u
  <2> QED
    BY <2>2, <2>3
<1>2. ASSUME NEW v \in Var, \A t \in Thread : ~Storing(t, v)
      PROVE  ValueOf(v) = Contents(ref[v])
  BY <1>2 DEF Storing, ValueOf
<1>3. ASSUME NEW r \in Ref
      PROVE  /\ ref[r] = Invalid => Contents(ref[r]) = Null
             /\ ref[r] # Invalid => Contents(ref[r]) = pool[ref[r]].data /\ Contents(ref[r]) \in Data
  <2>1. CASE ref[r] = Invalid
    BY <2>1, HandleFacts DEF Contents, Valid
  <2>2. CASE ref[r] # Invalid
    <3>1. ref[r] \in Handle /\ pool[ref[r]] # Null /\ pool[ref[r]] \in Header /\ ref[r] < pool_size
      BY <2>2 DEF PoolIInv, PoolOK, PoolTypes, RefsValid, Placed
    <3> QED
      BY <2>2, <3>1 DEF Contents, Valid, Header
  <2> QED
    BY <2>1, <2>2
<1> QED
  BY <1>1, <1>2, <1>3 DEF ValueFacts

(* A value that the step is not about stays. *)
LEMMA ValueKept ==
    ASSUME ValueFacts, ValueFacts', NEW t \in Thread, Others(t), NEW w \in Var \union {None}, RefsKept(t, w),
           NEW v \in Var, v # w, ~Storing(t, v), ~Storing(t, v)'
    PROVE  ValueOf(v)' = ValueOf(v)
<1>1. \A u \in Thread \ {t} : u \in Ref \ {t, w} /\ op'[u] = op[u]
  BY HandleFacts, NoneAssumption DEF Others
<1>2. v \in Ref \ {t, w}
  BY HandleFacts
<1>3. \A r \in Ref \ {t, w} : Contents(ref[r])' = Contents(ref[r])
  <2> SUFFICES ASSUME NEW r \in Ref \ {t, w} PROVE Contents(ref[r])' = Contents(ref[r])
    OBVIOUS
  <2>1. ref'[r] = ref[r] /\ (ref[r] # Invalid => pool'[ref[r]].data = pool[ref[r]].data)
    BY DEF RefsKept, Same
  <2> QED
    BY <2>1 DEF ValueFacts
<1>4. CASE \E u \in Thread : Storing(u, v)
  <2>1. PICK u \in Thread : Storing(u, v)
    BY <1>4
  <2>2. u # t /\ Storing(u, v)'
    BY <1>1, <2>1 DEF Storing
  <2>3. ValueOf(v) = Contents(ref[u]) /\ ValueOf(v)' = Contents(ref[u])'
    BY <2>1, <2>2 DEF ValueFacts
  <2> QED
    BY <1>1, <1>3, <2>2, <2>3
<1>5. CASE \A u \in Thread : ~Storing(u, v)
  <2>1. \A u \in Thread : ~Storing(u, v)'
    BY <1>1, <1>5 DEF Storing
  <2>2. ValueOf(v) = Contents(ref[v]) /\ ValueOf(v)' = Contents(ref[v])'
    BY <1>5, <2>1 DEF ValueFacts
  <2> QED
    BY <1>2, <1>3, <2>2
<1> QED
  BY <1>4, <1>5

(* A step changes the value of one variable, as PacketValues says. *)
LEMMA ValueStep ==
    ASSUME PoolIInv, PoolIInv', ValueFacts, ValueFacts', NEW t \in Thread, StepKind(t)
    PROVE  [Values!ValuesNext]_[v \in Var |-> ValueOf(v)]
<1> DEFINE val == [v \in Var |-> ValueOf(v)]
<1>1. Others(t) /\ Null \notin Data
  BY NullAssumption DEF StepKind
<1>2. ASSUME NEW v \in Var, Works(t, v) \/ Free(v), op[t].pc # "return"
      PROVE  \A u \in Thread : ~Storing(u, v)
  BY <1>2 DEF Storing, PoolIInv, OpsOK, Separate, Works, Free
<1>3. ASSUME NEW v \in Var, Works(t, v) \/ Free(v), op'[t].pc # "return"
      PROVE  \A u \in Thread : ~Storing(u, v)'
  BY <1>1, <1>3 DEF Storing, Others, PoolIInv, OpsOK, Separate, Works, Free
<1>4. \A v \in Var : v \in Ref
  BY HandleFacts
<1>5. ASSUME NEW w \in Var, NEW x, ValueOf(w)' = x,
             \A v \in Var \ {w} : ValueOf(v)' = ValueOf(v)
      PROVE  val' = [val EXCEPT ![w] = x]
  BY <1>5
<1>6. CASE Calm(t)
  <2>1. \A v \in Var : ValueOf(v)' = ValueOf(v)
    <3> SUFFICES ASSUME NEW v \in Var PROVE ValueOf(v)' = ValueOf(v)
      OBVIOUS
    <3>1. RefsKept(t, None) /\ ~Storing(t, v) /\ ~Storing(t, v)' /\ v # None
      BY <1>6, HandleFacts DEF Calm, Storing
    <3> QED
      BY <1>1, <3>1, ValueKept
  <2> QED
    BY <2>1
<1>7. CASE Arrives(t)
  <2> SUFFICES ASSUME NEW w, w = op'[t].dst PROVE Values!ValuesNext
    OBVIOUS
  <2>1. w \in Var /\ ref[w] = Invalid /\ Works(t, w) /\ op[t].pc # "return" /\ RefsKept(t, None) /\ ref'[t] # Invalid
        /\ Storing(t, w)'
    BY <1>7 DEF Arrives, Storing
  <2>2. ValueOf(w) = Null
    BY <1>2, <1>4, <2>1 DEF ValueFacts
  <2>3. ValueOf(w)' \in Data
    BY <2>1, HandleFacts DEF ValueFacts
  <2>4. \A v \in Var \ {w} : ValueOf(v)' = ValueOf(v)
    <3> SUFFICES ASSUME NEW v \in Var \ {w} PROVE ValueOf(v)' = ValueOf(v)
      OBVIOUS
    <3>1. ~Storing(t, v) /\ ~Storing(t, v)' /\ v # None
      BY <2>1, HandleFacts DEF Storing
    <3> QED
      BY <1>1, <2>1, <3>1, ValueKept
  <2>5. val' = [val EXCEPT ![w] = ValueOf(w)'] /\ val[w] = Null
    BY <1>5, <2>1, <2>2, <2>4
  <2>6. Values!Fill(w)
    BY <2>3, <2>5 DEF Values!Fill
  <2> QED
    BY <2>1, <2>6 DEF Values!ValuesNext
<1>8. CASE Stores(t)
  <2> SUFFICES ASSUME NEW w, w = op[t].dst PROVE val' = val
    OBVIOUS
  <2>1. w \in Var /\ Works(t, w) /\ op'[t].pc # "return" /\ RefsKept(t, w) /\ ref'[w] = ref[t]
        /\ (ref[t] # Invalid => Same(ref[t])) /\ Storing(t, w) /\ t \in Ref /\ w \in Ref
    BY <1>8, HandleFacts DEF Stores, Works, Storing
  <2>2. ValueOf(w) = Contents(ref[t]) /\ ValueOf(w)' = Contents(ref[w])'
    BY <1>3, <2>1 DEF ValueFacts
  <2>3. Contents(ref[w])' = Contents(ref[t])
    BY <2>1 DEF ValueFacts, Same
  <2>4. \A v \in Var \ {w} : ValueOf(v)' = ValueOf(v)
    <3> SUFFICES ASSUME NEW v \in Var \ {w} PROVE ValueOf(v)' = ValueOf(v)
      OBVIOUS
    <3>1. ~Storing(t, v) /\ ~Storing(t, v)'
      BY <2>1 DEF Storing
    <3> QED
      BY <1>1, <2>1, <3>1, ValueKept
  <2>5. \A v \in Var : ValueOf(v)' = ValueOf(v)
    BY <2>2, <2>3, <2>4
  <2> QED
    BY <2>5
<1>9. ASSUME NEW w \in Var, LeavesVar(t, w) \/ WritesVar(t, w)
      PROVE  Values!ValuesNext
  <2>1. RefsKept(t, w) /\ (Works(t, w) \/ Free(w)) /\ op[t].pc # "return" /\ ref[w] # Invalid /\ w \in Ref /\ t \in Ref
        /\ (op'[t].pc = "return" => op'[t].dst = w)
    BY <1>9, HandleFacts DEF LeavesVar, WritesVar
  <2>2. ValueOf(w) \in Data
    BY <1>2, <2>1 DEF ValueFacts
  <2>3. ValueOf(w)' \in Data \union {Null}
    <3>1. CASE op'[t].pc = "return"
      BY <2>1, <3>1 DEF ValueFacts, Storing
    <3>2. CASE op'[t].pc # "return"
      BY <1>3, <2>1, <3>2 DEF ValueFacts
    <3> QED
      BY <3>1, <3>2
  <2>4. \A v \in Var \ {w} : ValueOf(v)' = ValueOf(v)
    <3> SUFFICES ASSUME NEW v \in Var \ {w} PROVE ValueOf(v)' = ValueOf(v)
      OBVIOUS
    <3>1. ~Storing(t, v) /\ ~Storing(t, v)'
      BY <2>1 DEF Storing
    <3> QED
      BY <1>1, <2>1, <3>1, ValueKept
  <2>5. val' = [val EXCEPT ![w] = ValueOf(w)'] /\ val[w] # Null
    BY <1>1, <1>5, <2>2, <2>4
  <2>6. Values!Change(w) \/ Values!Release(w)
    BY <2>3, <2>5 DEF Values!Change, Values!Release
  <2> QED
    BY <2>6 DEF Values!ValuesNext
<1>10. ASSUME NEW v \in Var, NEW w \in Var, SharesVar(t, v, w)
       PROVE  Values!ValuesNext
  <2>1. RefsKept(t, w) /\ op' = op /\ op[t].pc = "idle" /\ Free(w) /\ Free(v) /\ v # w
        /\ ref[v] # Invalid /\ ref[w] = Invalid /\ ref'[w] = ref[v]
        /\ v \in Ref /\ w \in Ref /\ v # t
    BY <1>10, HandleFacts DEF SharesVar
  <2>2. ValueOf(w) = Null /\ ValueOf(v) \in Data /\ ValueOf(v) = pool[ref[v]].data
    BY <1>2, <2>1 DEF ValueFacts
  <2>3. ValueOf(w)' = pool'[ref'[w]].data
    BY <1>3, <2>1 DEF ValueFacts
  <2>4. pool'[ref[v]].data = pool[ref[v]].data
    BY <2>1 DEF RefsKept, Same
  <2>5. ValueOf(w)' = ValueOf(v)
    BY <2>1, <2>2, <2>3, <2>4
  <2>6. \A z \in Var \ {w} : ValueOf(z)' = ValueOf(z)
    <3> SUFFICES ASSUME NEW z \in Var \ {w} PROVE ValueOf(z)' = ValueOf(z)
      OBVIOUS
    <3>1. ~Storing(t, z) /\ ~Storing(t, z)'
      BY <2>1 DEF Storing
    <3> QED
      BY <1>1, <2>1, <3>1, ValueKept
  <2>7. val' = [val EXCEPT ![w] = val[v]] /\ val[w] = Null /\ val[v] # Null
    BY <1>1, <1>5, <2>2, <2>5, <2>6
  <2>8. Values!CopyOf(v, w)
    BY <2>7 DEF Values!CopyOf
  <2> QED
    BY <2>8 DEF Values!ValuesNext
<1> QED
  BY <1>6, <1>7, <1>8, <1>9, <1>10 DEF StepKind

(* The pool implements PacketValues: reference counted and shared packets, *)
(* reused, reaped, retyped and released by any number of threads, cannot   *)
(* be told from variables that each hold a value of their own.             *)
THEOREM ImplementsVariables == SharedExact => (Spec => ImplementsValues)
<1> SUFFICES ASSUME SharedExact PROVE Spec => ImplementsValues
  OBVIOUS
<1>1. Init => Values!ValuesInit
  <2> SUFFICES ASSUME Init PROVE Values!ValuesInit
    OBVIOUS
  <2>1. ValueFacts
    BY PoolInit, ValuesKnown
  <2>2. \A v \in Var : ref[v] = Invalid /\ \A t \in Thread : ~Storing(t, v)
    BY IdleOp, HandleFacts DEF Init, Storing
  <2>3. \A v \in Var : ValueOf(v) = Null
    BY <2>1, <2>2, HandleFacts DEF ValueFacts
  <2> QED
    BY <2>3 DEF Values!ValuesInit
<1>2. PoolIInv /\ PoolIInv' /\ ValueFacts /\ ValueFacts' /\ [Next]_vars
      => [Values!ValuesNext]_[v \in Var |-> ValueOf(v)]
  <2> SUFFICES ASSUME PoolIInv, PoolIInv', ValueFacts, ValueFacts', [Next]_vars
               PROVE  [Values!ValuesNext]_[v \in Var |-> ValueOf(v)]
    OBVIOUS
  <2>1. CASE UNCHANGED vars
    BY <2>1 DEF vars, ValueOf, Contents, Valid
  <2>2. ASSUME NEW t \in Thread, UserStep(t) \/ PoolStep(t)
        PROVE  [Values!ValuesNext]_[v \in Var |-> ValueOf(v)]
    BY <2>2, Kinds, ValueStep
  <2> QED
    BY <2>1, <2>2 DEF Next
<1>3. PoolIInv => ValueFacts
  BY ValuesKnown
<1> QED
  BY <1>1, <1>2, <1>3, PoolInvariant, PTL DEF Spec, ImplementsValues, Values!ValuesSpec

-----------------------------------------------------------------------------
(***************************************************************************)
(* No fifo entry dangles when packets are deleted by their user only, that *)
(* is when every factory makes what it is asked for, and when the types    *)
(* with a cleanup method (the ones that users delete: 3D contexts of size  *)
(* 0) have sizes of their own, so that pdp_packet_new never retypes one.   *)
(***************************************************************************)
ExactFactories == \A type \in Type \ NoFactory : Canon[type] = type
ImpureSizes == {SizeOf[type] : type \in Impure}
SizesApart == \A type \in Type \ Impure : SizeOf[type] \notin ImpureSizes

(* An entry may be stale: the packet is in use or of another type.  But it *)
(* is there, and a packet that a user may delete is in one fifo while it   *)
(* is unused and in none while it is used.                                 *)
Sized == \A h \in Handle : pool[h] # Null /\ pool[h].desc # NoDesc => pool[h].size = SizeOf[pool[h].desc]
Entries ==
    \A type \in Type : \A h \in Elems(fifo[type]) :
        /\ pool[h] # Null
        /\ pool[h].size \in ImpureSizes => pool[h].users = 0 /\ pool[h].desc = type
Fits(t) ==
    /\ op[t].pc # "crash"
    /\ op[t].pc \in {"construct", "create", "init", "delete"} => Canon[op[t].type] = op[t].type
    /\ op[t].pc \in {"init", "fallback_init"} => pool[ref[t]].size = SizeOf[op[t].type]
    /\ op[t].pc = "cleanup" => pool[ref[op[t].src]].desc \in Impure

FifoIInv == PoolIInv /\ Sized /\ Entries /\ \A t \in Thread : Fits(t)

Plain == {"idle", "reuse", "factory", "fallback", "fallback_create", "copy", "release", "sleep", "return"}

LEMMA ElemsHandles ==
    ASSUME PoolIInv, NEW type \in Type, NEW h \in Elems(fifo[type])
    PROVE  h \in Handle
BY DEF Elems, PoolIInv, PoolOK, PoolTypes

(* A packet in use changes and keeps its size. *)
LEMMA EntryChanged ==
    ASSUME FifoIInv, NEW h \in Handle, pool[h] # Null, pool[h].users # 0, NEW x \in Header, x.size = pool[h].size,
           x.desc # NoDesc => x.size = SizeOf[x.desc], pool' = [pool EXCEPT ![h] = x], fifo' = fifo
    PROVE  Sized' /\ Entries'
<1>1. pool'[h] = x /\ x # Null /\ \A g \in Handle \ {h} : pool'[g] = pool[g]
  BY NullAssumption DEF FifoIInv, PoolIInv, PoolOK, PoolTypes
<1>2. Sized'
  BY <1>1 DEF FifoIInv, Sized
<1>3. Entries'
  BY <1>1, ElemsHandles DEF FifoIInv, Entries
<1> QED
  BY <1>2, <1>3

(* A thread takes a packet. *)
LEMMA EntryTaken ==
    ASSUME FifoIInv, NEW t \in Thread, NEW h, NEW x, Takes(t, h, x), x.desc # NoDesc => x.size = SizeOf[x.desc],
           \A type \in Type : Elems(fifo'[type]) \subseteq Elems(fifo[type]),
           x.size \in ImpureSizes => \A type \in Type : h \notin Elems(fifo'[type])
    PROVE  Sized' /\ Entries'
<1>1. h \in Handle /\ pool'[h] = x /\ x # Null /\ \A g \in Handle \ {h} : pool'[g] = pool[g]
  BY NullAssumption DEF Takes, FifoIInv, PoolIInv, PoolOK, PoolTypes
<1>2. Sized'
  BY <1>1 DEF FifoIInv, Sized
<1>3. Entries'
  <2> SUFFICES ASSUME NEW type \in Type, NEW g \in Elems(fifo'[type])
               PROVE  /\ pool'[g] # Null
                      /\ pool'[g].size \in ImpureSizes => pool'[g].users = 0 /\ pool'[g].desc = type
    BY DEF Entries
  <2>1. g \in Elems(fifo[type]) /\ g \in Handle
    BY ElemsHandles DEF FifoIInv
  <2> QED
    BY <1>1, <2>1 DEF FifoIInv, Entries
<1> QED
  BY <1>2, <1>3

LEMMA FifoTake ==
    ASSUME SizesApart, FifoIInv, NEW t \in Thread,
           ReuseRevive(t) \/ pdp_packet_new(t) \/ \E d \in Data : pdp_packet_create(t, d)
    PROVE  Sized' /\ Entries' /\ Fits(t)'
<1>1. /\ op[t].pc \in {"reuse", "factory", "construct", "create", "fallback", "fallback_create"} /\ PoolIInv /\ op[t].type \in Type
      /\ (op[t].pc \in {"fallback", "fallback_create"} => op[t].src \in Var /\ ref[op[t].src] # Invalid
                                                          /\ pool[ref[op[t].src]].desc = op[t].type)
  BY DEF ReuseRevive, Popping, pdp_packet_new, pdp_packet_create, FifoIInv, PoolIInv, OpsOK, Reuse, Phase, HasHandle, HasType, HasSource, HasTarget, Empty, Taken, Named, ByHand, Making, Releasing,
             Constructors, Copiers
<1>2. op[t].pc \in {"construct", "create"} => SizeOf[Canon[op[t].type]] = SizeOf[op[t].type]
  BY DEF FifoIInv, Fits
<1>3. op[t].pc \in {"fallback", "fallback_create"} => pool[ref[op[t].src]].size = SizeOf[op[t].type]
  BY <1>1, VarFacts, NoneAssumption DEF FifoIInv, Sized
<1>4. ASSUME NEW c \in Pc, Goto(t, c), NEW h, NEW x, Takes(t, h, x),
             c \in {"copy", "return"} \/ (c = "init" /\ op[t].pc \in {"construct", "create"}) \/ c = "fallback_init",
             c \in {"init", "fallback_init"} => x.size = SizeOf[op[t].type]
      PROVE  Fits(t)'
  <2>1. PICK o \in Op : /\ op' = [op EXCEPT ![t] = o] /\ op'[t] = o
                     /\ o.pc = c /\ o.op = op[t].op /\ o.type = op[t].type /\ o.src = op[t].src /\ o.dst = op[t].dst
                     /\ \A v \in Var : o.src = v \/ o.dst = v => Works(t, v) \/ Free(v)
    BY <1>1, <1>4, GotoFacts
  <2>2. ref'[t] = h /\ pool'[h] = x
    BY <1>1, <1>4, TookFacts
  <2>3. op[t].pc \in {"construct", "create"} => Canon[op[t].type] = op[t].type
    BY DEF FifoIInv, Fits
  <2> QED
    BY <1>4, <2>1, <2>2, <2>3 DEF Fits
<1>5. CASE ReuseRevive(t)
  <2> SUFFICES ASSUME NEW h, h = Popped(t) PROVE Sized' /\ Entries' /\ Fits(t)'
    OBVIOUS
  <2>1. PICK x : Takes(t, h, x) /\ x.desc = op[t].type /\ x.size = pool[h].size /\ pool[h] \in Header
    BY <1>1, <1>5, ReviveTakes
  <2>2. Popping(t) /\ fifo' = Pop(t) /\ pool[h] # Null /\ pool[h].desc = op[t].type /\ op[t].type # NoDesc
    BY <1>1, <1>5, NoneAssumption DEF ReuseRevive, Valid
  <2>3. x.size = SizeOf[x.desc]
    BY <2>1, <2>2 DEF FifoIInv, Sized, Takes
  <2>4. \A type \in Type : Elems(fifo'[type]) \subseteq Elems(fifo[type])
    BY <1>1, <2>2, PopFacts
  <2>5. h \notin Elems(fifo'[op[t].type])
    BY <1>1, <2>2, PopFacts
  <2>6. x.size \in ImpureSizes => \A type \in Type : h \notin Elems(fifo'[type])
    BY <2>1, <2>2, <2>4, <2>5 DEF FifoIInv, Entries
  <2>7. Sized' /\ Entries'
    BY <2>1, <2>3, <2>4, <2>6, EntryTaken
  <2>8. \E c \in Pc : Goto(t, c) /\ c \in {"copy", "return"}
    BY <1>5 DEF ReuseRevive, Obtained, Pc
  <2> QED
    BY <1>4, <2>1, <2>7, <2>8
<1>6. CASE pdp_packet_new(t) /\ Reapable(t) # {}
  <2>1. PICK x : \E h \in Reapable(t) : Takes(t, h, x) /\ x.desc = NoDesc /\ x.size = NewSize(t) /\ fifo' = fifo
    BY <1>1, <1>6, ReapTakes
  <2>2. PICK h \in Reapable(t) : Takes(t, h, x) /\ x.desc = NoDesc /\ x.size = NewSize(t) /\ fifo' = fifo
    BY <2>1
  <2>3. h \in Handle /\ pool[h] # Null /\ pool[h] \in Header /\ pool[h].users = 0 /\ pool[h].size = x.size
        /\ pool[h].desc \notin Impure
    BY <1>1, <2>2 DEF Reapable, Valid, PoolIInv, PoolOK, PoolTypes
  <2>4. pool[h].desc \in Type /\ pool[h].desc # NoDesc
    BY <1>1, <2>3 DEF Header, PoolIInv, PoolOK, Described
  <2>5. x.size \notin ImpureSizes
    BY <2>3, <2>4 DEF FifoIInv, Sized, SizesApart
  <2>6. Sized' /\ Entries'
    BY <2>2, <2>5, EntryTaken
  <2>7. NewSize(t) = SizeOf[op[t].type]
    BY <1>1, <1>2, <1>3, <1>6 DEF NewSize, pdp_packet_new
  <2>8. \E c \in Pc : Goto(t, c) /\ ((c = "init" /\ op[t].pc = "construct") \/ c = "fallback_init")
    BY <1>6 DEF pdp_packet_new, Pc
  <2> QED
    BY <1>4, <2>2, <2>6, <2>7, <2>8
<1>7. CASE pdp_packet_new(t) /\ Reapable(t) = {}
  <2> DEFINE c == IF op[t].pc = "construct" THEN "create" ELSE "fallback_create"
  <2>1. Goto(t, c) /\ UNCHANGED <<pool, ref, fifo>> /\ c \in Pc
    BY <1>7 DEF pdp_packet_new, Pc
  <2>2. PICK o \in Op : /\ op' = [op EXCEPT ![t] = o] /\ op'[t] = o
                     /\ o.pc = c /\ o.op = op[t].op /\ o.type = op[t].type /\ o.src = op[t].src /\ o.dst = op[t].dst
                     /\ \A v \in Var : o.src = v \/ o.dst = v => Works(t, v) \/ Free(v)
    BY <1>1, <2>1, GotoFacts
  <2>3. Fits(t)'
    BY <1>7, <2>2 DEF Fits, FifoIInv, pdp_packet_new
  <2> QED
    BY <2>1, <2>3 DEF FifoIInv, Sized, Entries
<1>8. CASE \E d \in Data : pdp_packet_create(t, d)
  <2>1. PICK d \in Data : pdp_packet_create(t, d)
    BY <1>8
  <2>2. PICK x : \E h \in Handle : Takes(t, h, x) /\ x.desc = NoDesc /\ x.size = CreateSize(t) /\ fifo' = fifo
                                   /\ pool[h] = Null
    BY <1>1, <2>1, CreateTakes
  <2>3. PICK h \in Handle : Takes(t, h, x) /\ x.desc = NoDesc /\ x.size = CreateSize(t) /\ fifo' = fifo /\ pool[h] = Null
    BY <2>2
  <2>4. \A type \in Type : h \notin Elems(fifo'[type])
    BY <2>3 DEF FifoIInv, Entries
  <2>5. Sized' /\ Entries'
    BY <2>3, <2>4, EntryTaken
  <2>6. CreateSize(t) = SizeOf[op[t].type]
    BY <1>1, <1>2, <1>3, <2>1 DEF CreateSize, pdp_packet_create
  <2>7. \E c \in Pc : Goto(t, c) /\ ((c = "init" /\ op[t].pc = "create") \/ c = "fallback_init")
    BY <2>1 DEF pdp_packet_create, Pc
  <2> QED
    BY <1>4, <2>3, <2>5, <2>6, <2>7
<1> QED
  BY <1>5, <1>6, <1>7, <1>8

(* Where nothing is asked of the packet. *)
LEMMA PlainFits ==
    ASSUME PoolIInv, NEW t \in Thread,
           \/ \E c \in Pc : Goto(t, c) /\ c \in Plain
           \/ Return(t)
           \/ UNCHANGED op /\ op[t].pc \in Plain
    PROVE  Fits(t)'
<1>1. CASE \E c \in Pc : Goto(t, c) /\ c \in Plain
  <2>1. PICK c \in Pc : Goto(t, c) /\ c \in Plain
    BY <1>1
  <2>2. PICK o \in Op : /\ op' = [op EXCEPT ![t] = o] /\ op'[t] = o
                     /\ o.pc = c /\ o.op = op[t].op /\ o.type = op[t].type /\ o.src = op[t].src /\ o.dst = op[t].dst
                     /\ \A v \in Var : o.src = v \/ o.dst = v => Works(t, v) \/ Free(v)
    BY <2>1, GotoFacts
  <2> QED
    BY <2>1, <2>2 DEF Plain, Fits
<1>2. CASE Return(t)
  BY <1>2, ReturnFacts, IdleOp DEF Fits
<1>3. CASE UNCHANGED op /\ op[t].pc \in Plain
  BY <1>3 DEF Plain, Fits
<1> QED
  BY <1>1, <1>2, <1>3

LEMMA FifoCalm ==
    ASSUME ExactFactories, FifoIInv, NEW t \in Thread,
           ReuseEmpty(t) \/ ReuseDangling(t) \/ ReuseSkip(t) \/ CreateFails(t)
    PROVE  Sized' /\ Entries' /\ Fits(t)'
<1>1. op[t].pc \in {"reuse", "factory", "create", "fallback_create"} /\ pool' = pool /\ PoolIInv /\ op[t].type \in Type
  BY DEF ReuseEmpty, ReuseDangling, ReuseSkip, CreateFails, Popping, Reuse, FifoIInv, PoolIInv, OpsOK, Phase, HasType
<1>2. Sized'
  BY <1>1 DEF FifoIInv, Sized
<1>3. CASE ReuseEmpty(t) \/ CreateFails(t)
  <2>1. Entries'
    BY <1>1, <1>3 DEF ReuseEmpty, CreateFails, FifoIInv, Entries
  <2>2. CASE Goto(t, "construct") /\ op[t].type \notin NoFactory
    <3> DEFINE c == "construct"
    <3>1. c \in Pc
      BY DEF Pc
    <3>2. PICK o \in Op : /\ op' = [op EXCEPT ![t] = o] /\ op'[t] = o
                     /\ o.pc = c /\ o.op = op[t].op /\ o.type = op[t].type /\ o.src = op[t].src /\ o.dst = op[t].dst
                     /\ \A v \in Var : o.src = v \/ o.dst = v => Works(t, v) \/ Free(v)
      BY <1>1, <2>2, <3>1, GotoFacts
    <3>3. Canon[op[t].type] = op[t].type
      BY <1>1, <2>2 DEF ExactFactories
    <3>4. Fits(t)'
      BY <3>2, <3>3 DEF Fits
    <3> QED
      BY <1>2, <2>1, <3>4
  <2>3. CASE Return(t) \/ \E c \in Pc : Goto(t, c) /\ c \in Plain
    BY <1>1, <1>2, <2>1, <2>3, PlainFits
  <2> QED
    BY <1>3, <2>2, <2>3 DEF ReuseEmpty, CreateFails, Constructor, Failed, Plain, Pc, Reuse
<1>4. CASE ReuseDangling(t)
  <2>1. Popping(t) /\ ~Valid(Popped(t))
    BY <1>4 DEF ReuseDangling
  <2>2. Popped(t) \in Handle /\ pool[Popped(t)] # Null
    BY <1>1, <2>1, PopFacts DEF FifoIInv, Entries
  <2> QED
    BY <1>1, <2>1, <2>2 DEF Valid, PoolIInv, PoolOK, Placed
<1>5. CASE ReuseSkip(t)
  <2> SUFFICES ASSUME NEW h, h = Popped(t) PROVE Sized' /\ Entries' /\ Fits(t)'
    OBVIOUS
  <2> DEFINE P == Pop(t)
  <2>1. /\ Popping(t) /\ Valid(h) /\ UNCHANGED op
        /\ pool[h].users > 0 \/ pool[h].desc # op[t].type
        /\ fifo' = IF pool[h].users = 0 THEN Save(P, h, pool[h].desc) ELSE P
    BY <1>5 DEF ReuseSkip
  <2>2. h \in Handle /\ pool[h] \in Header /\ pool[h] # Null /\ h \in Elems(fifo[op[t].type])
    BY <1>1, <2>1, PopFacts DEF Valid, PoolIInv, PoolOK, PoolTypes
  <2>3. pool[h].size \notin ImpureSizes
    BY <1>1, <2>1, <2>2 DEF FifoIInv, Entries
  <2>4. /\ P \in [Type -> Seq(Handle)] /\ (\A y \in Type : NoRepeat(P[y]))
        /\ \A y \in Type : Elems(P[y]) \subseteq Elems(fifo[y])
    BY <1>1, <2>1, PopFacts
  <2> HIDE DEF P
  <2>5. \A y \in Type : Elems(fifo'[y]) \subseteq Elems(fifo[y]) \cup {h}
    <3>1. CASE pool[h].users = 0
      <4> DEFINE G == Save(P, h, pool[h].desc)
      <4>1. pool[h].desc \in Type /\ fifo' = G
        BY <1>1, <2>1, <2>2, <3>1 DEF PoolIInv, PoolOK, Described, Header
      <4>2. JoinsOne(P, G, h, pool[h].desc)
        BY <2>2, <2>4, <4>1, SaveFacts
      <4> HIDE DEF G
      <4> QED
        BY <2>4, <4>1, <4>2 DEF JoinsOne
    <3>2. CASE pool[h].users # 0
      BY <2>1, <2>4, <3>2
    <3> QED
      BY <3>1, <3>2
  <2>6. Entries'
    <3> SUFFICES ASSUME NEW y \in Type, NEW g \in Elems(fifo'[y])
                 PROVE  /\ pool[g] # Null
                        /\ pool[g].size \in ImpureSizes => pool[g].users = 0 /\ pool[g].desc = y
      BY <1>1 DEF Entries
    <3> QED
      BY <2>2, <2>3, <2>5 DEF FifoIInv, Entries
  <2>7. Fits(t)'
    BY <1>1, <2>1, PlainFits DEF Plain, Popping, Reuse
  <2> QED
    BY <1>2, <2>6, <2>7
<1> QED
  BY <1>3, <1>4, <1>5

LEMMA FifoFill ==
    ASSUME FifoIInv, NEW t \in Thread, InitHeader(t) \/ CloneHeader(t) \/ CopyData(t)
    PROVE  Sized' /\ Entries' /\ Fits(t)'
<1> SUFFICES ASSUME NEW h, h = ref[t] PROVE Sized' /\ Entries' /\ Fits(t)'
  OBVIOUS
<1>1. op[t].pc \in {"init", "fallback_init", "copy"} /\ fifo' = fifo /\ PoolIInv
  BY DEF InitHeader, CloneHeader, CopyData, FifoIInv
<1>2. h \in Handle /\ pool[h] \in Header /\ pool[h] # Null /\ pool[h].users = 1 /\ pool[h].users # 0 /\ op[t].type \in Type
      /\ pool \in [Handle -> Header \union {Null}]
  BY <1>1, TakenFacts
<1>3. Fits(t)'
  <2>1. CASE InitHeader(t)
    <3>1. Canon[op[t].type] = op[t].type
      BY <2>1 DEF FifoIInv, Fits, InitHeader
    <3> QED
      BY <1>1, <2>1, <3>1, PlainFits DEF InitHeader, Obtained, Plain, Pc
  <2>2. CASE CloneHeader(t) \/ CopyData(t)
    BY <1>1, <2>2, PlainFits DEF CloneHeader, CopyData, Obtained, Plain, Pc
  <2> QED
    BY <2>1, <2>2
<1>4. CASE InitHeader(t)
  <2> DEFINE x == [pool[h] EXCEPT !.desc = Canon[op[t].type]]
  <2>1. Canon[op[t].type] = op[t].type /\ pool[h].size = SizeOf[op[t].type]
    BY <1>4 DEF FifoIInv, Fits, InitHeader
  <2>2. x \in Header /\ x.size = pool[h].size /\ x.desc = op[t].type
        /\ (x.desc # NoDesc => x.size = SizeOf[x.desc])
    BY <1>2, <2>1 DEF Header
  <2>3. pool' = [pool EXCEPT ![h] = x]
    BY <1>2, <1>4 DEF InitHeader
  <2> HIDE DEF x
  <2>4. Sized' /\ Entries'
    BY <1>1, <1>2, <2>1, <2>2, <2>3, EntryChanged
  <2> QED
    BY <1>3, <2>4
<1>5. CASE CloneHeader(t)
  <2> DEFINE s == pool[ref[op[t].src]]
             x == [s EXCEPT !.data = pool[h].data]
  <2>1. op[t].pc = "fallback_init" /\ pool' = [pool EXCEPT ![h] = x]
    BY <1>5 DEF CloneHeader
  <2>2. op[t].src \in Var /\ ref[op[t].src] # Invalid /\ s.desc = op[t].type
    BY <1>1, <2>1 DEF PoolIInv, OpsOK, Phase, HasHandle, HasType, HasSource, HasTarget, Empty, Taken, Named, ByHand, Making, Releasing,
             Constructors, Copiers
  <2>3. s \in Header /\ s # Null /\ ref[op[t].src] \in Handle
    BY <1>1, <2>2, VarFacts
  <2>4. s.size = SizeOf[op[t].type] /\ pool[h].size = SizeOf[op[t].type]
    BY <1>2, <2>1, <2>2, <2>3, NoneAssumption DEF FifoIInv, Sized, Fits
  <2>5. x \in Header /\ x.size = s.size /\ x.desc = op[t].type
        /\ x.size = pool[h].size /\ (x.desc # NoDesc => x.size = SizeOf[x.desc])
    BY <1>2, <2>2, <2>3, <2>4 DEF Header
  <2> HIDE DEF x, s
  <2>6. Sized' /\ Entries'
    BY <1>1, <1>2, <2>1, <2>4, <2>5, EntryChanged
  <2> QED
    BY <1>3, <2>6
<1>6. CASE CopyData(t)
  <2> DEFINE x == IF op[t].type \in SwappedCopy THEN pool[h] ELSE [pool[h] EXCEPT !.data = pool[ref[op[t].src]].data]
  <2>1. op[t].src \in Var /\ ref[op[t].src] # Invalid
    BY <1>1, <1>6 DEF CopyData, PoolIInv, OpsOK, Phase, HasHandle, HasType, HasSource, HasTarget, Empty, Taken, Named, ByHand, Making, Releasing,
             Constructors, Copiers
  <2>2. pool[ref[op[t].src]] \in Header
    BY <1>1, <2>1, VarFacts
  <2>3. x \in Header /\ x.size = pool[h].size /\ x.desc = pool[h].desc
    BY <1>2, <2>2 DEF Header
  <2>4. pool' = [pool EXCEPT ![h] = x]
    BY <1>2, <1>6 DEF CopyData
  <2>5. x.desc # NoDesc => x.size = SizeOf[x.desc]
    BY <1>2, <2>3 DEF FifoIInv, Sized
  <2> HIDE DEF x
  <2>6. Sized' /\ Entries'
    BY <1>1, <1>2, <2>3, <2>4, <2>5, EntryChanged
  <2> QED
    BY <1>3, <2>6
<1> QED
  BY <1>4, <1>5, <1>6

(* A user gives a packet up. *)
LEMMA EntryLeft ==
    ASSUME FifoIInv, NEW t \in Thread, NEW v \in Var, ref[v] # Invalid,
           \/ pool[ref[v]].users > 1 /\ Decrement(t, v)
           \/ pool[ref[v]].users <= 1 /\ Retire(t, v)
    PROVE  Sized' /\ Entries'
<1> SUFFICES ASSUME NEW h, h = ref[v] PROVE Sized' /\ Entries'
  OBVIOUS
<1>1. h \in Handle /\ pool[h] \in Header /\ pool[h] # Null /\ pool[h].desc \in Type /\ pool[h].users \in Nat /\ PoolIInv
      /\ pool \in [Handle -> Header \union {Null}] /\ PoolOK
  BY VarFacts DEF FifoIInv, PoolIInv, PoolOK, PoolTypes
<1>2. pool[h].size = SizeOf[pool[h].desc]
  BY <1>1, NoneAssumption DEF FifoIInv, Sized
<1>3. CASE pool[h].users > 1 /\ Decrement(t, v)
  <2> DEFINE x == [pool[h] EXCEPT !.users = @ - 1]
  <2>1. x \in Header /\ x.size = pool[h].size /\ (x.desc # NoDesc => x.size = SizeOf[x.desc]) /\ pool[h].users # 0
    BY <1>1, <1>2, <1>3 DEF Header
  <2>2. pool' = [pool EXCEPT ![h] = x] /\ fifo' = fifo
    BY <1>1, <1>3 DEF Decrement
  <2> HIDE DEF x
  <2> QED
    BY <1>1, <1>2, <1>3, <2>1, <2>2, EntryChanged
<1>4. CASE pool[h].users <= 1 /\ Retire(t, v)
  <2> DEFINE x == [pool[h] EXCEPT !.users = 0]
             G == Save(fifo, h, pool[h].desc)
  <2>1. x \in Header /\ x.size = pool[h].size /\ x.desc = pool[h].desc /\ x.users = 0 /\ x # Null
    BY <1>1, NullAssumption DEF Header
  <2>2. pool' = [pool EXCEPT ![h] = x] /\ fifo' = G
    BY <1>1, <1>4 DEF Retire
  <2>3. pool[h].users # 0
    <3>1. v \in Ref /\ Alone(v)
      BY <1>1, <1>4, OneAlone, HandleFacts
    <3> QED
      BY <1>1, <3>1, AloneOne
  <2>4. pool'[h] = x /\ \A g \in Handle \ {h} : pool'[g] = pool[g]
    BY <1>1, <2>2
  <2> HIDE DEF x
  <2>5. \A y \in Type : \A g \in Elems(G[y]) : g \in Elems(fifo[y]) \/ (g = h /\ y = pool[h].desc)
    <3>1. fifo \in [Type -> Seq(Handle)] /\ \A y \in Type : NoRepeat(fifo[y])
      BY <1>1 DEF PoolOK, PoolTypes, FifoOnce
    <3>2. JoinsOne(fifo, G, h, pool[h].desc)
      BY <1>1, <3>1, SaveFacts
    <3> HIDE DEF G
    <3> QED
      BY <3>2 DEF JoinsOne
  <2> HIDE DEF G
  <2>6. Sized'
    BY <1>2, <2>1, <2>4 DEF FifoIInv, Sized
  <2>7. Entries'
    <3> SUFFICES ASSUME NEW y \in Type, NEW g \in Elems(fifo'[y])
                 PROVE  /\ pool'[g] # Null
                        /\ pool'[g].size \in ImpureSizes => pool'[g].users = 0 /\ pool'[g].desc = y
      BY DEF Entries
    <3>1. CASE g = h
      BY <1>1, <2>1, <2>2, <2>3, <2>4, <2>5, <3>1 DEF FifoIInv, Entries
    <3>2. CASE g # h
      <4>1. g \in Elems(fifo[y]) /\ g \in Handle
        BY <1>1, <2>2, <2>5, <3>2, ElemsHandles
      <4> QED
        BY <2>4, <3>2, <4>1 DEF FifoIInv, Entries
    <3> QED
      BY <3>1, <3>2
  <2> QED
    BY <2>6, <2>7
<1> QED
  BY <1>3, <1>4

LEMMA FifoRelease ==
    ASSUME FifoIInv, NEW t \in Thread, ReleaseOld(t) \/ SleepDone(t) \/ CleanupDone(t)
    PROVE  Sized' /\ Entries' /\ Fits(t)'
<1> SUFFICES ASSUME NEW v, v = op[t].src PROVE Sized' /\ Entries' /\ Fits(t)'
  OBVIOUS
<1>1. PoolIInv /\ v \in Var /\ ref[v] # Invalid /\ (op[t].pc # "release" => Alone(v)) /\ v \in Ref
  BY HandleFacts DEF ReleaseOld, SleepDone, CleanupDone, FifoIInv, PoolIInv, OpsOK, Phase, HasHandle, HasType, HasSource, HasTarget, Empty, Taken, Named, ByHand, Making, Releasing,
             Constructors, Copiers
<1>2. Fits(t)'
  BY <1>1, PlainFits DEF ReleaseOld, SleepDone, CleanupDone, Continue, Plain, Pc
<1>3. CASE \/ pool[ref[v]].users > 1 /\ Decrement(t, v)
           \/ pool[ref[v]].users <= 1 /\ Retire(t, v)
  BY <1>1, <1>2, <1>3, EntryLeft
<1>4. CASE UNCHANGED <<pool, fifo>>
  BY <1>2, <1>4 DEF FifoIInv, Sized, Entries
<1>5. CASE ReleaseOld(t)
  BY <1>3, <1>4, <1>5 DEF ReleaseOld
<1>6. CASE SleepDone(t)
  <2>1. pool[ref[v]].users <= 1
    BY <1>1, <1>6, AloneOne DEF PoolIInv, SleepDone
  <2> QED
    BY <1>3, <1>6, <2>1 DEF SleepDone
<1>7. CASE CleanupDone(t)
  <2> SUFFICES ASSUME NEW h, h = ref[v] PROVE Sized' /\ Entries'
    BY <1>2
  <2>1. op[t].pc = "cleanup" /\ pool' = [pool EXCEPT ![h] = Null] /\ fifo' = fifo
    BY <1>7 DEF CleanupDone
  <2>2. h \in Handle /\ pool[h] \in Header /\ pool[h] # Null /\ pool[h].users = 1 /\ pool[h].desc \in Type
    BY <1>1, <2>1, VarFacts, AloneOne DEF PoolIInv
  <2>3. pool[h].desc \in Impure
    BY <2>1 DEF FifoIInv, Fits
  <2>4. pool[h].size \in ImpureSizes
    BY <2>2, <2>3, NoneAssumption DEF FifoIInv, Sized, ImpureSizes
  <2>5. \A y \in Type : h \notin Elems(fifo[y])
    BY <2>2, <2>4 DEF FifoIInv, Entries
  <2>6. pool'[h] = Null /\ \A g \in Handle \ {h} : pool'[g] = pool[g]
    BY <1>1, <2>1, <2>2 DEF PoolIInv, PoolOK, PoolTypes
  <2>7. Sized'
    BY <2>6 DEF FifoIInv, Sized
  <2>8. Entries'
    BY <1>1, <2>1, <2>5, <2>6, ElemsHandles DEF FifoIInv, Entries
  <2> QED
    BY <2>7, <2>8
<1> QED
  BY <1>5, <1>6, <1>7

LEMMA FifoStore ==
    ASSUME FifoIInv, NEW t \in Thread, StoreHandle(t) \/ DeleteInexact(t)
    PROVE  Sized' /\ Entries' /\ Fits(t)'
<1>1. ~DeleteInexact(t)
  BY DEF DeleteInexact, FifoIInv, Fits, PoolIInv, OpsOK, Phase, HasType
<1>2. UNCHANGED <<pool, fifo>> /\ Return(t)
  BY <1>1 DEF StoreHandle
<1>3. Fits(t)'
  BY <1>2, PlainFits DEF FifoIInv
<1> QED
  BY <1>2, <1>3 DEF FifoIInv, Sized, Entries

LEMMA FifoUser ==
    ASSUME FifoIInv, NEW t \in Thread, UserStep(t)
    PROVE  Sized' /\ Entries' /\ Fits(t)'
<1>1. PICK v \in Var :
        \/ pdp_packet_replace_with_writable(t, v) \/ pdp_packet_mark_unused(t, v) \/ pdp_packet_delete(t, v)
        \/ \E d \in Data : Write(t, v, d)
        \/ \E type \in Type : pdp_packet_new_type(t, type, v) \/ pdp_factory_newpacket(t, type, v)
        \/ \E w \in Var \ {v} : \/ pdp_packet_copy_ro(t, v, w) \/ pdp_packet_clone_rw(t, v, w)
                                \/ pdp_packet_copy_rw(t, v, w)
  BY DEF UserStep
<1>2. op[t].pc = "idle"
  BY <1>1 DEF pdp_packet_replace_with_writable, pdp_packet_mark_unused, pdp_packet_delete, Write, pdp_packet_new_type,
     pdp_factory_newpacket, pdp_packet_copy_ro, pdp_packet_clone_rw, pdp_packet_copy_rw, Holds, Vacant
<1>3. PoolIInv
  BY DEF FifoIInv
<1>4. ASSUME NEW name, NEW pc, NEW type, NEW src, NEW dst, Start(t, name, pc, type, src, dst), UNCHANGED <<pool, fifo, ref>>,
             \/ pc \in Plain
             \/ pc = "construct" /\ Canon[type] = type
             \/ pc = "cleanup" /\ pool[ref[src]].desc \in Impure
      PROVE  Sized' /\ Entries' /\ Fits(t)'
  <2> DEFINE o == [pc |-> pc, op |-> name, type |-> type, src |-> src, dst |-> dst]
  <2>1. op'[t] = o
    BY <1>3, <1>4 DEF Start, PoolIInv, OpsOK
  <2>2. Fits(t)'
    BY <1>4, <2>1 DEF Fits, Plain
  <2> QED
    BY <1>4, <2>2 DEF FifoIInv, Sized, Entries
<1>5. CASE pdp_packet_replace_with_writable(t, v)
  <2>1. UNCHANGED <<pool, fifo, ref>>
        /\ \/ Start(t, "replace", "release", pool[ref[v]].desc, v, v)
           \/ Start(t, "replace", "reuse", pool[ref[v]].desc, v, v)
    BY <1>5 DEF pdp_packet_replace_with_writable
  <2> QED
    BY <1>4, <2>1 DEF Plain
<1>6. CASE pdp_packet_mark_unused(t, v)
  <2>1. ref[v] # Invalid
    BY <1>6, HandleFacts DEF pdp_packet_mark_unused, Holds, Valid
  <2>2. CASE (\/ pool[ref[v]].users > 1 /\ Decrement(t, v)
              \/ pool[ref[v]].users <= 1 /\ Retire(t, v)) /\ UNCHANGED op
    <3>1. Fits(t)'
      BY <1>2, <1>3, <2>2, PlainFits DEF Plain
    <3> QED
      BY <2>1, <2>2, <3>1, EntryLeft
  <2>3. CASE Start(t, "mark_unused", "sleep", pool[ref[v]].desc, v, None) /\ UNCHANGED <<pool, pool_size, fifo, ref, lock>>
    BY <1>4, <2>3 DEF Plain
  <2> QED
    BY <1>6, <2>2, <2>3 DEF pdp_packet_mark_unused
<1>7. CASE pdp_packet_delete(t, v)
  <2>1. UNCHANGED <<pool, fifo, ref>> /\ Start(t, "delete", "cleanup", pool[ref[v]].desc, v, None)
        /\ pool[ref[v]].desc \in Impure
    BY <1>7 DEF pdp_packet_delete
  <2> QED
    BY <1>4, <2>1
<1>8. CASE \E type \in Type : pdp_packet_new_type(t, type, v) \/ pdp_factory_newpacket(t, type, v)
  <2>1. PICK type \in Type : UNCHANGED <<pool, fifo, ref>>
            /\ \/ Start(t, "new", "construct", type, None, v) /\ Canon[type] = type
               \/ Start(t, "factory", "factory", type, None, v)
    BY <1>8 DEF pdp_packet_new_type, pdp_factory_newpacket
  <2> QED
    BY <1>4, <2>1 DEF Plain
<1>9. CASE \E w \in Var \ {v} : pdp_packet_clone_rw(t, v, w) \/ pdp_packet_copy_rw(t, v, w)
  <2>1. PICK w \in Var \ {v} : UNCHANGED <<pool, fifo, ref>>
            /\ \/ Start(t, "clone", "reuse", pool[ref[v]].desc, v, w)
               \/ Start(t, "copy_rw", "reuse", pool[ref[v]].desc, v, w)
    BY <1>9 DEF pdp_packet_clone_rw, pdp_packet_copy_rw
  <2> QED
    BY <1>4, <2>1 DEF Plain
<1>10. CASE (\E d \in Data : Write(t, v, d)) \/ (\E w \in Var \ {v} : pdp_packet_copy_ro(t, v, w))
  <2> SUFFICES ASSUME NEW h, h = ref[v] PROVE Sized' /\ Entries' /\ Fits(t)'
    OBVIOUS
  <2>1. h # Invalid /\ op' = op /\ fifo' = fifo
        /\ \/ \E d \in Data : pool' = [pool EXCEPT ![h].data = d]
           \/ pool' = [pool EXCEPT ![h].users = @ + 1]
    BY <1>10, HandleFacts DEF Write, pdp_packet_copy_ro, Holds, Valid
  <2>2. h \in Handle /\ pool[h] \in Header /\ pool[h] # Null /\ pool[h].desc \in Type /\ pool[h].users \in Nat
        /\ pool \in [Handle -> Header \union {Null}]
    BY <1>3, <2>1, VarFacts DEF PoolIInv, PoolOK, PoolTypes
  <2>3. pool[h].users # 0
    BY <1>3, <2>2, Unreferenced, HandleFacts DEF PoolIInv
  <2>4. pool[h].size = SizeOf[pool[h].desc]
    BY <2>2, NoneAssumption DEF FifoIInv, Sized
  <2>5. \E x \in Header : /\ x.size = pool[h].size /\ x.desc = pool[h].desc /\ pool' = [pool EXCEPT ![h] = x]
    <3>1. CASE \E d \in Data : pool' = [pool EXCEPT ![h].data = d]
      <4>1. PICK d \in Data : pool' = [pool EXCEPT ![h].data = d]
        BY <3>1
      <4> DEFINE x == [pool[h] EXCEPT !.data = d]
      <4>2. x \in Header /\ x.size = pool[h].size /\ x.desc = pool[h].desc
        BY <2>2 DEF Header
      <4>3. pool' = [pool EXCEPT ![h] = x]
        BY <2>2, <4>1
      <4> HIDE DEF x
      <4> QED
        BY <4>2, <4>3
    <3>2. CASE pool' = [pool EXCEPT ![h].users = @ + 1]
      <4> DEFINE x == [pool[h] EXCEPT !.users = @ + 1]
      <4>1. x \in Header /\ x.size = pool[h].size /\ x.desc = pool[h].desc
        BY <2>2 DEF Header
      <4>2. pool' = [pool EXCEPT ![h] = x]
        BY <2>2, <3>2
      <4> HIDE DEF x
      <4> QED
        BY <4>1, <4>2
    <3> QED
      BY <2>1, <3>1, <3>2
  <2>6. PICK x \in Header : /\ x.size = pool[h].size /\ x.desc = pool[h].desc /\ pool' = [pool EXCEPT ![h] = x]
    BY <2>5
  <2>7. Sized' /\ Entries'
    BY <2>1, <2>2, <2>3, <2>4, <2>6, EntryChanged
  <2>8. Fits(t)'
    BY <1>2, <1>3, <2>1, PlainFits DEF Plain
  <2> QED
    BY <2>7, <2>8
<1> QED
  BY <1>1, <1>5, <1>6, <1>7, <1>8, <1>9, <1>10

LEMMA FifoNext ==
    ASSUME SharedExact, ExactFactories, SizesApart, FifoIInv, [Next]_vars
    PROVE  FifoIInv'
<1>1. PoolIInv'
  BY PoolNext DEF FifoIInv
<1>2. CASE UNCHANGED vars
  BY <1>1, <1>2 DEF FifoIInv, Sized, Entries, Fits, vars
<1>3. ASSUME NEW t \in Thread, UserStep(t) \/ PoolStep(t)
      PROVE  FifoIInv'
  <2>1. Sized' /\ Entries' /\ Fits(t)'
    BY <1>3, FifoUser, FifoTake, FifoCalm, FifoFill, FifoRelease, FifoStore DEF PoolStep
  <2>2. StepKind(t)
    BY <1>3, Kinds DEF FifoIInv
  <2>3. ASSUME NEW u \in Thread \ {t}
        PROVE  Fits(u)'
    <3>1. /\ op'[u] = op[u] /\ ref'[u] = ref[u] /\ (ref[u] # Invalid => Same(ref[u]))
          /\ \A v \in Var : Works(u, v) => ref'[v] = ref[v] /\ (ref[v] # Invalid => Same(ref[v]))
      BY <2>2, Undisturbed DEF FifoIInv
    <3>2. op[u].pc \in {"init", "fallback_init"} => ref[u] # Invalid
      BY DEF FifoIInv, PoolIInv, OpsOK, Phase, HasHandle, Taken
    <3>3. op[u].pc = "cleanup" => op[u].src \in Var /\ ref[op[u].src] # Invalid /\ Works(u, op[u].src)
      BY DEF FifoIInv, PoolIInv, OpsOK, Phase, HasSource, Releasing, Works
    <3>4. op[u].pc = "cleanup" => ref'[op[u].src] = ref[op[u].src] /\ Same(ref[op[u].src])
      BY <3>1, <3>3
    <3> QED
      BY <3>1, <3>2, <3>4 DEF Fits, Same, FifoIInv
  <2> QED
    BY <1>1, <2>1, <2>3 DEF FifoIInv
<1> QED
  BY <1>2, <1>3 DEF Next

(* A sequence without repetitions has as many elements as it is long. *)
LEMMA OnceCounted ==
    ASSUME NEW S, NEW s \in Seq(S), NoRepeat(s)
    PROVE  Cardinality(Elems(s)) = Len(s)
<1> DEFINE f == [i \in 1 .. Len(s) |-> s[i]]
<1>1. Len(s) \in Nat /\ DOMAIN s = 1 .. Len(s)
  OBVIOUS
<1>2. f \in [1 .. Len(s) -> Elems(s)] /\ \A e \in Elems(s) : \E i \in 1 .. Len(s) : f[i] = e
  BY <1>1 DEF Elems
<1>3. \A i, j \in 1 .. Len(s) : f[i] = f[j] => i = j
  BY <1>1 DEF NoRepeat
<1>4. f \in Injection(1 .. Len(s), Elems(s)) /\ f \in Surjection(1 .. Len(s), Elems(s))
  BY <1>2, <1>3 DEF Injection, Surjection, IsInjective
<1>5. ExistsBijection(1 .. Len(s), Elems(s))
  BY <1>4 DEF ExistsBijection, Bijection
<1> QED
  BY <1>1, <1>5, FS_CountingElements

(* What pdp_packet_reuse, the factories, clone_rw, copy_rw and replace     *)
(* return is writable and of the type asked for, no unused packet is lost, *)
(* no fifo holds a handle twice, and no popped handle dangles, for any     *)
(* number of threads, as long as factories are exact and sizes apart.      *)
THEOREM FifoCorrect == SharedExact /\ ExactFactories /\ SizesApart => (Spec => []FifoSound)
<1> SUFFICES ASSUME SharedExact, ExactFactories, SizesApart PROVE Spec => []FifoSound
  OBVIOUS
<1>1. Init => FifoIInv
  <2> SUFFICES ASSUME Init PROVE FifoIInv
    OBVIOUS
  <2>1. PoolIInv
    BY PoolInit
  <2>2. Sized /\ Entries
    BY DEF Init, Sized, Entries, Elems
  <2>3. \A t \in Thread : Fits(t)
    BY IdleOp DEF Init, Fits
  <2> QED
    BY <2>1, <2>2, <2>3 DEF FifoIInv
<1>2. FifoIInv /\ [Next]_vars => FifoIInv'
  BY FifoNext
<1>3. FifoIInv => FifoSound
  <2> SUFFICES ASSUME FifoIInv PROVE FifoSound
    OBVIOUS
  <2>1. PoolIInv /\ PoolOK /\ OpsOK
    BY DEF FifoIInv, PoolIInv
  <2>2. TypeOK
    BY <2>1 DEF PoolOK, PoolTypes, OpsOK, TypeOK
  <2>3. ReturnsWritable
    <3> SUFFICES ASSUME NEW t \in Thread, ref[t] # Invalid PROVE pool[ref[t]].users = 1
      BY DEF ReturnsWritable
    <3> QED
      BY <2>1, ThreadAlone, AloneOne, HandleFacts
  <2>4. ReturnsType
    BY <2>1 DEF OpsOK, Phase, HasHandle, Named, ReturnsType
  <2>5. FifoNoDup
    BY <2>1, OnceCounted DEF PoolOK, PoolTypes, FifoOnce, FifoNoDup
  <2>6. NoDanglingPop
    BY DEF FifoIInv, Fits, NoDanglingPop
  <2> QED
    BY <2>1, <2>2, <2>3, <2>4, <2>5, <2>6 DEF FifoSound, PoolOK
<1> QED
  BY <1>1, <1>2, <1>3, PTL DEF Spec


=============================================================================
