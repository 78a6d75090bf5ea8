--------------------------- MODULE RingArithmetic ---------------------------
(***************************************************************************)
(* Facts about the indices of ring buffers: remainders by a size that is   *)
(* not known.  The ring of the processing queue masks its counters         *)
(* (puredata/pdp_queue.c), the one of pdp_netsend takes the index modulo   *)
(* its size (modules/generic/pdp_udp_send.c).  And the smallest element of *)
(* a set of indices, which is what a scan of a list or an array finds.     *)
(***************************************************************************)
EXTENDS Integers, WellFoundedInduction, TLAPS

(* A set of natural numbers has a smallest element. *)
LEMMA Smallest ==
    ASSUME NEW T \in SUBSET Nat, T # {}
    PROVE  \E x \in T : \A y \in T : x <= y
<1>1. IsWellFoundedOn(OpToRel(<, Nat), Nat)
  BY NatLessThanWellFounded
<1>2. PICK x \in T : \A y \in T : ~ (<<y, x>> \in OpToRel(<, Nat))
  BY <1>1, WFMin
<1>3. \A y \in T : ~ (y < x)
  BY <1>2 DEF OpToRel
<1> QED
  BY <1>3

(* What division and remainder mean. *)
LEMMA DivMod ==
    ASSUME NEW n \in Nat \ {0}, NEW x \in Int
    PROVE  x \div n \in Int /\ x % n \in 0 .. n - 1 /\ x = n * (x \div n) + (x % n)
OBVIOUS

(* The quotient and the remainder of a division are unique. *)
LEMMA DivisionUnique ==
    ASSUME NEW n \in Nat \ {0}, NEW k \in Int, NEW r \in 0 .. n - 1,
           NEW l \in Int, NEW s \in 0 .. n - 1, n * k + r = n * l + s
    PROVE  r = s
<1>1. n * (k - l) = s - r  OBVIOUS
<1>2. CASE k - l >= 1
  <2>1. n * (k - l) >= n  BY <1>2
  <2>. QED  BY <1>1, <2>1
<1>3. CASE l - k >= 1
  <2>1. n * (l - k) >= n  BY <1>3
  <2>. QED  BY <1>1, <2>1
<1>4. CASE k = l  BY <1>4
<1>. QED  BY <1>2, <1>3, <1>4

(* A remainder is recognised by any quotient that goes with it. *)
LEMMA ModUnique ==
    ASSUME NEW n \in Nat \ {0}, NEW x \in Int, NEW k \in Int, NEW r \in 0 .. n - 1,
           x = n * k + r
    PROVE  x % n = r
<1>1. x \div n \in Int /\ x % n \in 0 .. n - 1 /\ x = n * (x \div n) + (x % n)
  BY DivMod
<1>. QED  BY <1>1, DivisionUnique

(* Adding a multiple of n changes no remainder. *)
LEMMA ModShift ==
    ASSUME NEW n \in Nat \ {0}, NEW x \in Int, NEW k \in Int
    PROVE  (x + n * k) % n = x % n
<1> DEFINE d == x \div n  r == x % n
<1>1. d \in Int /\ r \in 0 .. n - 1 /\ x = n * d + r  BY DivMod
<1> HIDE DEF d, r
<1>2. x + n * k = n * (d + k) + r  BY <1>1
<1>3. d + k \in Int /\ x + n * k \in Int  BY <1>1
<1>4. (x + n * k) % n = r  BY <1>1, <1>2, <1>3, ModUnique
<1>. QED  BY <1>4 DEF r

(* Remainders can be taken early in a sum. *)
LEMMA ModAdd ==
    ASSUME NEW n \in Nat \ {0}, NEW x \in Int, NEW y \in Int
    PROVE  (x + y) % n = ((x % n) + y) % n
<1> DEFINE d == x \div n  r == x % n
<1>1. d \in Int /\ r \in 0 .. n - 1 /\ x = n * d + r  BY DivMod
<1> HIDE DEF d, r
<1>2. x + y = (r + y) + n * d  BY <1>1
<1>3. r + y \in Int  BY <1>1
<1>4. ((r + y) + n * d) % n = (r + y) % n  BY <1>1, <1>3, ModShift
<1>. QED  BY <1>2, <1>4 DEF r

(* Numbers less than n apart have different remainders. *)
LEMMA ModDistinct ==
    ASSUME NEW n \in Nat \ {0}, NEW x \in Int, NEW y \in Int,
           x < y, y - x < n
    PROVE  x % n # y % n
<1> SUFFICES ASSUME x % n = y % n PROVE FALSE  OBVIOUS
<1> DEFINE c == x \div n  d == y \div n  r == x % n
<1>1. c \in Int /\ r \in 0 .. n - 1 /\ x = n * c + r  BY DivMod
<1>2. d \in Int /\ y = n * d + r  BY DivMod
<1> HIDE DEF c, d, r
<1>3. y - x = n * (d - c)  BY <1>1, <1>2
<1>4. CASE d - c >= 1
  <2>1. n * (d - c) >= n  BY <1>1, <1>2, <1>4
  <2>. QED  BY <1>3, <2>1
<1>5. CASE c - d >= 0
  <2>1. n * (c - d) >= 0  BY <1>1, <1>2, <1>5
  <2>2. n * (d - c) = -(n * (c - d))  BY <1>1, <1>2
  <2>. QED  BY <1>1, <1>2, <1>3, <2>1, <2>2
<1>. QED  BY <1>1, <1>2, <1>4, <1>5

(* The successor of an index of the ring. *)
LEMMA ModStep ==
    ASSUME NEW n \in Nat \ {0}, NEW x \in Int
    PROVE  ((x % n) + 1) % n = (x + 1) % n
<1>1. 1 \in Int  OBVIOUS
<1>2. (x + 1) % n = ((x % n) + 1) % n  BY <1>1, ModAdd
<1>. QED  BY <1>2

=============================================================================
