-------------------------- MODULE ProcQueue_proofs --------------------------
(***************************************************************************)
(* Proofs about ProcQueue for every ring size, every width of int that is  *)
(* a multiple of it, and every set of clients.                             *)
(***************************************************************************)
EXTENDS ProcQueue, RingArithmetic, SequenceTheorems, TLAPS

-----------------------------------------------------------------------------
(* Arithmetic of the masked counters *)

LEMMA CounterFacts ==
    /\ Size \in Nat \ {0} /\ Width \in Nat \ {0}
    /\ Counter \subseteq Int /\ Index \subseteq Int
BY SizeAssumption, WidthAssumption DEF Counter, Index

(* Moving a counter, even across the wrap of the int, moves its slot by one. *)
LEMMA IncFacts ==
    ASSUME NEW a \in Counter
    PROVE  /\ Inc(a) \in Counter
           /\ \E k \in Int : Inc(a) = a + 1 + Size * k
<1>1. Inc(a) \in Counter  BY WidthAssumption DEF Inc, Counter
<1> DEFINE w == Width \div Size  d == (a + 1) \div Width
<1>2. w \in Int /\ Width = Size * w
  BY SizeAssumption, WidthAssumption, DivMod
<1>3. a + 1 \in Int  BY CounterFacts
<1>4. d \in Int /\ a + 1 = Width * d + Inc(a)
  BY <1>3, CounterFacts, DivMod DEF Inc
<1> HIDE DEF w, d
<1>5. Width * d = Size * (w * d)
  BY <1>2, <1>4, SizeAssumption, WidthAssumption
<1>6. -(w * d) \in Int  BY <1>2, <1>4
<1>7. Size * (-(w * d)) = -(Size * (w * d))  BY <1>2, <1>4, SizeAssumption
<1>8. Inc(a) = a + 1 + Size * (-(w * d))
  <2>1. Inc(a) \in Int /\ a \in Int  BY <1>1, CounterFacts
  <2>2. Size * (w * d) \in Int  BY <1>2, <1>4, SizeAssumption
  <2>. QED  BY <2>1, <2>2, <1>4, <1>5, <1>7
<1>. QED  BY <1>1, <1>6, <1>8

LEMMA DistRange ==
    ASSUME NEW a \in Int, NEW b \in Int
    PROVE  Dist(a, b) \in 0 .. Size - 1
<1>1. a - b \in Int  OBVIOUS
<1>. QED  BY <1>1, SizeAssumption, DivMod DEF Dist

(* A sum of an integer, an offset and a multiple of Size, masked. *)
LEMMA MaskedSum ==
    ASSUME NEW x \in Int, NEW m \in Int, NEW k \in Int
    PROVE  ((x + m) + Size * k) % Size = ((x % Size) + m) % Size
<1>1. Size \in Nat \ {0}  BY CounterFacts
<1>2. (x + m) % Size = ((x % Size) + m) % Size  BY <1>1, ModAdd
<1>3. x + m \in Int  OBVIOUS
<1>4. ((x + m) + Size * k) % Size = (x + m) % Size  BY <1>1, <1>3, ModShift
<1>. QED  BY <1>2, <1>4

LEMMA DistIncLeft ==
    ASSUME NEW a \in Counter, NEW b \in Counter
    PROVE  Dist(Inc(a), b) = IF Dist(a, b) = Size - 1 THEN 0 ELSE Dist(a, b) + 1
<1>1. PICK k \in Int : Inc(a) = a + 1 + Size * k  BY IncFacts
<1> DEFINE x == a - b
<1>2. a \in Int /\ b \in Int /\ x \in Int  BY CounterFacts
<1>3. Inc(a) - b = (x + 1) + Size * k
  <2>1. Size * k \in Int  BY SizeAssumption
  <2>. QED  BY <1>1, <1>2, <2>1
<1>4. Dist(a, b) = x % Size  BY DEF Dist
<1>5. Dist(Inc(a), b) = ((x + 1) + Size * k) % Size  BY <1>3 DEF Dist
<1> HIDE DEF x
<1>6. ((x + 1) + Size * k) % Size = ((x % Size) + 1) % Size  BY <1>2, MaskedSum
<1>7. Dist(a, b) \in 0 .. Size - 1  BY <1>2, DistRange
<1>. QED  BY <1>4, <1>5, <1>6, <1>7, SizeAssumption

LEMMA DistIncRight ==
    ASSUME NEW a \in Counter, NEW b \in Counter
    PROVE  Dist(a, Inc(b)) = IF Dist(a, b) = 0 THEN Size - 1 ELSE Dist(a, b) - 1
<1>1. PICK k \in Int : Inc(b) = b + 1 + Size * k  BY IncFacts
<1> DEFINE x == a - b  m == 0 - 1  l == 0 - k
<1>2. a \in Int /\ b \in Int /\ x \in Int /\ m \in Int /\ l \in Int  BY CounterFacts
<1>3. a - Inc(b) = (x + m) + Size * l
  <2>1. Size * k \in Int /\ Size * l = 0 - (Size * k)  BY SizeAssumption
  <2>. QED  BY <1>1, <1>2, <2>1
<1>4. Dist(a, b) = x % Size /\ m = 0 - 1  BY DEF Dist
<1>5. Dist(a, Inc(b)) = ((x + m) + Size * l) % Size  BY <1>3 DEF Dist
<1> HIDE DEF x, m, l
<1>6. ((x + m) + Size * l) % Size = ((x % Size) + m) % Size  BY <1>2, MaskedSum
<1>7. Dist(a, b) \in 0 .. Size - 1  BY <1>2, DistRange
<1>. QED  BY <1>4, <1>5, <1>6, <1>7, SizeAssumption

(* Distances add up around the ring. *)
LEMMA DistSum ==
    ASSUME NEW a \in Int, NEW b \in Int, NEW c \in Int
    PROVE  Dist(a, c) = (Dist(a, b) + Dist(b, c)) % Size
<1> DEFINE x == a - b  y == b - c
<1>1. x \in Int /\ y \in Int /\ a - c = x + y  OBVIOUS
<1>2. x % Size \in Int /\ y % Size \in Int  BY <1>1, CounterFacts, DivMod
<1>3. (x + y) % Size = (y + (x % Size)) % Size
  <2>1. (x + y) % Size = ((x % Size) + y) % Size  BY <1>1, CounterFacts, ModAdd
  <2>2. (x % Size) + y = y + (x % Size)  BY <1>1, <1>2
  <2>. QED  BY <2>1, <2>2
<1>4. (y + (x % Size)) % Size = ((y % Size) + (x % Size)) % Size
  BY <1>1, <1>2, CounterFacts, ModAdd
<1>5. (y % Size) + (x % Size) = (x % Size) + (y % Size)  BY <1>2
<1>. QED  BY <1>1, <1>3, <1>4, <1>5 DEF Dist

(* The three counters seen from tail: the distances the code masks out of   *)
(* them are differences of these.                                           *)
LEMMA RingDistances ==
    ASSUME NEW h \in Int, NEW c \in Int, NEW t \in Int, Dist(c, t) <= Dist(h, t)
    PROVE  /\ Dist(h, c) = Dist(h, t) - Dist(c, t)
           /\ Dist(c, h) = 0 <=> Dist(h, t) = Dist(c, t)
           /\ Dist(t, h) = 1 <=> Dist(h, t) = Size - 1
<1>1. /\ Dist(h, c) \in 0 .. Size - 1 /\ Dist(c, t) \in 0 .. Size - 1
      /\ Dist(h, t) \in 0 .. Size - 1 /\ Dist(c, h) \in 0 .. Size - 1
      /\ Dist(t, h) \in 0 .. Size - 1
  BY DistRange
<1>2. /\ Dist(h, t) = (Dist(h, c) + Dist(c, t)) % Size
      /\ Dist(h, h) = (Dist(h, c) + Dist(c, h)) % Size
      /\ Dist(h, h) = (Dist(h, t) + Dist(t, h)) % Size
  BY DistSum
<1>3. Dist(h, h) = 0  BY SizeAssumption DEF Dist
<1> DEFINE hc == Dist(h, c)  ct == Dist(c, t)  ht == Dist(h, t)  ch == Dist(c, h)
           th == Dist(t, h)
<1>4. /\ hc \in 0 .. Size - 1 /\ ct \in 0 .. Size - 1 /\ ht \in 0 .. Size - 1
      /\ ch \in 0 .. Size - 1 /\ th \in 0 .. Size - 1 /\ ct <= ht
      /\ ht = (hc + ct) % Size /\ 0 = (hc + ch) % Size /\ 0 = (ht + th) % Size
  BY <1>1, <1>2, <1>3
<1> HIDE DEF hc, ct, ht, ch, th
<1>5. hc = ht - ct /\ (ch = 0 <=> ht = ct) /\ (th = 1 <=> ht = Size - 1)
  BY <1>4, SizeAssumption
<1>. QED  BY <1>5 DEF hc, ct, ht, ch, th

-----------------------------------------------------------------------------
(* Type correctness *)

LEMMA TaskType ==
    ASSUME NEW o \in Owner \union {None}
    PROVE  Task(o) \in Item
BY DEF Task, Item

LEMMA MaskType ==
    ASSUME NEW n \in Int
    PROVE  Mask(n) \in Index
BY CounterFacts, DivMod DEF Mask, Index

LEMMA AddReturnType ==
    ASSUME TypeOK, AddReturn
    PROVE  pd' \in [pc : PdPc, op : PdOp, owner : Owner \union {None}]
<1> USE DEF TypeOK, PdPc, PdOp
<1>1. CASE pd.op \in LoopOps  BY <1>1 DEF AddReturn
<1>2. CASE pd.op \notin LoopOps  BY <1>2 DEF AddReturn, PdReturn, PdCall
<1>. QED  BY <1>1, <1>2

LEMMA AddType ==
    ASSUME TypeOK, NEW o \in Owner \union {None}, pdp_procqueue_add(o)
    PROVE  TypeOK'
<1> USE DEF TypeOK, ring, PdPc, PdOp, LoopOps, WaitPc
<1>1. Mask(head) \in Index  BY MaskType, CounterFacts
<1>2. Task(o) \in Item  BY TaskType
<1>3. CASE AddDirect(o)  BY <1>3 DEF AddDirect
<1>4. CASE AddFull(o)  BY <1>4, AddReturnType DEF AddFull
<1>5. CASE AddFill(o)  BY <1>1, <1>2, <1>5 DEF AddFill
<1>. QED  BY <1>3, <1>4, <1>5 DEF pdp_procqueue_add

LEMMA InvalidateType ==
    ASSUME TypeOK, NEW i
    PROVE  Invalidate(i) \in [Index -> Item]
BY DEF TypeOK, Invalidate, Item

LEMMA PdCallsType == TypeOK /\ PdCalls => TypeOK'
<1> SUFFICES ASSUME TypeOK, PdCalls PROVE TypeOK'  OBVIOUS
<1> USE DEF TypeOK, ring, PdPc, PdOp, LoopOps, WaitPc, PdCall, PdReturn, StartWait
<1>1. ASSUME NEW o \in Owner, New(o) PROVE TypeOK'  BY <1>1 DEF New
<1>2. ASSUME NEW o \in Owner, FreeAtOnce(o) PROVE TypeOK'  BY <1>2 DEF FreeAtOnce
<1>3. ASSUME NEW o \in Owner, FreeWait(o) PROVE TypeOK'  BY <1>3 DEF FreeWait
<1>4. ASSUME NEW o \in BaseOwner, pdp_base_bang(o) PROVE TypeOK'
  BY <1>4, AddType DEF pdp_base_bang, Owner
<1>5. ASSUME NEW o \in QtOwner, pdp_qt_bang(o) PROVE TypeOK'
  <2>1. CASE pdp_procqueue_add(o)  BY <2>1, AddType DEF Owner
  <2>2. CASE StartWait("qt_bang", o)  BY <2>2 DEF Owner
  <2>. QED  BY <1>5, <2>1, <2>2 DEF pdp_qt_bang
<1>6. ASSUME NEW o \in QtOwner, pdp_qt_close(o) PROVE TypeOK'
  BY <1>6 DEF pdp_qt_close, Owner
<1>7. ASSUME NEW o \in DpdOwner, pdp_dpd_base_queue_command(o) PROVE TypeOK'
  BY <1>7, AddType DEF pdp_dpd_base_queue_command, Owner
<1>8. ASSUME NEW op \in {"wait", "flush", "use_thread"}, Call(op) PROVE TypeOK'
  BY <1>8 DEF Call
<1>9. CASE ThreadOn  BY <1>9 DEF ThreadOn
<1>10. CASE pdp_procqueue_tick
  <2>1. pd' = pd \/ PdCall("tick", None, "cb")  BY <1>10 DEF pdp_procqueue_tick
  <2>2. pd' \in [pc : PdPc, op : PdOp, owner : Owner \union {None}]  BY <2>1
  <2>3. clock' \in BOOLEAN /\ UNCHANGED <<ring, use_thread, queue_id, alive, mutex, thread>>
    BY <1>10 DEF pdp_procqueue_tick
  <2>. QED  BY <2>2, <2>3
<1>. QED  BY <1>1, <1>2, <1>3, <1>4, <1>5, <1>6, <1>7, <1>8, <1>9, <1>10 DEF PdCalls

LEMMA PdStepsType == TypeOK /\ PdSteps => TypeOK'
<1> SUFFICES ASSUME TypeOK, PdSteps PROVE TypeOK'  OBVIOUS
<1> USE DEF TypeOK, ring, PdPc, PdOp, LoopOps, WaitPc, PdCall, PdReturn, PdGoto,
            WaitOver, CallbacksOver
<1>1. CASE AddHead  BY <1>1, IncFacts DEF AddHead
<1>2. CASE pdp_procqueue_signal_processor
  BY <1>2, AddReturnType DEF pdp_procqueue_signal_processor, ThreadPc
<1>3. CASE DirectDone  BY <1>3, AddReturnType DEF DirectDone
<1>4. CASE WaitLock  BY <1>4 DEF WaitLock
<1>5. CASE WaitTest  BY <1>5 DEF WaitTest
<1>6. CASE WaitBlock  BY <1>6 DEF WaitBlock
<1>7. CASE WaitDone  BY <1>7 DEF WaitDone
<1>8. CASE FreeFinish  BY <1>8, InvalidateType DEF FreeFinish
<1>9. CASE QtCloseFinish  BY <1>9, InvalidateType DEF QtCloseFinish
<1>10. CASE QtBangFinish  BY <1>10, InvalidateType DEF QtBangFinish
<1>11. CASE QtBangAdd  BY <1>11, AddType DEF QtBangAdd
<1>12. CASE Callback  BY <1>12, IncFacts DEF Callback
<1>13. CASE CallbackReturn  BY <1>13, IncFacts DEF CallbackReturn
<1>14. CASE TickDone  BY <1>14 DEF TickDone
<1>15. CASE FlushWaited  BY <1>15 DEF FlushWaited
<1>16. CASE FlushWaitAgain  BY <1>16 DEF FlushWaitAgain
<1>17. CASE FlushDone  BY <1>17 DEF FlushDone
<1>18. CASE ThreadOff  BY <1>18 DEF ThreadOff
<1>19. CASE ThreadOffDone  BY <1>19 DEF ThreadOffDone
<1>. QED  BY <1>1, <1>2, <1>3, <1>4, <1>5, <1>6, <1>7, <1>8, <1>9, <1>10, <1>11, <1>12,
             <1>13, <1>14, <1>15, <1>16, <1>17, <1>18, <1>19 DEF PdSteps

LEMMA ThreadStepsType == TypeOK /\ (ThreadSteps \/ SpuriousWakeup) => TypeOK'
<1> SUFFICES ASSUME TypeOK, ThreadSteps \/ SpuriousWakeup PROVE TypeOK'  OBVIOUS
<1> USE DEF TypeOK, ring, ThreadPc, ThreadGoto
<1>1. CASE ThreadCheck  BY <1>1 DEF ThreadCheck
<1>2. CASE ThreadSignal  BY <1>2 DEF ThreadSignal, PdPc, WaitPc
<1>3. CASE ThreadTest  BY <1>3 DEF ThreadTest
<1>4. CASE ThreadBlock  BY <1>4 DEF ThreadBlock
<1>5. CASE ThreadWake  BY <1>5 DEF ThreadWake
<1>6. CASE ThreadProcess
  <2>1. q[Mask(curr)] \in Item  BY MaskType, CounterFacts
  <2>. QED  BY <1>6, <2>1 DEF ThreadProcess, Item
<1>7. CASE ThreadAdvance  BY <1>7, IncFacts DEF ThreadAdvance
<1>8. CASE SpuriousWakeup  BY <1>8 DEF SpuriousWakeup, PdGoto, PdPc, WaitPc
<1>. QED  BY <1>1, <1>2, <1>3, <1>4, <1>5, <1>6, <1>7, <1>8 DEF ThreadSteps

LEMMA InitType == Init => TypeOK
BY SizeAssumption, WidthAssumption
   DEF Init, TypeOK, Index, Counter, Item, EmptyItem, NoId, None, PdPc, PdOp, WaitPc, LoopOps, ThreadPc

(* Every variable keeps its type, whatever the two threads do: pdp_queue.c's *)
(* counters stay ints and its ids stay ring indices or -1.                   *)
THEOREM TypeCorrect == Spec => []TypeOK
<1>1. TypeOK /\ [Next]_vars => TypeOK'
  <2> SUFFICES ASSUME TypeOK, [Next]_vars PROVE TypeOK'  OBVIOUS
  <2>1. CASE UNCHANGED vars  BY <2>1 DEF vars, TypeOK
  <2>. QED  BY <2>1, PdCallsType, PdStepsType, ThreadStepsType DEF Next
<1>. QED  BY <1>1, InitType, PTL DEF Spec

-----------------------------------------------------------------------------
(* The order of the ring, and one process method at a time *)

H == Dist(head, tail)
C == Dist(curr, tail)

(* The pd thread is inside a callback, or in an add that a callback made. *)
InCallback ==
    \/ pd.pc = "cb_run"
    \/ pd.op \in LoopOps /\ pd.pc \in {"add_head", "add_signal", "direct"}

PdShape ==
    /\ pd.pc = "idle" => pd.op = "none"
    /\ pd.pc = "qt_add" => pd.op = "qt_bang"

RingInv ==
    /\ C <= H
    /\ thread.pc \in {"process", "run"} => C < H
    /\ InCallback => C > 0

UseInv ==
    /\ pd.pc = "add_head" => H < Size - 1 /\ use_thread = TRUE
    /\ use_thread = FALSE => C = H
    /\ pd.pc = "direct" => use_thread = FALSE

(* RingOrder is not inductive: the room an add has checked and the mode it   *)
(* was made in are needed until head has moved.                              *)
QueueInv == TypeOK /\ PdShape /\ RingInv /\ UseInv

LEMMA RingTypes ==
    ASSUME TypeOK
    PROVE  /\ head \in Int /\ curr \in Int /\ tail \in Int
           /\ H \in 0 .. Size - 1 /\ C \in 0 .. Size - 1
BY DistRange, CounterFacts DEF TypeOK, H, C

(* What the code's masked tests say about H and C. *)
LEMMA RingTests ==
    ASSUME TypeOK, C <= H
    PROVE  /\ Dist(curr, head) = 0 <=> C = H
           /\ Dist(head, curr) = H - C
           /\ pdp_procqueue_full <=> H = Size - 1
BY RingTypes, RingDistances DEF H, C, pdp_procqueue_full

LEMMA AddHeadDistances ==
    ASSUME TypeOK, head' = Inc(head), UNCHANGED <<curr, tail>>, H < Size - 1
    PROVE  H' = H + 1 /\ C' = C
BY RingTypes, DistIncLeft DEF TypeOK, H, C

LEMMA AdvanceDistances ==
    ASSUME TypeOK, curr' = Inc(curr), UNCHANGED <<head, tail>>, C < Size - 1
    PROVE  H' = H /\ C' = C + 1
BY RingTypes, DistIncLeft DEF TypeOK, H, C

LEMMA TailDistances ==
    ASSUME TypeOK, tail' = Inc(tail), UNCHANGED <<head, curr>>, C > 0, C <= H
    PROVE  H' = H - 1 /\ C' = C - 1
BY RingTypes, DistIncRight DEF TypeOK, H, C

LEMMA SameDistances ==
    ASSUME UNCHANGED <<head, curr, tail>>
    PROVE  H' = H /\ C' = C
BY DEF H, C

LEMMA AddRing ==
    ASSUME QueueInv, NEW o, pdp_procqueue_add(o), pd.pc \in {"idle", "cb_run", "qt_add"}
    PROVE  (PdShape /\ RingInv /\ UseInv)'
<1> USE DEF QueueInv, PdShape, RingInv, UseInv, InCallback
<1>1. H' = H /\ C' = C /\ thread' = thread /\ use_thread' = use_thread
  BY SameDistances DEF pdp_procqueue_add, AddDirect, AddFull, AddFill, ring
<1>2. H \in 0 .. Size - 1 /\ C \in 0 .. Size - 1  BY RingTypes
<1>3. pd \in [pc : PdPc, op : PdOp, owner : Owner \union {None}] /\ use_thread \in BOOLEAN
  BY DEF TypeOK
<1>4. pd.pc # "cb_run" => pd.op \notin LoopOps  BY DEF LoopOps
<1>5. CASE AddDirect(o)
  <2>1. use_thread = FALSE /\ pd'.pc = "direct" /\ pd'.op = pd.op
    BY <1>3, <1>5 DEF AddDirect
  <2>. QED  BY <1>1, <1>2, <1>4, <2>1
<1>6. CASE AddFull(o)
  <2>1. CASE pd.op \in LoopOps
    <3>1. pd'.pc = "cb_run" /\ pd'.op = pd.op  BY <1>3, <1>6, <2>1 DEF AddFull, AddReturn
    <3>. QED  BY <1>1, <1>2, <1>4, <2>1, <3>1
  <2>2. CASE pd.op \notin LoopOps
    <3>1. pd'.pc = "idle" /\ pd'.op = "none"
      BY <1>6, <2>2 DEF AddFull, AddReturn, PdReturn, PdCall
    <3>. QED  BY <1>1, <1>2, <3>1 DEF LoopOps
  <2>. QED  BY <2>1, <2>2
<1>7. CASE AddFill(o)
  <2>1. use_thread = TRUE /\ ~pdp_procqueue_full /\ pd'.pc = "add_head" /\ pd'.op = pd.op
    BY <1>3, <1>7 DEF AddFill
  <2>2. H < Size - 1  BY <1>2, <2>1, RingTests, SizeAssumption
  <2>. QED  BY <1>1, <1>2, <1>4, <2>1, <2>2
<1>. QED  BY <1>5, <1>6, <1>7 DEF pdp_procqueue_add

(* Steps of the pd thread that move no counter and leave the mode alone. *)
LEMMA QuietPdStep ==
    ASSUME QueueInv, UNCHANGED <<head, curr, tail, use_thread, thread>>,
           NEW p \in PdPc, NEW op \in PdOp, pd'.pc = p, pd'.op = op,
           p \notin {"cb_run", "add_head", "add_signal", "direct"},
           p = "idle" => op = "none", p = "qt_add" => op = "qt_bang"
    PROVE  (PdShape /\ RingInv /\ UseInv)'
<1>1. H' = H /\ C' = C  BY SameDistances
<1>. QED  BY <1>1 DEF QueueInv, PdShape, RingInv, UseInv, InCallback

LEMMA PdCallsRing == QueueInv /\ PdCalls => (PdShape /\ RingInv /\ UseInv)'
<1> SUFFICES ASSUME QueueInv, PdCalls PROVE (PdShape /\ RingInv /\ UseInv)'  OBVIOUS
<1> DEFINE Goal == (PdShape /\ RingInv /\ UseInv)'
<1>0. TypeOK /\ (pd.pc = "idle" => pd.op = "none")  BY DEF QueueInv, PdShape
<1> USE DEF ring, PdPc, PdOp, LoopOps, WaitPc, PdCall, PdReturn, StartWait, Idle
<1>1. ASSUME NEW o \in Owner, New(o) \/ FreeAtOnce(o) PROVE Goal
  <2>1. UNCHANGED <<head, curr, tail, use_thread, thread, pd>> /\ pd.pc = "idle"
    BY <1>1 DEF New, FreeAtOnce
  <2>. QED  BY <1>0, <2>1, QuietPdStep
<1>2. ASSUME NEW op \in PdOp, NEW o, StartWait(op, o) PROVE Goal
  BY <1>2, QuietPdStep
<1>3. ASSUME NEW o \in Owner, FreeWait(o) PROVE Goal  BY <1>2, <1>3 DEF FreeWait
<1>4. ASSUME NEW o \in BaseOwner, pdp_base_bang(o) PROVE Goal
  BY <1>4, AddRing DEF pdp_base_bang, CanAdd
<1>5. ASSUME NEW o \in QtOwner, pdp_qt_bang(o) PROVE Goal
  <2>1. CASE pdp_procqueue_add(o)  BY <1>5, <2>1, AddRing DEF pdp_qt_bang
  <2>2. CASE StartWait("qt_bang", o)  BY <1>2, <2>2
  <2>. QED  BY <1>5, <2>1, <2>2 DEF pdp_qt_bang
<1>6. ASSUME NEW o \in QtOwner, pdp_qt_close(o) PROVE Goal  BY <1>2, <1>6 DEF pdp_qt_close
<1>7. ASSUME NEW o \in DpdOwner, pdp_dpd_base_queue_command(o) PROVE Goal
  BY <1>7, AddRing DEF pdp_dpd_base_queue_command, CanAdd
<1>8. ASSUME NEW op \in {"wait", "flush", "use_thread"}, Call(op) PROVE Goal
  BY <1>2, <1>8 DEF Call
<1>9. CASE ThreadOn
  <2>1. H' = H /\ C' = C  BY <1>9, SameDistances DEF ThreadOn
  <2>2. pd' = pd /\ thread' = thread /\ pd.pc = "idle" /\ use_thread' = TRUE
    BY <1>9 DEF ThreadOn
  <2>. QED  BY <2>1, <2>2 DEF QueueInv, PdShape, RingInv, UseInv, InCallback
<1>10. CASE pdp_procqueue_tick
  <2>1. /\ UNCHANGED <<head, curr, tail, use_thread, thread>> /\ pd.pc = "idle"
        /\ pd' = pd \/ PdCall("tick", None, "cb")
    BY <1>10 DEF pdp_procqueue_tick
  <2>2. CASE pd' = pd  BY <1>0, <2>1, <2>2, QuietPdStep
  <2>3. CASE PdCall("tick", None, "cb")  BY <2>1, <2>3, QuietPdStep
  <2>. QED  BY <2>1, <2>2, <2>3
<1>. QED  BY <1>1, <1>3, <1>4, <1>5, <1>6, <1>7, <1>8, <1>9, <1>10 DEF PdCalls

LEMMA PdStepsRing == QueueInv /\ PdSteps => (PdShape /\ RingInv /\ UseInv)'
<1> SUFFICES ASSUME QueueInv, PdSteps PROVE (PdShape /\ RingInv /\ UseInv)'  OBVIOUS
<1> DEFINE Goal == (PdShape /\ RingInv /\ UseInv)'
<1>0. /\ TypeOK /\ pd \in [pc : PdPc, op : PdOp, owner : Owner \union {None}]
      /\ H \in 0 .. Size - 1 /\ C \in 0 .. Size - 1 /\ C <= H
  BY RingTypes DEF QueueInv, TypeOK, RingInv
<1> USE DEF ring, PdPc, PdOp, WaitPc
<1>1. CASE AddHead
  <2>1. H < Size - 1 /\ use_thread = TRUE  BY <1>1 DEF AddHead, QueueInv, UseInv
  <2>2. H' = H + 1 /\ C' = C  BY <1>0, <1>1, <2>1, AddHeadDistances DEF AddHead
  <2>3. pd'.pc = "add_signal" /\ pd'.op = pd.op /\ UNCHANGED <<use_thread, thread>>
    BY <1>0, <1>1 DEF AddHead, PdGoto
  <2>. QED  BY <1>0, <1>1, <2>1, <2>2, <2>3
            DEF AddHead, QueueInv, PdShape, RingInv, UseInv, InCallback
<1>2. ASSUME AddReturn, pd.pc \in {"add_signal", "direct"},
             UNCHANGED <<head, curr, tail, use_thread>>,
             thread'.pc \in {"process", "run"} => thread'.pc = thread.pc
      PROVE  Goal
  <2>1. H' = H /\ C' = C  BY <1>2, SameDistances
  <2>2. CASE pd.op \in LoopOps
    <3>1. pd'.pc = "cb_run" /\ pd'.op = pd.op  BY <1>0, <1>2, <2>2 DEF AddReturn
    <3>. QED  BY <1>2, <2>1, <2>2, <3>1 DEF QueueInv, PdShape, RingInv, UseInv, InCallback
  <2>3. CASE pd.op \notin LoopOps
    <3>1. pd'.pc = "idle" /\ pd'.op = "none"
      BY <1>2, <2>3 DEF AddReturn, PdReturn, PdCall
    <3>. QED  BY <1>2, <2>1, <3>1
              DEF QueueInv, PdShape, RingInv, UseInv, InCallback, LoopOps
  <2>. QED  BY <2>2, <2>3
<1>3. CASE pdp_procqueue_signal_processor
  <2>1. thread' = thread \/ thread'.pc = "wake"
    <3>1. thread \in [pc : ThreadPc, owner : Owner \union {None}]  BY <1>0 DEF TypeOK
    <3>. QED  BY <1>3, <3>1 DEF pdp_procqueue_signal_processor
  <2>. QED  BY <1>2, <1>3, <2>1 DEF pdp_procqueue_signal_processor
<1>4. CASE DirectDone  BY <1>2, <1>4 DEF DirectDone
<1>5. CASE WaitLock \/ WaitTest \/ WaitBlock
  BY <1>0, <1>5, QuietPdStep DEF WaitLock, WaitTest, WaitBlock, PdGoto
<1>6. CASE WaitDone \/ FlushDone \/ FreeFinish \/ QtCloseFinish
  BY <1>6, QuietPdStep DEF WaitDone, FlushDone, FreeFinish, QtCloseFinish, PdReturn, PdCall
<1>7. CASE QtBangFinish
  BY <1>0, <1>7, QuietPdStep DEF QtBangFinish, WaitOver, PdGoto
<1>8. CASE QtBangAdd  BY <1>8, AddRing DEF QtBangAdd
<1>9. ASSUME tail' = Inc(tail), C > 0, pd'.pc = "cb",
             UNCHANGED <<head, curr, use_thread, thread>>
      PROVE  Goal
  <2>1. H' = H - 1 /\ C' = C - 1  BY <1>0, <1>9, TailDistances
  <2>. QED  BY <1>0, <1>9, <2>1 DEF QueueInv, PdShape, RingInv, UseInv, InCallback
<1>10. CASE Callback
  <2>1. C > 0  BY <1>0, <1>10 DEF Callback, C
  <2>2. CASE q[Mask(tail)].x_callback
    <3>1. pd'.pc = "cb_run" /\ UNCHANGED <<head, curr, tail, use_thread, thread>>
      BY <1>0, <1>10, <2>2 DEF Callback, PdGoto
    <3>2. H' = H /\ C' = C  BY <3>1, SameDistances
    <3>. QED  BY <2>1, <3>1, <3>2 DEF QueueInv, PdShape, RingInv, UseInv, InCallback
  <2>3. CASE ~q[Mask(tail)].x_callback
    <3>1. tail' = Inc(tail) /\ pd'.pc = "cb" /\ UNCHANGED <<head, curr, use_thread, thread>>
      BY <1>10, <2>3 DEF Callback
    <3>. QED  BY <1>9, <2>1, <3>1
  <2>. QED  BY <2>2, <2>3
<1>11. CASE CallbackReturn
  <2>1. C > 0  BY <1>11 DEF CallbackReturn, QueueInv, RingInv, InCallback
  <2>. QED  BY <1>0, <1>9, <1>11, <2>1 DEF CallbackReturn, PdGoto
<1>12. CASE TickDone \/ ThreadOffDone
  BY <1>12, QuietPdStep DEF TickDone, ThreadOffDone, PdReturn, PdCall
<1>13. CASE FlushWaited \/ FlushWaitAgain
  BY <1>0, <1>13, QuietPdStep DEF FlushWaited, FlushWaitAgain, PdGoto, PdCall
<1>14. CASE ThreadOff
  <2>1. C = H  BY <1>0, <1>14, RingTests DEF ThreadOff, WaitOver
  <2>2. H' = H /\ C' = C  BY <1>14, SameDistances DEF ThreadOff
  <2>3. use_thread' = FALSE /\ pd'.pc = "cb" /\ thread' = thread
    BY <1>0, <1>14 DEF ThreadOff, PdGoto
  <2>. QED  BY <2>1, <2>2, <2>3 DEF QueueInv, PdShape, RingInv, UseInv, InCallback
<1>. QED  BY <1>1, <1>3, <1>4, <1>5, <1>6, <1>7, <1>8, <1>10, <1>11, <1>12, <1>13, <1>14
          DEF PdSteps

LEMMA ThreadStepsRing ==
    QueueInv /\ (ThreadSteps \/ SpuriousWakeup) => (PdShape /\ RingInv /\ UseInv)'
<1> SUFFICES ASSUME QueueInv, ThreadSteps \/ SpuriousWakeup
             PROVE  (PdShape /\ RingInv /\ UseInv)'
  OBVIOUS
<1>0. /\ TypeOK /\ thread \in [pc : ThreadPc, owner : Owner \union {None}]
      /\ pd \in [pc : PdPc, op : PdOp, owner : Owner \union {None}]
      /\ H \in 0 .. Size - 1 /\ C \in 0 .. Size - 1 /\ C <= H
  BY RingTypes DEF QueueInv, TypeOK, RingInv
<1> USE DEF QueueInv, PdShape, RingInv, UseInv, InCallback, ring, ThreadGoto
<1>1. CASE ThreadCheck
  <2>1. H' = H /\ C' = C  BY <1>1, SameDistances DEF ThreadCheck
  <2>2. thread'.pc = "process" => C < H  BY <1>0, <1>1, RingTests DEF ThreadCheck
  <2>. QED  BY <1>0, <1>1, <2>1, <2>2 DEF ThreadCheck
<1>2. CASE ThreadSignal
  <2>1. H' = H /\ C' = C  BY <1>2, SameDistances DEF ThreadSignal
  <2>2. thread'.pc = "test" /\ pd'.op = pd.op /\ use_thread' = use_thread
        /\ (pd'.pc = pd.pc \/ pd'.pc = "wait_lock")
    BY <1>0, <1>2 DEF ThreadSignal
  <2>. QED  BY <2>1, <2>2
<1>3. CASE ThreadTest
  <2>1. H' = H /\ C' = C  BY <1>3, SameDistances DEF ThreadTest
  <2>2. thread'.pc \in {"process", "run"} => C < H
    BY <1>0, <1>3, RingTests DEF ThreadTest
  <2>. QED  BY <1>3, <2>1, <2>2 DEF ThreadTest
<1>4. CASE ThreadBlock \/ ThreadWake
  <2>1. H' = H /\ C' = C  BY <1>4, SameDistances DEF ThreadBlock, ThreadWake
  <2>. QED  BY <1>0, <1>4, <2>1 DEF ThreadBlock, ThreadWake
<1>5. CASE ThreadProcess
  <2>1. H' = H /\ C' = C  BY <1>5, SameDistances DEF ThreadProcess
  <2>. QED  BY <1>5, <2>1 DEF ThreadProcess
<1>6. CASE ThreadAdvance
  <2>1. C < H  BY <1>6 DEF ThreadAdvance
  <2>2. H' = H /\ C' = C + 1
    BY <1>0, <1>6, <2>1, AdvanceDistances, SizeAssumption DEF ThreadAdvance
  <2>. QED  BY <1>0, <1>6, <2>1, <2>2 DEF ThreadAdvance
<1>7. CASE SpuriousWakeup
  <2>1. H' = H /\ C' = C  BY <1>7, SameDistances DEF SpuriousWakeup
  <2>2. /\ thread' = thread \/ thread'.pc = "wake"
        /\ pd' = pd \/ (pd'.pc = "wait_lock" /\ pd'.op = pd.op)
        /\ use_thread' = use_thread
    BY <1>0, <1>7 DEF SpuriousWakeup, PdGoto
  <2>. QED  BY <2>1, <2>2
<1>. QED  BY <1>1, <1>2, <1>3, <1>4, <1>5, <1>6, <1>7 DEF ThreadSteps

LEMMA QueueInductive == QueueInv /\ [Next]_vars => QueueInv'
<1> SUFFICES ASSUME QueueInv, [Next]_vars PROVE QueueInv'  OBVIOUS
<1>1. TypeOK  BY DEF QueueInv
<1>2. CASE UNCHANGED vars
  BY <1>2, SameDistances DEF vars, QueueInv, TypeOK, PdShape, RingInv, UseInv, InCallback
<1>3. CASE PdCalls  BY <1>1, <1>3, PdCallsType, PdCallsRing DEF QueueInv
<1>4. CASE PdSteps  BY <1>1, <1>4, PdStepsType, PdStepsRing DEF QueueInv
<1>5. CASE ThreadSteps \/ SpuriousWakeup
  BY <1>1, <1>5, ThreadStepsType, ThreadStepsRing DEF QueueInv
<1>. QED  BY <1>2, <1>3, <1>4, <1>5 DEF Next

LEMMA QueueInitially == Init => QueueInv
<1> SUFFICES ASSUME Init PROVE QueueInv  OBVIOUS
<1>1. TypeOK  BY InitType
<1>2. Dist(0, 0) = 0  BY SizeAssumption DEF Dist
<1>3. H = 0 /\ C = 0  BY <1>2 DEF Init, H, C
<1>. QED  BY <1>1, <1>3 DEF Init, QueueInv, PdShape, RingInv, UseInv, InCallback

(* In every instance: tail <= curr <= head around the ring, the processing   *)
(* thread only runs tasks that were added and callbacks only tasks that were *)
(* processed, across the wrap of the ints.                                   *)
THEOREM RingOrdered == Spec => []RingOrder
<1>1. QueueInv => RingOrder
  <2> SUFFICES ASSUME QueueInv PROVE RingOrder  OBVIOUS
  <2>1. TypeOK /\ C <= H /\ H \in Int /\ C \in Int  BY RingTypes DEF QueueInv, RingInv
  <2>2. Dist(head, curr) = H - C  BY <2>1, RingTests
  <2>. QED  BY <2>1, <2>2 DEF QueueInv, RingInv, RingOrder, InCallback, H, C
<1>. QED  BY <1>1, QueueInitially, QueueInductive, PTL DEF Spec

(* pdp_procqueue_add never runs a process method itself while the thread     *)
(* runs one.                                                                 *)
THEOREM Serial == Spec => []SerialProcessing
<1>1. QueueInv => SerialProcessing
  <2> SUFFICES ASSUME QueueInv, pd.pc = "direct", thread.pc \in {"process", "run"} PROVE FALSE
    BY DEF SerialProcessing
  <2>1. C = H /\ C < H /\ H \in Int  BY RingTypes DEF QueueInv, RingInv, UseInv
  <2>. QED  BY <2>1
<1>. QED  BY <1>1, QueueInitially, QueueInductive, PTL DEF Spec

-----------------------------------------------------------------------------
(* Slots by their distance from tail *)

Offset(i) == Dist(i, tail)

LEMMA IndexCounter == Index \subseteq Counter
<1> DEFINE w == Width \div Size
<1>1. w \in Int /\ Width = Size * w
  BY SizeAssumption, WidthAssumption, DivMod
<1> HIDE DEF w
<1>2. w >= 1
  BY <1>1, SizeAssumption, WidthAssumption
<1>3. Size * w >= Size
  BY <1>1, <1>2, SizeAssumption
<1> QED
  BY <1>1, <1>3, SizeAssumption, WidthAssumption DEF Index, Counter

(* The distance of a counter is that of its slot. *)
LEMMA MaskDist ==
    ASSUME NEW x \in Int, NEW a \in Int
    PROVE  Dist(Mask(x), a) = Dist(x, a)
<1> DEFINE y == 0 - a
<1>1. y \in Int /\ x - a = x + y
  OBVIOUS
<1>2. Mask(x) \in Int /\ Mask(x) - a = (x % Size) + y
  BY MaskType, CounterFacts DEF Mask
<1>3. (x + y) % Size = ((x % Size) + y) % Size
  BY <1>1, CounterFacts, ModAdd
<1> QED
  BY <1>1, <1>2, <1>3 DEF Dist

LEMMA SlotAtDist ==
    ASSUME NEW i \in Index, NEW a \in Int
    PROVE  Mask(a + Dist(i, a)) = i
<1> DEFINE x == i - a
<1>1. i \in Int /\ x \in Int /\ x + a = i
  BY CounterFacts
<1>2. x % Size \in Int
  BY <1>1, CounterFacts, DivMod
<1>3. (x + a) % Size = ((x % Size) + a) % Size
  BY <1>1, CounterFacts, ModAdd
<1>4. i % Size = i
  BY SizeAssumption DEF Index
<1>5. a + Dist(i, a) = (x % Size) + a
  BY <1>2 DEF Dist
<1> QED
  BY <1>1, <1>3, <1>4, <1>5 DEF Mask

LEMMA DistInjective ==
    ASSUME NEW i \in Index, NEW j \in Index, NEW a \in Int, Dist(i, a) = Dist(j, a)
    PROVE  i = j
BY SlotAtDist

LEMMA DistOf ==
    ASSUME NEW a \in Int, NEW d \in 0 .. Size - 1
    PROVE  Dist(Mask(a + d), a) = d
<1>1. a + d \in Int /\ (a + d) - a = d
  OBVIOUS
<1>2. d % Size = d
  BY SizeAssumption
<1> QED
  BY <1>1, <1>2, MaskDist DEF Dist

(* The slots between two counters, without the counting. *)
LEMMA WindowDist ==
    ASSUME NEW a \in Int, NEW b \in Int
    PROVE  \A i : i \in Window(a, b) <=> i \in Index /\ Dist(i, a) < Dist(b, a)
<1>1. Dist(b, a) \in 0 .. Size - 1
  BY DistRange
<1>2. ASSUME NEW i \in Window(a, b)
      PROVE  i \in Index /\ Dist(i, a) < Dist(b, a)
  <2>1. PICK d \in 0 .. Dist(b, a) - 1 : i = Mask(a + d)
    BY <1>2 DEF Window
  <2>2. d \in 0 .. Size - 1 /\ d < Dist(b, a) /\ a + d \in Int
    BY <1>1, <2>1, SizeAssumption
  <2> QED
    BY <2>1, <2>2, DistOf, MaskType
<1>3. ASSUME NEW i \in Index, Dist(i, a) < Dist(b, a)
      PROVE  i \in Window(a, b)
  <2>1. Dist(i, a) \in 0 .. Size - 1
    BY DistRange, CounterFacts
  <2>2. Dist(i, a) \in 0 .. Dist(b, a) - 1
    BY <1>1, <1>3, <2>1
  <2> QED
    BY <2>2, SlotAtDist DEF Window
<1> QED
  BY <1>2, <1>3

(* What the slots at the three counters are, and which lie between them. *)
LEMMA Offsets ==
    ASSUME TypeOK, C <= H
    PROVE  /\ \A i \in Index : Offset(i) \in 0 .. Size - 1
           /\ Mask(tail) \in Index /\ Offset(Mask(tail)) = 0
           /\ Mask(curr) \in Index /\ Offset(Mask(curr)) = C
           /\ Mask(head) \in Index /\ Offset(Mask(head)) = H
           /\ \A i, j \in Index : Offset(i) = Offset(j) => i = j
           /\ \A i : i \in Window(tail, head) <=> i \in Index /\ Offset(i) < H
           /\ \A i : i \in Window(curr, head) <=> i \in Index /\ C <= Offset(i) /\ Offset(i) < H
<1>1. /\ head \in Int /\ curr \in Int /\ tail \in Int
      /\ H \in 0 .. Size - 1 /\ C \in 0 .. Size - 1
  BY RingTypes
<1>2. \A i \in Index : Offset(i) \in 0 .. Size - 1
  BY <1>1, DistRange, CounterFacts DEF Offset
<1>3. /\ Mask(tail) \in Index /\ Offset(Mask(tail)) = Dist(tail, tail)
      /\ Mask(curr) \in Index /\ Offset(Mask(curr)) = C
      /\ Mask(head) \in Index /\ Offset(Mask(head)) = H
  BY <1>1, MaskType, MaskDist DEF Offset, C, H
<1>4. Dist(tail, tail) = 0
  BY <1>1, SizeAssumption DEF Dist
<1>5. \A i, j \in Index : Offset(i) = Offset(j) => i = j
  BY <1>1, DistInjective DEF Offset
<1>6. \A i : i \in Window(tail, head) <=> i \in Index /\ Offset(i) < H
  BY <1>1, WindowDist DEF Offset, H
<1>7. ASSUME NEW i \in Index
      PROVE  Dist(i, curr) < Dist(head, curr) <=> C <= Offset(i) /\ Offset(i) < H
  <2>1. i \in Int
    BY CounterFacts
  <2>2. Dist(head, curr) = H - C
    BY RingTests
  <2>3. Dist(i, curr) \in 0 .. Size - 1
    BY <1>1, <2>1, DistRange
  <2>4. Offset(i) = (Dist(i, curr) + C) % Size
    BY <1>1, <2>1, DistSum DEF Offset, C
  <2>5. Offset(i) \in 0 .. Size - 1
    BY <1>2
  <2> DEFINE d == Dist(i, curr)
  <2>6. d \in 0 .. Size - 1 /\ Offset(i) = (d + C) % Size
    BY <2>3, <2>4
  <2> HIDE DEF d
  <2>7. Offset(i) = IF d + C < Size THEN d + C ELSE d + C - Size
    BY <1>1, <2>6, SizeAssumption
  <2>8. d < H - C <=> C <= Offset(i) /\ Offset(i) < H
    BY <1>1, <2>5, <2>6, <2>7, SizeAssumption
  <2> QED
    BY <2>2, <2>8 DEF d
<1>8. \A i : i \in Window(curr, head) <=> i \in Index /\ C <= Offset(i) /\ Offset(i) < H
  BY <1>1, <1>7, WindowDist
<1> QED
  BY <1>2, <1>3, <1>4, <1>5, <1>6, <1>8

LEMMA TailOffset ==
    ASSUME TypeOK, tail' = Inc(tail), NEW i \in Index
    PROVE  Offset(i)' = IF Offset(i) = 0 THEN Size - 1 ELSE Offset(i) - 1
BY IndexCounter, DistIncRight DEF TypeOK, Offset

-----------------------------------------------------------------------------
(* Objects and their tasks *)

(* The slots in use: those between tail and head, and the one that an add   *)
(* has filled and not yet counted.                                          *)
Occupied(i) ==
    /\ i \in Index
    /\ Offset(i) < H \/ (pd.pc = "add_head" /\ Offset(i) = H)

IdSlots ==
    \A o \in Owner : alive[o] /\ queue_id[o] # NoId =>
        Occupied(queue_id[o]) /\ q[queue_id[o]] = Task(o)

(* The task of an object that exists, which knows it by its id, unless its  *)
(* callback is running.                                                     *)
Owned(i, o) ==
    /\ q[i] = Task(o) /\ alive[o]
    /\ queue_id[o] = i \/ (InCallback /\ Offset(i) = 0)

SlotIds ==
    \A i \in Index : Occupied(i) =>
        /\ q[i].x_queue_id = q[i].x_callback
        /\ Offset(i) >= C => q[i].x_callback
        /\ q[i].x_callback => \E o \in Owner : Owned(i, o)

CalledId == InCallback => \A o \in Owner : alive[o] => queue_id[o] # Mask(tail)

RunOwner == thread.pc = "run" => thread.owner = q[Mask(curr)].x_owner

FinishOwner ==
    /\ pd.pc \in WaitPc /\ pd.op = "finish" =>
           pd.owner \in Owner /\ alive[pd.owner] /\ queue_id[pd.owner] # NoId
    /\ pd.op \notin {"qt_close", "qt_bang"}
    /\ pd.pc \in {"cb", "cb_run"} => pd.op \in LoopOps

(* ClientsSafe is not inductive: that a freed object has no task left needs *)
(* every task in the ring to be known to its object.                        *)
ClientInv == IdSlots /\ SlotIds /\ CalledId /\ RunOwner /\ FinishOwner

(* All clients are objects of the base class: pdp_qt_close leaves an id     *)
(* behind, and the commands of dpd objects have none.                       *)
OnlyBase == QtOwner = {} /\ DpdOwner = {}

LEMMA BaseTask ==
    ASSUME OnlyBase
    PROVE  /\ Owner = BaseOwner
           /\ \A o : /\ Task(o).x_callback = TRUE /\ Task(o).x_queue_id = TRUE
                     /\ Task(o).x_process = TRUE /\ Task(o).x_owner = o
BY DEF OnlyBase, Owner, Task

(* A step that leaves the ring, the ids and the objects alone. *)
LEMMA QuietClient ==
    ASSUME ClientInv, UNCHANGED <<ring, queue_id, alive>>,
           pd'.pc = "add_head" <=> pd.pc = "add_head", InCallback' <=> InCallback,
           RunOwner', FinishOwner'
    PROVE  ClientInv'
<1>1. H' = H /\ C' = C /\ \A i : Offset(i)' = Offset(i)
  BY DEF ring, H, C, Offset
<1>2. \A i : Occupied(i)' <=> Occupied(i)
  BY <1>1 DEF Occupied
<1>3. \A i, o : Owned(i, o)' <=> Owned(i, o)
  BY <1>1 DEF Owned, ring
<1>4. IdSlots'
  BY <1>2 DEF ClientInv, IdSlots, ring
<1>5. SlotIds'
  BY <1>1, <1>2, <1>3 DEF ClientInv, SlotIds, ring
<1>6. CalledId'
  BY DEF ClientInv, CalledId, ring
<1> QED
  BY <1>4, <1>5, <1>6 DEF ClientInv

LEMMA QuietRun ==
    ASSUME ClientInv, UNCHANGED <<ring, queue_id, alive>>,
           thread' = thread \/ thread'.pc = "wake"
    PROVE  RunOwner'
BY DEF ClientInv, RunOwner, ring

(* The pd thread starts or goes on waiting, or comes back from a call. *)
LEMMA WaitClient ==
    ASSUME QueueInv, ClientInv, UNCHANGED <<ring, queue_id, alive, thread>>,
           NEW op \in PdOp, NEW o \in Owner \union {None}, NEW pc \in PdPc,
           pd' = [pc |-> pc, op |-> op, owner |-> o],
           pd.pc \in WaitPc \union {"idle", "cb"}, pc \in WaitPc \union {"idle", "cb"},
           op \notin {"qt_close", "qt_bang"}, pc = "cb" => op \in LoopOps,
           pc \in WaitPc /\ op = "finish" => o \in Owner /\ alive[o] /\ queue_id[o] # NoId
    PROVE  ClientInv'
<1>1. pd'.pc = pc /\ pd'.op = op /\ pd'.owner = o
  OBVIOUS
<1>2. FinishOwner'
  BY <1>1 DEF FinishOwner, WaitPc
<1>3. RunOwner'
  BY QuietRun
<1>4. pd'.pc # "add_head" /\ pd.pc # "add_head" /\ ~InCallback /\ ~InCallback'
  BY <1>1 DEF InCallback, WaitPc
<1> QED
  BY <1>2, <1>3, <1>4, QuietClient

(* An add, or the signal at its end, comes back. *)
LEMMA ReturnClient ==
    ASSUME QueueInv, ClientInv, UNCHANGED <<ring, queue_id, alive>>, AddReturn,
           thread' = thread \/ thread'.pc = "wake",
           \/ pd.pc \in {"add_signal", "direct"}
           \/ pd.pc = "cb_run" /\ pd.op \in LoopOps
           \/ pd.pc = "idle"
    PROVE  ClientInv'
<1>1. RunOwner'
  BY QuietRun
<1>2. pd \in [pc : PdPc, op : PdOp, owner : Owner \union {None}]
  BY DEF QueueInv, TypeOK
<1>3. CASE pd.op \in LoopOps
  <2>1. pd'.pc = "cb_run" /\ pd'.op = pd.op
    BY <1>2, <1>3 DEF AddReturn
  <2>2. pd.pc # "idle"
    BY <1>3 DEF QueueInv, PdShape, LoopOps
  <2>3. InCallback /\ InCallback' /\ pd.pc # "add_head" /\ pd'.pc # "add_head"
    BY <1>3, <2>1, <2>2 DEF InCallback
  <2>4. FinishOwner'
    BY <1>3, <2>1 DEF ClientInv, FinishOwner, WaitPc
  <2> QED
    BY <1>1, <2>3, <2>4, QuietClient
<1>4. CASE pd.op \notin LoopOps
  <2>1. pd'.pc = "idle" /\ pd'.op = "none"
    BY <1>4 DEF AddReturn, PdReturn, PdCall
  <2>2. ~InCallback /\ ~InCallback' /\ pd.pc # "add_head" /\ pd'.pc # "add_head"
    BY <1>4, <2>1 DEF InCallback, LoopOps
  <2>3. FinishOwner'
    BY <2>1 DEF FinishOwner, WaitPc
  <2> QED
    BY <1>1, <2>2, <2>3, QuietClient
<1> QED
  BY <1>3, <1>4

(* Creating an object, or freeing one without an id, concerns no slot. *)
LEMMA NewClient ==
    ASSUME QueueInv, ClientInv, OnlyBase, NEW o \in Owner, New(o)
    PROVE  ClientInv'
<1> USE DEF New, Idle
<1>1. TypeOK /\ UNCHANGED <<ring, pd, thread>> /\ pd.pc = "idle" /\ ~alive[o]
  BY DEF QueueInv
<1>2. H' = H /\ C' = C /\ \A i : Offset(i)' = Offset(i)
  BY <1>1 DEF ring, H, C, Offset
<1>3. \A i : Occupied(i)' <=> Occupied(i)
  BY <1>1, <1>2 DEF Occupied
<1>4. ~InCallback /\ ~InCallback'
  BY <1>1 DEF InCallback
<1>5. ASSUME NEW p \in Owner
      PROVE  /\ p # o => alive'[p] = alive[p] /\ queue_id'[p] = queue_id[p]
             /\ queue_id'[o] = NoId
  BY <1>1 DEF TypeOK
<1>6. IdSlots'
  BY <1>1, <1>3, <1>5 DEF ClientInv, IdSlots, ring
<1>7. SlotIds'
  <2> SUFFICES ASSUME NEW i \in Index, Occupied(i)
               PROVE  /\ q'[i].x_queue_id = q'[i].x_callback
                      /\ Offset(i) >= C => q'[i].x_callback
                      /\ q'[i].x_callback => \E p \in Owner : Owned(i, p)'
    BY <1>2, <1>3 DEF SlotIds
  <2>1. \A p \in Owner : Owned(i, p) => Owned(i, p)'
    BY <1>1, <1>2, <1>4, <1>5 DEF Owned, ring
  <2> QED
    BY <1>1, <2>1 DEF ClientInv, SlotIds, ring
<1>8. RunOwner' /\ CalledId' /\ FinishOwner'
  BY <1>1, <1>4 DEF ClientInv, RunOwner, CalledId, FinishOwner, WaitPc, ring
<1> QED
  BY <1>6, <1>7, <1>8 DEF ClientInv

LEMMA FreeAtOnceClient ==
    ASSUME QueueInv, ClientInv, OnlyBase, NEW o \in Owner, FreeAtOnce(o)
    PROVE  ClientInv'
<1> USE DEF FreeAtOnce, Idle
<1>1. TypeOK /\ UNCHANGED <<ring, pd, thread, queue_id>> /\ pd.pc = "idle" /\ queue_id[o] = NoId
  BY DEF QueueInv
<1>2. H' = H /\ C' = C /\ \A i : Offset(i)' = Offset(i)
  BY <1>1 DEF ring, H, C, Offset
<1>3. \A i : Occupied(i)' <=> Occupied(i)
  BY <1>1, <1>2 DEF Occupied
<1>4. ~InCallback /\ ~InCallback'
  BY <1>1 DEF InCallback
<1>5. ASSUME NEW p \in Owner
      PROVE  (p # o => alive'[p] = alive[p]) /\ alive'[o] = FALSE
  BY <1>1 DEF TypeOK
<1>6. IdSlots'
  BY <1>1, <1>3, <1>5 DEF ClientInv, IdSlots, ring
<1>7. SlotIds'
  <2> SUFFICES ASSUME NEW i \in Index, Occupied(i)
               PROVE  /\ q'[i].x_queue_id = q'[i].x_callback
                      /\ Offset(i) >= C => q'[i].x_callback
                      /\ q'[i].x_callback => \E p \in Owner : Owned(i, p)'
    BY <1>2, <1>3 DEF SlotIds
  <2>1. ASSUME NEW p \in Owner, Owned(i, p) PROVE Owned(i, p)'
    <3>1. queue_id[p] = i
      BY <1>4, <2>1 DEF Owned
    <3>2. i # NoId
      BY CounterFacts DEF Index, NoId
    <3>3. p # o
      BY <1>1, <3>1, <3>2
    <3> QED
      BY <1>1, <1>5, <2>1, <3>1, <3>3 DEF Owned, ring
  <2> QED
    BY <1>1, <2>1 DEF ClientInv, SlotIds, ring
<1>8. RunOwner' /\ CalledId' /\ FinishOwner'
  BY <1>1, <1>4 DEF ClientInv, RunOwner, CalledId, FinishOwner, WaitPc, ring
<1> QED
  BY <1>6, <1>7, <1>8 DEF ClientInv

(* pdp_base_bang adds the task of an object that has none. *)
LEMMA FillClient ==
    ASSUME QueueInv, ClientInv, OnlyBase, NEW o \in Owner, alive[o], queue_id[o] = NoId,
           CanAdd, AddFill(o)
    PROVE  ClientInv'
<1> DEFINE s == Mask(head)
<1>1. /\ TypeOK /\ C <= H /\ C \in 0 .. Size - 1 /\ H \in 0 .. Size - 1
      /\ pd \in [pc : PdPc, op : PdOp, owner : Owner \union {None}]
      /\ q \in [Index -> Item] /\ queue_id \in [Owner -> Index \union {NoId}]
  BY RingTypes DEF QueueInv, RingInv, TypeOK
<1>2. /\ UNCHANGED <<head, curr, tail, alive, thread>> /\ pd.pc \in {"idle", "cb_run"}
      /\ pd'.pc = "add_head" /\ pd'.op = pd.op
      /\ q' = [q EXCEPT ![s] = Task(o)] /\ queue_id' = [queue_id EXCEPT ![o] = s]
  BY <1>1, BaseTask DEF AddFill, CanAdd
<1>3. /\ s \in Index /\ Offset(s) = H /\ \A i, j \in Index : Offset(i) = Offset(j) => i = j
      /\ Mask(tail) \in Index /\ Offset(Mask(tail)) = 0
      /\ Mask(curr) \in Index /\ Offset(Mask(curr)) = C
      /\ \A i \in Index : Offset(i) \in 0 .. Size - 1
  BY <1>1, Offsets
<1>4. H' = H /\ C' = C /\ \A i : Offset(i)' = Offset(i)
  BY <1>2 DEF H, C, Offset
<1>5. InCallback' <=> InCallback
  <2>1. CASE pd.pc = "cb_run"
    BY <1>2, <2>1 DEF InCallback, ClientInv, FinishOwner
  <2>2. CASE pd.pc = "idle"
    BY <1>2, <2>2 DEF InCallback, QueueInv, PdShape, LoopOps
  <2> QED
    BY <1>2, <2>1, <2>2
<1> HIDE DEF s
<1>6. \A i : Occupied(i)' <=> Occupied(i) \/ i = s
  <2>1. \A i : Occupied(i) <=> i \in Index /\ Offset(i) < H
    BY <1>2 DEF Occupied
  <2>2. \A i : Occupied(i)' <=> i \in Index /\ (Offset(i) < H \/ Offset(i) = H)
    BY <1>2, <1>4 DEF Occupied
  <2> QED
    BY <1>3, <2>1, <2>2
<1>7. ~Occupied(s) /\ s # NoId
  <2>1. ~(Offset(s) < H)
    BY <1>1, <1>3
  <2>2. s # NoId
    BY <1>3, SizeAssumption DEF Index, NoId
  <2> QED
    BY <1>2, <2>1, <2>2 DEF Occupied
<1>8. /\ q'[s] = Task(o) /\ queue_id'[o] = s
      /\ \A i \in Index : i # s => q'[i] = q[i]
      /\ \A p \in Owner : p # o => queue_id'[p] = queue_id[p]
  BY <1>1, <1>2, <1>3
<1>9. IdSlots'
  <2> SUFFICES ASSUME NEW p \in Owner, alive[p], NEW j, j = queue_id'[p], j # NoId
               PROVE  Occupied(j)' /\ q'[j] = Task(p)
    BY <1>2 DEF IdSlots
  <2>1. CASE p = o
    BY <1>6, <1>8, <2>1
  <2>2. CASE p # o
    <3>1. Occupied(j) /\ q[j] = Task(p)
      BY <1>8, <2>2 DEF ClientInv, IdSlots
    <3>2. j \in Index /\ j # s
      BY <1>7, <3>1 DEF Occupied
    <3> QED
      BY <1>6, <1>8, <3>1, <3>2
  <2> QED
    BY <2>1, <2>2
<1>10. SlotIds'
  <2> SUFFICES ASSUME NEW i \in Index, Occupied(i) \/ i = s
               PROVE  /\ q'[i].x_queue_id = q'[i].x_callback
                      /\ Offset(i) >= C => q'[i].x_callback
                      /\ q'[i].x_callback => \E p \in Owner : Owned(i, p)'
    BY <1>4, <1>6 DEF SlotIds
  <2>1. CASE i = s
    <3>1. q'[i] = Task(o) /\ alive'[o] /\ queue_id'[o] = i
      BY <1>2, <1>8, <2>1
    <3>2. Owned(i, o)'
      BY <3>1 DEF Owned
    <3> QED
      BY <3>1, <3>2, BaseTask
  <2>2. CASE i # s
    <3>1. Occupied(i) /\ q'[i] = q[i]
      BY <1>8, <2>2
    <3>2. ASSUME NEW p \in Owner, Owned(i, p) PROVE Owned(i, p)'
      <4>1. CASE queue_id[p] = i
        <5>1. p # o
          BY <4>1, CounterFacts DEF Index, NoId
        <5> QED
          BY <1>2, <1>8, <3>1, <3>2, <4>1, <5>1 DEF Owned
      <4>2. CASE queue_id[p] # i
        BY <1>2, <1>4, <1>5, <3>1, <3>2, <4>2 DEF Owned
      <4> QED
        BY <4>1, <4>2
    <3> QED
      BY <3>1, <3>2 DEF ClientInv, SlotIds
  <2> QED
    BY <2>1, <2>2
<1>11. CalledId'
  <2> SUFFICES ASSUME InCallback, NEW p \in Owner, alive[p] PROVE queue_id'[p] # Mask(tail)
    BY <1>2, <1>5 DEF CalledId
  <2>1. C > 0
    BY DEF QueueInv, RingInv
  <2>2. s # Mask(tail)
    BY <1>1, <1>3, <2>1
  <2> QED
    BY <1>8, <2>2 DEF ClientInv, CalledId
<1>12. RunOwner'
  <2> SUFFICES ASSUME thread.pc = "run" PROVE thread.owner = q'[Mask(curr)].x_owner
    BY <1>2 DEF RunOwner
  <2>1. C < H
    BY DEF QueueInv, RingInv
  <2>2. s # Mask(curr)
    BY <1>1, <1>3, <2>1
  <2> QED
    BY <1>3, <1>8, <2>2 DEF ClientInv, RunOwner
<1>13. FinishOwner'
  BY <1>2 DEF ClientInv, FinishOwner, WaitPc
<1> QED
  BY <1>9, <1>10, <1>11, <1>12, <1>13 DEF ClientInv

LEMMA BangClient ==
    ASSUME QueueInv, ClientInv, OnlyBase, NEW o \in BaseOwner, pdp_base_bang(o)
    PROVE  ClientInv'
<1>0. /\ o \in Owner /\ alive[o] /\ queue_id[o] = NoId /\ CanAdd /\ pdp_procqueue_add(o)
      /\ pd \in [pc : PdPc, op : PdOp, owner : Owner \union {None}]
      /\ queue_id \in [Owner -> Index \union {NoId}]
  BY DEF pdp_base_bang, Owner, QueueInv, TypeOK
<1>1. ASSUME queue_id' = IF Task(o).x_queue_id THEN [queue_id EXCEPT ![o] = NoId] ELSE queue_id
      PROVE  queue_id' = queue_id
  BY <1>0, <1>1
<1>2. CASE AddFull(o)
  <2>1. UNCHANGED <<ring, queue_id, alive, thread>> /\ AddReturn
    BY <1>1, <1>2 DEF AddFull
  <2>2. pd.pc = "idle" \/ (pd.pc = "cb_run" /\ pd.op \in LoopOps)
    BY <1>0 DEF CanAdd, ClientInv, FinishOwner
  <2> QED
    BY <2>1, <2>2, ReturnClient
<1>3. CASE AddDirect(o)
  <2>1. UNCHANGED <<ring, queue_id, alive, thread>> /\ pd'.pc = "direct" /\ pd'.op = pd.op
    BY <1>0, <1>1, <1>3 DEF AddDirect
  <2>2. RunOwner'
    BY <2>1, QuietRun
  <2>3. FinishOwner'
    BY <2>1 DEF ClientInv, FinishOwner, WaitPc
  <2>4. InCallback' <=> InCallback
    <3>1. CASE pd.pc = "cb_run"
      BY <2>1, <3>1 DEF InCallback, ClientInv, FinishOwner
    <3>2. CASE pd.pc = "idle"
      BY <2>1, <3>2 DEF InCallback, QueueInv, PdShape, LoopOps
    <3> QED
      BY <1>0, <3>1, <3>2 DEF CanAdd
  <2>5. pd'.pc # "add_head" /\ pd.pc # "add_head"
    BY <1>0, <2>1 DEF CanAdd
  <2> QED
    BY <2>1, <2>2, <2>3, <2>4, <2>5, QuietClient
<1>4. CASE AddFill(o)
  BY <1>0, <1>4, FillClient
<1> QED
  BY <1>0, <1>2, <1>3, <1>4 DEF pdp_procqueue_add

(* The slot that was filled is counted. *)
LEMMA AddHeadClient ==
    ASSUME QueueInv, ClientInv, AddHead
    PROVE  ClientInv'
<1>1. /\ TypeOK /\ C <= H /\ C \in 0 .. Size - 1 /\ H \in 0 .. Size - 1
      /\ pd \in [pc : PdPc, op : PdOp, owner : Owner \union {None}]
      /\ H < Size - 1
  BY RingTypes DEF QueueInv, RingInv, UseInv, TypeOK, AddHead
<1>2. /\ UNCHANGED <<q, curr, tail, queue_id, alive, thread>> /\ pd.pc = "add_head"
      /\ pd'.pc = "add_signal" /\ pd'.op = pd.op /\ head' = Inc(head)
  BY <1>1 DEF AddHead, PdGoto
<1>3. H' = H + 1 /\ C' = C
  BY <1>1, <1>2, AddHeadDistances
<1>4. \A i : Offset(i)' = Offset(i)
  BY <1>2 DEF Offset
<1>5. \A i \in Index : Offset(i) \in 0 .. Size - 1
  BY <1>1, Offsets
<1>6. InCallback' <=> InCallback
  BY <1>2 DEF InCallback
<1>7. \A i : Occupied(i)' <=> Occupied(i)
  BY <1>1, <1>2, <1>3, <1>4, <1>5 DEF Occupied
<1>8. \A i, o : Owned(i, o)' <=> Owned(i, o)
  BY <1>2, <1>4, <1>6 DEF Owned
<1>9. IdSlots'
  BY <1>2, <1>7 DEF ClientInv, IdSlots
<1>10. SlotIds'
  BY <1>2, <1>3, <1>4, <1>7, <1>8 DEF ClientInv, SlotIds
<1>11. CalledId' /\ RunOwner'
  BY <1>2, <1>6 DEF ClientInv, CalledId, RunOwner
<1>12. FinishOwner'
  BY <1>2 DEF ClientInv, FinishOwner, WaitPc
<1> QED
  BY <1>9, <1>10, <1>11, <1>12 DEF ClientInv

(* The oldest slot is given up: no object knows it any more. *)
LEMMA TailClient ==
    ASSUME QueueInv, ClientInv, tail' = Inc(tail), C > 0,
           UNCHANGED <<q, head, curr, queue_id, alive, thread>>,
           pd.pc \in {"cb", "cb_run"}, pd'.pc = "cb", FinishOwner',
           \A o \in Owner : alive[o] => queue_id[o] # Mask(tail)
    PROVE  ClientInv'
<1>1. /\ TypeOK /\ C <= H /\ C \in 0 .. Size - 1 /\ H \in 0 .. Size - 1
  BY RingTypes DEF QueueInv, RingInv
<1>2. H' = H - 1 /\ C' = C - 1
  BY <1>1, TailDistances
<1>3. \A i \in Index : Offset(i)' = IF Offset(i) = 0 THEN Size - 1 ELSE Offset(i) - 1
  BY <1>1, TailOffset
<1>4. /\ \A i \in Index : Offset(i) \in 0 .. Size - 1
      /\ Mask(tail) \in Index /\ Offset(Mask(tail)) = 0
      /\ \A i, j \in Index : Offset(i) = Offset(j) => i = j
  BY <1>1, Offsets
<1>5. ASSUME NEW i \in Index
      PROVE  Occupied(i)' <=> Occupied(i) /\ Offset(i) # 0
  <2>1. Occupied(i) <=> Offset(i) < H
    BY DEF Occupied
  <2>2. Occupied(i)' <=> Offset(i)' < H'
    BY DEF Occupied
  <2>3. Offset(i) \in 0 .. Size - 1 /\ Offset(i)' = IF Offset(i) = 0 THEN Size - 1 ELSE Offset(i) - 1
    BY <1>3, <1>4
  <2> QED
    BY <1>1, <1>2, <2>1, <2>2, <2>3, SizeAssumption
<1>6. ~InCallback'
  BY DEF InCallback
<1>7. IdSlots'
  <2> SUFFICES ASSUME NEW p \in Owner, alive[p], NEW j, j = queue_id[p], j # NoId
               PROVE  Occupied(j)' /\ q[j] = Task(p)
    BY DEF IdSlots
  <2>1. Occupied(j) /\ q[j] = Task(p) /\ j \in Index
    BY DEF ClientInv, IdSlots, Occupied
  <2>2. Offset(j) # 0
    BY <1>4, <2>1
  <2> QED
    BY <1>5, <2>1, <2>2
<1>8. SlotIds'
  <2> SUFFICES ASSUME NEW i \in Index, Occupied(i), Offset(i) # 0
               PROVE  /\ q[i].x_queue_id = q[i].x_callback
                      /\ Offset(i)' >= C' => q[i].x_callback
                      /\ q[i].x_callback => \E p \in Owner : Owned(i, p)'
    BY <1>5 DEF SlotIds
  <2>1. Offset(i)' >= C' => Offset(i) >= C
    BY <1>1, <1>2, <1>3, <1>4
  <2>2. \A p \in Owner : Owned(i, p) => Owned(i, p)'
    BY DEF Owned
  <2> QED
    BY <2>1, <2>2 DEF ClientInv, SlotIds
<1>9. CalledId' /\ RunOwner'
  BY <1>6 DEF ClientInv, CalledId, RunOwner
<1> QED
  BY <1>7, <1>8, <1>9 DEF ClientInv

LEMMA CallbackReturnClient ==
    ASSUME QueueInv, ClientInv, CallbackReturn
    PROVE  ClientInv'
<1>1. /\ pd \in [pc : PdPc, op : PdOp, owner : Owner \union {None}] /\ InCallback
      /\ UNCHANGED <<q, head, curr, queue_id, alive, thread>> /\ pd.pc = "cb_run"
  BY DEF QueueInv, TypeOK, CallbackReturn, InCallback
<1>2. pd'.pc = "cb" /\ pd'.op = pd.op /\ tail' = Inc(tail) /\ C > 0
  BY <1>1 DEF CallbackReturn, PdGoto, QueueInv, RingInv
<1>3. FinishOwner'
  BY <1>1, <1>2 DEF ClientInv, FinishOwner, WaitPc
<1>4. \A o \in Owner : alive[o] => queue_id[o] # Mask(tail)
  BY <1>1 DEF ClientInv, CalledId
<1> QED
  BY <1>1, <1>2, <1>3, <1>4, TailClient

(* The callback of the oldest task: its object forgets the id first. *)
LEMMA CallbackClient ==
    ASSUME QueueInv, ClientInv, OnlyBase, Callback
    PROVE  ClientInv'
<1> DEFINE s == Mask(tail)
<1>1. /\ TypeOK /\ C <= H /\ C \in 0 .. Size - 1 /\ H \in 0 .. Size - 1 /\ C > 0
      /\ pd \in [pc : PdPc, op : PdOp, owner : Owner \union {None}]
      /\ q \in [Index -> Item] /\ queue_id \in [Owner -> Index \union {NoId}]
  BY RingTypes DEF QueueInv, RingInv, TypeOK, Callback, C
<1>2. /\ UNCHANGED <<q, head, curr, alive, thread>> /\ pd.pc = "cb" /\ ~InCallback
      /\ pd.op \in LoopOps
  BY DEF Callback, InCallback, ClientInv, FinishOwner
<1>3. /\ \A i \in Index : Offset(i) \in 0 .. Size - 1
      /\ s \in Index /\ Offset(s) = 0
      /\ \A i, j \in Index : Offset(i) = Offset(j) => i = j
  BY <1>1, Offsets
<1>4. Occupied(s) /\ q[s] \in Item
  BY <1>1, <1>3 DEF Occupied
<1>5. q[s].x_queue_id = q[s].x_callback /\ (q[s].x_callback => \E o \in Owner : Owned(s, o))
  BY <1>3, <1>4 DEF ClientInv, SlotIds
<1>6. /\ queue_id' = IF q[s].x_queue_id THEN [queue_id EXCEPT ![q[s].x_owner] = NoId] ELSE queue_id
      /\ IF q[s].x_callback THEN PdGoto("cb_run") /\ UNCHANGED tail
         ELSE tail' = Inc(tail) /\ UNCHANGED pd
  BY DEF Callback
<1> HIDE DEF s
<1>7. CASE ~q[s].x_callback
  <2>1. UNCHANGED <<queue_id, pd>> /\ tail' = Inc(tail)
    BY <1>5, <1>6, <1>7
  <2>2. ASSUME NEW o \in Owner, alive[o], queue_id[o] = s PROVE FALSE
    <3>1. s # NoId
      BY <1>3, SizeAssumption DEF Index, NoId
    <3>2. q[s] = Task(o)
      BY <2>2, <3>1 DEF ClientInv, IdSlots
    <3> QED
      BY <1>7, <3>2, BaseTask
  <2>3. FinishOwner'
    BY <1>2, <2>1 DEF ClientInv, FinishOwner
  <2> QED
    BY <1>1, <1>2, <2>1, <2>2, <2>3, TailClient DEF s
<1>8. CASE q[s].x_callback
  <2>1. PICK o \in Owner : Owned(s, o)
    BY <1>5, <1>8
  <2>2. q[s] = Task(o) /\ q[s].x_owner = o /\ alive[o] /\ queue_id[o] = s
    BY <1>2, <2>1, BaseTask DEF Owned
  <2>3. /\ queue_id' = [queue_id EXCEPT ![o] = NoId] /\ UNCHANGED tail
        /\ pd'.pc = "cb_run" /\ pd'.op = pd.op
    BY <1>1, <1>5, <1>6, <1>8, <2>2 DEF PdGoto
  <2>4. H' = H /\ C' = C /\ \A i : Offset(i)' = Offset(i)
    BY <1>2, <2>3 DEF H, C, Offset
  <2>5. \A i : Occupied(i)' <=> Occupied(i)
    BY <1>2, <2>3, <2>4 DEF Occupied
  <2>6. InCallback'
    BY <2>3 DEF InCallback
  <2>7. queue_id'[o] = NoId /\ \A p \in Owner : p # o => queue_id'[p] = queue_id[p]
    BY <1>1, <2>3
  <2>8. IdSlots'
    <3> SUFFICES ASSUME NEW p \in Owner, alive[p], NEW j, j = queue_id'[p], j # NoId
                 PROVE  Occupied(j) /\ q[j] = Task(p)
      BY <1>2, <2>5 DEF IdSlots
    <3>1. queue_id[p] = j
      BY <2>7
    <3> QED
      BY <3>1 DEF ClientInv, IdSlots
  <2>9. SlotIds'
    <3> SUFFICES ASSUME NEW i \in Index, Occupied(i)
                 PROVE  /\ q[i].x_queue_id = q[i].x_callback
                        /\ Offset(i) >= C => q[i].x_callback
                        /\ q[i].x_callback => \E p \in Owner : Owned(i, p)'
      BY <1>2, <2>4, <2>5 DEF SlotIds
    <3>1. ASSUME NEW p \in Owner, Owned(i, p) PROVE Owned(i, p)'
      <4>1. queue_id[p] = i /\ q[i] = Task(p) /\ alive[p]
        BY <1>2, <3>1 DEF Owned
      <4>2. CASE p = o
        BY <1>2, <1>3, <2>2, <2>4, <2>6, <4>1, <4>2 DEF Owned
      <4>3. CASE p # o
        BY <1>2, <2>7, <4>1, <4>3 DEF Owned
      <4> QED
        BY <4>2, <4>3
    <3> QED
      BY <3>1 DEF ClientInv, SlotIds
  <2>10. CalledId'
    <3> SUFFICES ASSUME NEW p \in Owner, alive[p], queue_id'[p] = s PROVE FALSE
      BY <1>2, <2>3 DEF CalledId, s
    <3>1. s # NoId
      BY <1>3, SizeAssumption DEF Index, NoId
    <3>2. p # o /\ queue_id[p] = s
      BY <2>7, <3>1
    <3>3. q[s] = Task(p)
      BY <3>1, <3>2 DEF ClientInv, IdSlots
    <3> QED
      BY <2>2, <3>2, <3>3, BaseTask
  <2>11. RunOwner' /\ FinishOwner'
    BY <1>2, <2>3 DEF ClientInv, RunOwner, FinishOwner, WaitPc
  <2> QED
    BY <2>8, <2>9, <2>10, <2>11 DEF ClientInv
<1> QED
  BY <1>7, <1>8

(* pdp_procqueue_finish cancels the task of the object that is freed, and   *)
(* no other: nothing is left to process.                                    *)
LEMMA FreeFinishClient ==
    ASSUME QueueInv, ClientInv, OnlyBase, FreeFinish
    PROVE  ClientInv'
<1> DEFINE o == pd.owner
           s == queue_id[pd.owner]
<1>1. /\ TypeOK /\ C <= H /\ C \in 0 .. Size - 1 /\ H \in 0 .. Size - 1
      /\ pd \in [pc : PdPc, op : PdOp, owner : Owner \union {None}]
      /\ q \in [Index -> Item] /\ queue_id \in [Owner -> Index \union {NoId}]
      /\ alive \in [Owner -> BOOLEAN]
  BY RingTypes DEF QueueInv, RingInv, TypeOK
<1>2. /\ UNCHANGED <<head, curr, tail, queue_id, thread>> /\ pd.pc = "wait_test" /\ pd.op = "finish"
      /\ q' = Invalidate(s) /\ alive' = [alive EXCEPT ![o] = FALSE] /\ C = H
      /\ pd'.pc = "idle" /\ pd'.op = "none"
  BY <1>1, RingTests DEF FreeFinish, WaitOver, PdReturn, PdCall
<1>3. o \in Owner /\ alive[o] /\ s # NoId
  BY <1>2 DEF ClientInv, FinishOwner, WaitPc
<1>4. Occupied(s) /\ q[s] = Task(o) /\ s \in Index
  BY <1>3 DEF ClientInv, IdSlots, Occupied
<1>5. Mask(s) = s
  BY <1>4, SizeAssumption DEF Index, Mask
<1> HIDE DEF o, s
<1>6. /\ q'[s].x_callback = FALSE /\ q'[s].x_queue_id = FALSE
      /\ \A i \in Index : i # s => q'[i] = q[i]
  BY <1>1, <1>2, <1>4, <1>5 DEF Invalidate, Item
<1>7. ~alive'[o] /\ \A p \in Owner : p # o => alive'[p] = alive[p]
  BY <1>1, <1>2, <1>3
<1>8. H' = H /\ C' = C /\ \A i : Offset(i)' = Offset(i)
  BY <1>2 DEF H, C, Offset
<1>9. \A i : Occupied(i)' <=> Occupied(i)
  BY <1>2, <1>8 DEF Occupied
<1>10. ~InCallback /\ ~InCallback'
  BY <1>2 DEF InCallback
<1>11. IdSlots'
  <2> SUFFICES ASSUME NEW p \in Owner, alive'[p], NEW j, j = queue_id[p], j # NoId
               PROVE  Occupied(j) /\ q'[j] = Task(p)
    BY <1>2, <1>9 DEF IdSlots
  <2>1. p # o /\ alive[p]
    BY <1>7
  <2>2. Occupied(j) /\ q[j] = Task(p) /\ j \in Index
    BY <2>1 DEF ClientInv, IdSlots, Occupied
  <2>3. j # s
    <3>1. Task(p).x_owner = p /\ Task(o).x_owner = o
      BY BaseTask
    <3> QED
      BY <1>4, <2>1, <2>2, <3>1
  <2> QED
    BY <1>6, <2>2, <2>3
<1>12. SlotIds'
  <2> SUFFICES ASSUME NEW i \in Index, Occupied(i)
               PROVE  /\ q'[i].x_queue_id = q'[i].x_callback
                      /\ Offset(i) >= C => q'[i].x_callback
                      /\ q'[i].x_callback => \E p \in Owner : Owned(i, p)'
    BY <1>8, <1>9 DEF SlotIds
  <2>0. ~(Offset(i) >= C)
    <3>1. Offset(i) < H /\ Offset(i) \in 0 .. Size - 1
      BY <1>1, <1>2, Offsets DEF Occupied
    <3> QED
      BY <1>1, <1>2, <3>1
  <2>1. CASE i = s
    BY <1>6, <2>0, <2>1
  <2>2. CASE i # s
    <3>1. ASSUME NEW p \in Owner, Owned(i, p) PROVE Owned(i, p)'
      <4>1. queue_id[p] = i
        BY <1>10, <3>1 DEF Owned
      <4>2. p # o
        BY <2>2, <4>1 DEF s, o
      <4> QED
        BY <1>2, <1>6, <1>7, <2>2, <3>1, <4>1, <4>2 DEF Owned
    <3> QED
      BY <1>6, <2>0, <2>2, <3>1 DEF ClientInv, SlotIds
  <2> QED
    BY <2>1, <2>2
<1>13. CalledId' /\ FinishOwner'
  BY <1>2, <1>10 DEF CalledId, FinishOwner, WaitPc
<1>14. RunOwner'
  BY <1>1, <1>2 DEF RunOwner, QueueInv, RingInv
<1> QED
  BY <1>11, <1>12, <1>13, <1>14 DEF ClientInv

(* The thread has processed a task. *)
LEMMA AdvanceClient ==
    ASSUME QueueInv, ClientInv, ThreadAdvance
    PROVE  ClientInv'
<1>1. /\ TypeOK /\ C <= H /\ C \in 0 .. Size - 1 /\ H \in 0 .. Size - 1 /\ C < H
  BY RingTypes DEF QueueInv, RingInv, ThreadAdvance
<1>2. UNCHANGED <<q, head, tail, queue_id, alive, pd>> /\ thread'.pc = "check" /\ curr' = Inc(curr)
  BY DEF ThreadAdvance
<1>3. H' = H /\ C' = C + 1
  BY <1>1, <1>2, AdvanceDistances, SizeAssumption
<1>4. \A i : Offset(i)' = Offset(i)
  BY <1>2 DEF Offset
<1>5. \A i : Occupied(i)' <=> Occupied(i)
  BY <1>2, <1>3, <1>4 DEF Occupied
<1>6. InCallback' <=> InCallback
  BY <1>2 DEF InCallback
<1>7. \A i, o : Owned(i, o)' <=> Owned(i, o)
  BY <1>2, <1>4, <1>6 DEF Owned
<1>8. \A i \in Index : Offset(i)' >= C' => Offset(i) >= C
  BY <1>1, <1>3, <1>4, Offsets
<1>9. IdSlots'
  BY <1>2, <1>5 DEF ClientInv, IdSlots
<1>10. SlotIds'
  BY <1>2, <1>5, <1>7, <1>8 DEF ClientInv, SlotIds
<1>11. CalledId' /\ RunOwner' /\ FinishOwner'
  BY <1>2, <1>6 DEF ClientInv, CalledId, RunOwner, FinishOwner
<1> QED
  BY <1>9, <1>10, <1>11 DEF ClientInv

LEMMA PdCallsClient ==
    ASSUME QueueInv, ClientInv, OnlyBase, PdCalls
    PROVE  ClientInv'
<1>0. pd \in [pc : PdPc, op : PdOp, owner : Owner \union {None}]
  BY DEF QueueInv, TypeOK
<1>1. ASSUME NEW o \in Owner, FreeWait(o) PROVE ClientInv'
  <2>1. /\ UNCHANGED <<ring, queue_id, alive, thread>> /\ pd.pc = "idle"
        /\ pd' = [pc |-> "wait_lock", op |-> "finish", owner |-> o]
        /\ alive[o] /\ queue_id[o] # NoId
    BY <1>1 DEF FreeWait, Idle, StartWait, PdCall
  <2>2. "wait_lock" \in PdPc /\ "finish" \in PdOp /\ "wait_lock" \in WaitPc
    BY DEF PdPc, PdOp, WaitPc
  <2> QED
    BY <2>1, <2>2, WaitClient
<1>2. ASSUME NEW op \in {"wait", "flush", "use_thread"}, Call(op) PROVE ClientInv'
  <2>1. /\ UNCHANGED <<ring, queue_id, alive, thread>> /\ pd.pc = "idle"
        /\ pd' = [pc |-> "wait_lock", op |-> op, owner |-> None]
    BY <1>2 DEF Call, Idle, StartWait, PdCall
  <2>2. "wait_lock" \in PdPc /\ op \in PdOp /\ "wait_lock" \in WaitPc /\ op # "finish"
    BY DEF PdPc, PdOp, WaitPc, LoopOps
  <2> QED
    BY <2>1, <2>2, WaitClient
<1>3. CASE ThreadOn \/ (pdp_procqueue_tick /\ pd' = pd)
  <2>1. UNCHANGED <<ring, queue_id, alive, thread, pd>>
    BY <1>3 DEF ThreadOn, pdp_procqueue_tick
  <2>2. RunOwner' /\ FinishOwner' /\ (InCallback' <=> InCallback)
    BY <2>1 DEF ClientInv, RunOwner, FinishOwner, InCallback, ring
  <2> QED
    BY <2>1, <2>2, QuietClient
<1>4. CASE pdp_procqueue_tick /\ PdCall("tick", None, "cb")
  <2>1. /\ UNCHANGED <<ring, queue_id, alive, thread>> /\ pd.pc = "idle"
        /\ pd' = [pc |-> "cb", op |-> "tick", owner |-> None]
    BY <1>4 DEF pdp_procqueue_tick, Idle, PdCall
  <2>2. "cb" \in PdPc /\ "tick" \in PdOp /\ "tick" \in LoopOps
    BY DEF PdPc, PdOp, LoopOps
  <2> QED
    BY <2>1, <2>2, WaitClient
<1>5. CASE pdp_procqueue_tick
  BY <1>3, <1>4, <1>5 DEF pdp_procqueue_tick
<1> QED
  BY <1>1, <1>2, <1>3, <1>5, NewClient, FreeAtOnceClient, BangClient DEF PdCalls, OnlyBase

LEMMA PdStepsClient ==
    ASSUME QueueInv, ClientInv, OnlyBase, PdSteps
    PROVE  ClientInv'
<1>0. pd \in [pc : PdPc, op : PdOp, owner : Owner \union {None}]
  BY DEF QueueInv, TypeOK
<1>1. CASE pdp_procqueue_signal_processor
  <2>1. thread \in [pc : ThreadPc, owner : Owner \union {None}]
    BY DEF QueueInv, TypeOK
  <2>2. /\ UNCHANGED <<ring, queue_id, alive>> /\ AddReturn /\ pd.pc = "add_signal"
        /\ thread' = thread \/ thread'.pc = "wake"
    BY <1>1, <2>1 DEF pdp_procqueue_signal_processor
  <2> QED
    BY <2>2, ReturnClient
<1>2. CASE DirectDone
  BY <1>2, ReturnClient DEF DirectDone
<1>3. CASE WaitLock \/ WaitTest \/ WaitBlock
  <2>1. PICK pc \in WaitPc : pd.pc \in WaitPc /\ pd' = [pd EXCEPT !.pc = pc]
    BY <1>3 DEF WaitLock, WaitTest, WaitBlock, PdGoto, WaitPc
  <2>2. pd' = [pc |-> pc, op |-> pd.op, owner |-> pd.owner]
    BY <1>0, <2>1
  <2>3. UNCHANGED <<ring, queue_id, alive, thread>>
    BY <1>3 DEF WaitLock, WaitTest, WaitBlock
  <2>4. pd.op \in PdOp /\ pd.owner \in Owner \union {None} /\ pc \in PdPc /\ pc # "cb"
    BY <1>0, <2>1 DEF PdPc, WaitPc
  <2>5. /\ pd.op \notin {"qt_close", "qt_bang"}
        /\ pd.op = "finish" => pd.owner \in Owner /\ alive[pd.owner] /\ queue_id[pd.owner] # NoId
    BY <2>1 DEF ClientInv, FinishOwner
  <2> QED
    BY <2>1, <2>2, <2>3, <2>4, <2>5, WaitClient
<1>4. CASE WaitDone \/ FlushDone \/ TickDone \/ ThreadOffDone
  <2>1. /\ UNCHANGED <<ring, queue_id, alive, thread>> /\ pd.pc \in {"wait_test", "cb"}
        /\ pd' = [pc |-> "idle", op |-> "none", owner |-> None]
    BY <1>4 DEF WaitDone, FlushDone, TickDone, ThreadOffDone, WaitOver, CallbacksOver, PdReturn, PdCall
  <2>2. "idle" \in PdPc /\ "none" \in PdOp /\ "wait_test" \in WaitPc /\ "idle" \notin WaitPc
    BY DEF PdPc, PdOp, WaitPc
  <2> QED
    BY <2>1, <2>2, WaitClient
<1>5. CASE FlushWaited \/ ThreadOff
  <2>1. /\ UNCHANGED <<ring, queue_id, alive, thread>> /\ pd.pc = "wait_test" /\ pd.op \in LoopOps
        /\ pd' = [pd EXCEPT !.pc = "cb"]
    BY <1>5 DEF FlushWaited, ThreadOff, WaitOver, PdGoto, LoopOps
  <2>2. pd' = [pc |-> "cb", op |-> pd.op, owner |-> pd.owner] /\ "cb" \in PdPc
    BY <1>0, <2>1 DEF PdPc
  <2>3. pd.op \notin {"qt_close", "qt_bang"} /\ pd.op \in PdOp /\ pd.owner \in Owner \union {None}
    BY <1>0, <2>1 DEF LoopOps
  <2> QED
    BY <2>1, <2>2, <2>3, WaitClient DEF WaitPc
<1>6. CASE FlushWaitAgain
  <2>1. /\ UNCHANGED <<ring, queue_id, alive, thread>> /\ pd.pc = "cb"
        /\ pd' = [pc |-> "wait_lock", op |-> "flush_again", owner |-> None]
    BY <1>6 DEF FlushWaitAgain, CallbacksOver, PdCall
  <2>2. "wait_lock" \in PdPc /\ "flush_again" \in PdOp /\ "wait_lock" \in WaitPc
    BY DEF PdPc, PdOp, WaitPc
  <2> QED
    BY <2>1, <2>2, WaitClient
<1>7. CASE QtCloseFinish \/ QtBangFinish \/ QtBangAdd
  BY <1>7 DEF QtCloseFinish, QtBangFinish, QtBangAdd, WaitOver, QueueInv, PdShape, ClientInv, FinishOwner
<1> QED
  BY <1>1, <1>2, <1>3, <1>4, <1>5, <1>6, <1>7, AddHeadClient, CallbackClient, CallbackReturnClient,
     FreeFinishClient DEF PdSteps

LEMMA ThreadStepsClient ==
    ASSUME QueueInv, ClientInv, OnlyBase, ThreadSteps \/ SpuriousWakeup
    PROVE  ClientInv'
<1>0. /\ pd \in [pc : PdPc, op : PdOp, owner : Owner \union {None}]
      /\ thread \in [pc : ThreadPc, owner : Owner \union {None}]
  BY DEF QueueInv, TypeOK
<1>1. CASE ThreadAdvance
  BY <1>1, AdvanceClient
<1>2. CASE ThreadProcess
  <2>1. UNCHANGED <<ring, queue_id, alive, pd>>
    BY <1>2 DEF ThreadProcess
  <2>2. InCallback' <=> InCallback
    BY <2>1 DEF InCallback
  <2>3. FinishOwner'
    BY <2>1 DEF ClientInv, FinishOwner
  <2>4. q[Mask(curr)].x_process
    <3>1. /\ TypeOK /\ C <= H /\ C < H /\ C \in 0 .. Size - 1
      BY <1>2, RingTypes DEF QueueInv, RingInv, ThreadProcess
    <3>2. Mask(curr) \in Index /\ Offset(Mask(curr)) = C
      BY <3>1, Offsets
    <3>3. Occupied(Mask(curr)) /\ Offset(Mask(curr)) >= C
      BY <3>1, <3>2 DEF Occupied
    <3>4. PICK o \in Owner : Owned(Mask(curr), o)
      BY <3>2, <3>3 DEF ClientInv, SlotIds
    <3> QED
      BY <3>4, BaseTask DEF Owned
  <2>5. RunOwner'
    BY <1>2, <2>1, <2>4 DEF RunOwner, ThreadProcess, ring
  <2> QED
    BY <2>1, <2>2, <2>3, <2>5, QuietClient
<1>3. CASE ThreadCheck \/ ThreadSignal \/ ThreadTest \/ ThreadBlock \/ ThreadWake \/ SpuriousWakeup
  <2>1. /\ UNCHANGED <<ring, queue_id, alive>>
        /\ thread'.pc # "run" \/ thread' = thread
        /\ pd' = pd \/ (pd.pc = "wait_sleep" /\ pd' = [pd EXCEPT !.pc = "wait_lock"])
    BY <1>0, <1>3 DEF ThreadCheck, ThreadSignal, ThreadTest, ThreadBlock, ThreadWake, SpuriousWakeup, ThreadGoto, PdGoto
  <2>2. RunOwner'
    BY <2>1 DEF ClientInv, RunOwner, ring
  <2>3. \/ pd' = pd
        \/ pd.pc = "wait_sleep" /\ pd'.pc = "wait_lock" /\ pd'.op = pd.op /\ pd'.owner = pd.owner
    BY <1>0, <2>1
  <2>4. /\ FinishOwner' /\ (InCallback' <=> InCallback)
        /\ pd'.pc = "add_head" <=> pd.pc = "add_head"
    BY <2>1, <2>3 DEF ClientInv, FinishOwner, InCallback, WaitPc
  <2> QED
    BY <2>1, <2>2, <2>4, QuietClient
<1> QED
  BY <1>1, <1>2, <1>3 DEF ThreadSteps

LEMMA ClientInitially == Init => ClientInv
<1> SUFFICES ASSUME Init PROVE ClientInv
  OBVIOUS
<1>1. H = 0 /\ C = 0 /\ TypeOK
  <2>1. Dist(0, 0) = 0
    BY SizeAssumption DEF Dist
  <2> QED
    BY <2>1, InitType DEF Init, H, C
<1>2. \A i \in Index : Offset(i) \in 0 .. Size - 1
  BY <1>1, Offsets
<1>3. \A i \in Index : ~Occupied(i)
  BY <1>1, <1>2 DEF Occupied, Init
<1>4. IdSlots /\ SlotIds
  BY <1>3 DEF IdSlots, SlotIds, Init
<1>5. CalledId /\ RunOwner /\ FinishOwner
  BY DEF CalledId, InCallback, RunOwner, FinishOwner, Init, LoopOps
<1> QED
  BY <1>4, <1>5 DEF ClientInv

LEMMA ClientInductive ==
    ASSUME OnlyBase
    PROVE  QueueInv /\ ClientInv /\ [Next]_vars => ClientInv'
<1> SUFFICES ASSUME QueueInv, ClientInv, [Next]_vars PROVE ClientInv'
  OBVIOUS
<1>1. CASE UNCHANGED vars
  <2>1. UNCHANGED <<ring, queue_id, alive, pd, thread>>
    BY <1>1 DEF vars, ring
  <2>2. RunOwner' /\ FinishOwner' /\ (InCallback' <=> InCallback)
    BY <2>1 DEF ClientInv, RunOwner, FinishOwner, InCallback, ring
  <2> QED
    BY <2>1, <2>2, QuietClient
<1>2. CASE Next
  BY <1>2, PdCallsClient, PdStepsClient, ThreadStepsClient DEF Next
<1> QED
  BY <1>1, <1>2

(* Between an object of the base class and the queue, whatever messages,    *)
(* callbacks and deletions there are: pdp_base_free leaves no task, no      *)
(* callback and no id store behind, and b_queue_id names the object's own   *)
(* task.                                                                    *)
THEOREM Safe == OnlyBase => (Spec => []ClientsSafe)
<1> SUFFICES ASSUME OnlyBase PROVE Spec => []ClientsSafe
  OBVIOUS
<1>1. QueueInv /\ ClientInv => ClientsSafe
  <2> SUFFICES ASSUME QueueInv, ClientInv PROVE ClientsSafe
    OBVIOUS
  <2>1. /\ TypeOK /\ C <= H /\ C \in 0 .. Size - 1 /\ H \in 0 .. Size - 1
        /\ q \in [Index -> Item]
    BY RingTypes DEF QueueInv, RingInv, TypeOK
  <2>2. /\ \A i : i \in Window(tail, head) <=> i \in Index /\ Offset(i) < H
        /\ \A i : i \in Window(curr, head) <=> i \in Index /\ C <= Offset(i) /\ Offset(i) < H
        /\ Mask(curr) \in Index /\ Offset(Mask(curr)) = C
        /\ Mask(head) \in Index /\ Offset(Mask(head)) = H
        /\ \A i, j \in Index : Offset(i) = Offset(j) => i = j
        /\ \A i \in Index : Offset(i) \in 0 .. Size - 1
    BY <2>1, Offsets
  <2>3. ASSUME NEW i \in Window(tail, head), q[i].x_callback \/ q[i].x_queue_id
        PROVE  alive[q[i].x_owner]
    <3>1. i \in Index /\ Occupied(i)
      BY <2>2 DEF Occupied
    <3>2. PICK o \in Owner : Owned(i, o)
      BY <2>1, <2>3, <3>1 DEF ClientInv, SlotIds
    <3> QED
      BY <3>2, BaseTask DEF Owned
  <2>4. ASSUME NEW i \in Window(curr, head)
        PROVE  i \in Window(tail, head) /\ q[i].x_callback
    <3>1. i \in Index /\ Occupied(i) /\ C <= Offset(i) /\ Offset(i) < H
      BY <2>2 DEF Occupied
    <3>2. Offset(i) >= C
      BY <2>1, <2>2, <3>1
    <3> QED
      BY <2>2, <3>1, <3>2 DEF ClientInv, SlotIds
  <2>5. ASSUME thread.pc = "run" PROVE alive[thread.owner]
    <3>1. C < H
      BY <2>5 DEF QueueInv, RingInv
    <3>2. Mask(curr) \in Window(curr, head)
      BY <2>1, <2>2, <3>1
    <3>3. thread.owner = q[Mask(curr)].x_owner
      BY <2>5 DEF ClientInv, RunOwner
    <3> QED
      BY <2>3, <2>4, <3>2, <3>3
  <2>6. NoUseAfterFree
    BY <2>3, <2>4, <2>5 DEF NoUseAfterFree
  <2>7. IdIsOwnTask
    <3> SUFFICES ASSUME NEW o \in Owner, alive[o], queue_id[o] # NoId,
                        NEW i, i = queue_id[o]
                 PROVE  /\ i \in Window(tail, head) \/ (pd.pc = "add_head" /\ i = Mask(head))
                        /\ q[i] = Task(o)
      BY DEF IdIsOwnTask, Owner
    <3>1. Occupied(i) /\ q[i] = Task(o)
      BY DEF ClientInv, IdSlots
    <3> QED
      BY <2>2, <3>1 DEF Occupied
  <2> QED
    BY <2>6, <2>7 DEF ClientsSafe
<1> QED
  BY <1>1, QueueInitially, QueueInductive, ClientInitially, ClientInductive, PTL DEF Spec

-----------------------------------------------------------------------------
(* The ring is a queue *)

LEMMA SlotsSeq ==
    ASSUME TypeOK, NEW a \in Int, NEW b \in Int
    PROVE  /\ Slots(a, b) \in Seq(Item) /\ Len(Slots(a, b)) = Dist(b, a)
           /\ Dist(b, a) \in 0 .. Size - 1
           /\ \A k \in 1 .. Dist(b, a) : Slots(a, b)[k] = q[Mask(a + k - 1)]
<1>1. Dist(b, a) \in 0 .. Size - 1
  BY DistRange
<1>2. \A k \in 1 .. Dist(b, a) : q[Mask(a + k - 1)] \in Item
  <2> SUFFICES ASSUME NEW k \in 1 .. Dist(b, a) PROVE q[Mask(a + k - 1)] \in Item
    OBVIOUS
  <2>1. a + k - 1 \in Int
    BY <1>1
  <2> QED
    BY <2>1, MaskType DEF TypeOK
<1>3. Slots(a, b) \in [1 .. Dist(b, a) -> Item]
  BY <1>2 DEF Slots
<1>4. Dist(b, a) \in Nat
  BY <1>1
<1>5. Slots(a, b) \in Seq(Item)
  BY <1>3, <1>4, SeqDef
<1>6. DOMAIN Slots(a, b) = 1 .. Dist(b, a)
  BY <1>3
<1>7. Len(Slots(a, b)) = Dist(b, a)
  BY <1>4, <1>5, <1>6, LenProperties
<1> QED
  BY <1>1, <1>5, <1>7 DEF Slots

(* Two slots of the ring are the same when their distances are. *)
LEMMA SlotAtInc ==
    ASSUME NEW a \in Counter, NEW d \in Int
    PROVE  Mask(Inc(a) + d) = Mask(a + 1 + d)
<1>1. PICK k \in Int : Inc(a) = a + 1 + Size * k
  BY IncFacts
<1> DEFINE x == a + 1 + d
<1>2. a \in Int /\ x \in Int /\ Size * k \in Int
  BY CounterFacts
<1>3. Inc(a) + d = x + Size * k
  BY <1>1, <1>2
<1> HIDE DEF x
<1>4. (x + Size * k) % Size = x % Size
  BY <1>2, CounterFacts, ModShift
<1> QED
  BY <1>3, <1>4 DEF Mask, x

LEMMA SlotsAppend ==
    ASSUME TypeOK, NEW a \in Counter, NEW b \in Counter, Dist(b, a) < Size - 1
    PROVE  Slots(a, Inc(b)) = Append(Slots(a, b), q[Mask(b)])
<1> DEFINE n == Dist(b, a)
           s == Slots(a, b)
           t == Slots(a, Inc(b))
           e == q[Mask(b)]
<1>1. a \in Int /\ b \in Int /\ Inc(b) \in Int
  BY CounterFacts, IncFacts
<1>2. n \in 0 .. Size - 1 /\ Dist(Inc(b), a) = n + 1
  BY <1>1, DistRange, DistIncLeft
<1>3. /\ s \in Seq(Item) /\ Len(s) = n /\ \A k \in 1 .. n : s[k] = q[Mask(a + k - 1)]
      /\ t \in Seq(Item) /\ Len(t) = n + 1 /\ \A k \in 1 .. n + 1 : t[k] = q[Mask(a + k - 1)]
  BY <1>1, <1>2, SlotsSeq
<1>4. e \in Item
  BY <1>1, MaskType DEF TypeOK
<1>5. t[n + 1] = e
  <2>1. Dist(Mask(b), a) = n /\ Mask(b) \in Index
    BY <1>1, MaskDist, MaskType
  <2>2. Mask(a + n) = Mask(b)
    BY <1>1, <2>1, SlotAtDist
  <2>3. a + (n + 1) - 1 = a + n /\ n + 1 \in 1 .. n + 1
    BY <1>1, <1>2
  <2> QED
    BY <1>3, <2>2, <2>3
<1> HIDE DEF n, s, t, e
<1>6. /\ Append(s, e) \in Seq(Item) /\ Len(Append(s, e)) = n + 1
      /\ \A k \in 1 .. n : Append(s, e)[k] = s[k]
  BY <1>2, <1>3, <1>4, AppendProperties
<1>7. Append(s, e)[n + 1] = e
  BY <1>2, <1>3, <1>4, AppendProperties
<1>8. \A k \in 1 .. n + 1 : t[k] = Append(s, e)[k]
  BY <1>2, <1>3, <1>5, <1>6, <1>7
<1>9. t = Append(s, e)
  BY <1>3, <1>6, <1>8, SeqEqual
<1> QED
  BY <1>9 DEF s, t, e

LEMMA SlotsTail ==
    ASSUME TypeOK, NEW a \in Counter, NEW b \in Counter, Dist(b, a) > 0
    PROVE  /\ Slots(a, b) # <<>> /\ Head(Slots(a, b)) = q[Mask(a)]
           /\ Slots(Inc(a), b) = Tail(Slots(a, b))
<1> DEFINE n == Dist(b, a)
           s == Slots(a, b)
           t == Slots(Inc(a), b)
<1>1. a \in Int /\ b \in Int /\ Inc(a) \in Int
  BY CounterFacts, IncFacts
<1>2. n \in 0 .. Size - 1 /\ Dist(b, Inc(a)) = n - 1 /\ n > 0
  BY <1>1, DistRange, DistIncRight
<1>3. /\ s \in Seq(Item) /\ Len(s) = n /\ \A k \in 1 .. n : s[k] = q[Mask(a + k - 1)]
      /\ t \in Seq(Item) /\ Len(t) = n - 1 /\ \A k \in 1 .. n - 1 : t[k] = q[Mask(Inc(a) + k - 1)]
  BY <1>1, <1>2, SlotsSeq
<1>4. \A k \in 1 .. n - 1 : t[k] = s[k + 1]
  <2> SUFFICES ASSUME NEW k \in 1 .. n - 1 PROVE t[k] = s[k + 1]
    OBVIOUS
  <2>1. k - 1 \in Int /\ Inc(a) + k - 1 = Inc(a) + (k - 1) /\ a + 1 + (k - 1) = a + (k + 1) - 1
    BY <1>1, <1>2
  <2>2. Mask(Inc(a) + (k - 1)) = Mask(a + 1 + (k - 1))
    BY <2>1, SlotAtInc
  <2>3. k + 1 \in 1 .. n
    BY <1>2
  <2> QED
    BY <1>3, <2>1, <2>2, <2>3
<1>5. s[1] = q[Mask(a)]
  <2>1. a + 1 - 1 = a /\ 1 \in 1 .. n
    BY <1>1, <1>2
  <2> QED
    BY <1>3, <2>1
<1> HIDE DEF n, s, t
<1>6. s # <<>>
  BY <1>2, <1>3, EmptySeq
<1>7. /\ Head(s) = s[1] /\ Tail(s) \in Seq(Item) /\ Len(Tail(s)) = n - 1
      /\ \A k \in 1 .. n - 1 : Tail(s)[k] = s[k + 1]
  BY <1>2, <1>3, <1>6, HeadTailProperties
<1>8. t = Tail(s)
  <2>1. \A k \in 1 .. Len(t) : t[k] = Tail(s)[k]
    BY <1>3, <1>4, <1>7
  <2> QED
    BY <1>3, <1>7, <2>1, SeqEqual
<1> QED
  BY <1>5, <1>6, <1>7, <1>8 DEF s, t

(* The slot that an add has filled holds the task it was made for, and the  *)
(* pd thread waits for an object that exists.                               *)
FillInv ==
    /\ pd.pc = "add_head" => pd.owner \in Owner /\ q[Mask(head)] = Task(pd.owner)
    /\ pd.op \in {"finish", "qt_close", "qt_bang"} /\ pd.pc \in WaitPc \union {"qt_add"} =>
           pd.owner \in Owner

LEMMA AddReturns ==
    ASSUME QueueInv, AddReturn
    PROVE  pd'.pc \in {"cb_run", "idle"}
<1>1. pd \in [pc : PdPc, op : PdOp, owner : Owner \union {None}]
  BY DEF QueueInv, TypeOK
<1>2. CASE pd.op \in LoopOps
  BY <1>1, <1>2 DEF AddReturn
<1>3. CASE pd.op \notin LoopOps
  BY <1>3 DEF AddReturn, PdReturn, PdCall
<1> QED
  BY <1>2, <1>3

LEMMA AddFillInv ==
    ASSUME QueueInv, NEW o \in Owner, pdp_procqueue_add(o)
    PROVE  FillInv'
<1>1. /\ pd \in [pc : PdPc, op : PdOp, owner : Owner \union {None}]
      /\ q \in [Index -> Item] /\ Mask(head) \in Index
  BY RingTypes, MaskType DEF QueueInv, TypeOK
<1>2. CASE AddFull(o)
  BY <1>2, AddReturns DEF AddFull, FillInv, WaitPc
<1>3. CASE AddDirect(o)
  BY <1>1, <1>3 DEF AddDirect, FillInv, WaitPc
<1>4. CASE AddFill(o)
  BY <1>1, <1>4 DEF AddFill, FillInv, WaitPc
<1> QED
  BY <1>2, <1>3, <1>4 DEF pdp_procqueue_add

LEMMA FillInductive == QueueInv /\ FillInv /\ [Next]_vars => FillInv'
<1> SUFFICES ASSUME QueueInv, FillInv, [Next]_vars PROVE FillInv'
  OBVIOUS
<1>0. /\ pd \in [pc : PdPc, op : PdOp, owner : Owner \union {None}]
      /\ pd.pc = "qt_add" => pd.op = "qt_bang"
  BY DEF QueueInv, TypeOK, PdShape
<1>1. CASE UNCHANGED vars
  BY <1>1 DEF vars, FillInv
<1>2. CASE PdCalls
  <2>1. ASSUME NEW o \in Owner, NEW op, StartWait(op, o) PROVE FillInv'
    BY <2>1 DEF StartWait, PdCall, FillInv
  <2>2. ASSUME NEW o \in BaseOwner \union DpdOwner, pdp_base_bang(o) \/ pdp_dpd_base_queue_command(o)
        PROVE  FillInv'
    BY <2>2, AddFillInv DEF pdp_base_bang, pdp_dpd_base_queue_command, Owner
  <2>3. ASSUME NEW o \in QtOwner, pdp_qt_bang(o) \/ pdp_qt_close(o) PROVE FillInv'
    BY <2>1, <2>3, AddFillInv DEF pdp_qt_bang, pdp_qt_close, Owner
  <2>4. ASSUME NEW o \in Owner, New(o) \/ FreeAtOnce(o) PROVE FillInv'
    BY <2>4 DEF New, FreeAtOnce, ring, FillInv
  <2>5. ASSUME NEW o \in Owner, FreeWait(o) PROVE FillInv'
    BY <2>1, <2>5 DEF FreeWait
  <2>6. ASSUME NEW op \in {"wait", "flush", "use_thread"}, Call(op) PROVE FillInv'
    BY <2>6 DEF Call, StartWait, PdCall, FillInv
  <2>7. CASE ThreadOn
    BY <2>7 DEF ThreadOn, ring, FillInv
  <2>8. CASE pdp_procqueue_tick
    BY <2>8 DEF pdp_procqueue_tick, PdCall, Idle, ring, FillInv, WaitPc
  <2> QED
    BY <1>2, <2>2, <2>3, <2>4, <2>5, <2>6, <2>7, <2>8 DEF PdCalls
<1>3. CASE PdSteps
  <2>1. CASE AddHead
    BY <1>0, <2>1 DEF AddHead, PdGoto, FillInv, WaitPc
  <2>2. CASE pdp_procqueue_signal_processor \/ DirectDone
    BY <2>2, AddReturns DEF pdp_procqueue_signal_processor, DirectDone, FillInv, WaitPc
  <2>3. CASE WaitLock \/ WaitTest \/ WaitBlock
    BY <1>0, <2>3 DEF WaitLock, WaitTest, WaitBlock, PdGoto, FillInv, WaitPc
  <2>4. CASE WaitDone \/ FreeFinish \/ QtCloseFinish \/ TickDone \/ FlushDone \/ ThreadOffDone
    BY <1>0, <2>4 DEF WaitDone, FreeFinish, QtCloseFinish, TickDone, FlushDone, ThreadOffDone,
                      PdReturn, PdCall, FillInv, WaitPc
  <2>5. CASE QtBangFinish
    BY <1>0, <2>5 DEF QtBangFinish, WaitOver, PdGoto, FillInv, WaitPc
  <2>6. CASE QtBangAdd
    <3>1. pd.owner \in Owner /\ pdp_procqueue_add(pd.owner)
      BY <1>0, <2>6 DEF QtBangAdd, FillInv
    <3> QED
      BY <3>1, AddFillInv
  <2>7. CASE Callback \/ CallbackReturn
    BY <1>0, <2>7 DEF Callback, CallbackReturn, PdGoto, FillInv, WaitPc
  <2>8. CASE FlushWaited \/ FlushWaitAgain \/ ThreadOff
    BY <1>0, <2>8 DEF FlushWaited, FlushWaitAgain, ThreadOff, CallbacksOver, PdGoto, PdCall, FillInv, WaitPc
  <2> QED
    BY <1>3, <2>1, <2>2, <2>3, <2>4, <2>5, <2>6, <2>7, <2>8 DEF PdSteps
<1>4. CASE SpuriousWakeup \/ ThreadSteps
  <2>1. /\ UNCHANGED <<q, head>>
        /\ pd' = pd \/ (pd.pc = "wait_sleep" /\ pd' = [pd EXCEPT !.pc = "wait_lock"])
    BY <1>4 DEF SpuriousWakeup, ThreadSteps, ThreadCheck, ThreadSignal, ThreadTest, ThreadBlock,
                ThreadWake, ThreadProcess, ThreadAdvance, PdGoto, ring
  <2> QED
    BY <1>0, <2>1 DEF FillInv, WaitPc
<1> QED
  BY <1>1, <1>2, <1>3, <1>4 DEF Next

Todo == Slots(curr, head)
Done == Slots(tail, curr)

(* What the two sequences are made of. *)
LEMMA QueueSlots ==
    ASSUME QueueInv
    PROVE  /\ head \in Counter /\ curr \in Counter /\ tail \in Counter
           /\ C <= H /\ C \in 0 .. Size - 1 /\ H \in 0 .. Size - 1
           /\ Dist(head, curr) = H - C /\ Dist(curr, tail) = C
           /\ Len(Todo) = H - C /\ Len(Done) = C
           /\ Todo \in Seq(Item) /\ Done \in Seq(Item)
<1>1. TypeOK /\ C <= H
  BY DEF QueueInv, RingInv
<1>2. /\ head \in Int /\ curr \in Int /\ tail \in Int
      /\ C \in 0 .. Size - 1 /\ H \in 0 .. Size - 1
  BY <1>1, RingTypes
<1>3. Dist(head, curr) = H - C /\ Dist(curr, tail) = C
  BY <1>1, RingTests DEF C
<1>4. /\ Todo \in Seq(Item) /\ Done \in Seq(Item)
      /\ Len(Todo) = Dist(head, curr) /\ Len(Done) = Dist(curr, tail)
  BY <1>1, <1>2, SlotsSeq DEF Todo, Done
<1> QED
  BY <1>1, <1>2, <1>3, <1>4 DEF TypeOK

LEMMA SubmitStep ==
    ASSUME QueueInv, FillInv, AddHead
    PROVE  Abstract!Submit(Task(pd.owner)) /\ pd.owner \in Owner
<1>1. UNCHANGED <<q, curr, tail>> /\ head' = Inc(head) /\ pd.pc = "add_head" /\ H < Size - 1
  BY DEF AddHead, QueueInv, UseInv
<1>2. q[Mask(head)] = Task(pd.owner) /\ pd.owner \in Owner
  BY <1>1 DEF FillInv
<1>3. Dist(head, curr) < Size - 1 /\ Len(Todo) + Len(Done) < Size - 1
  BY <1>1, QueueSlots, SizeAssumption
<1>4. Slots(curr, Inc(head)) = Append(Slots(curr, head), q[Mask(head)])
  BY <1>3, QueueSlots, SlotsAppend DEF QueueInv
<1>5. Todo' = Append(Todo, Task(pd.owner)) /\ Done' = Done
  BY <1>1, <1>2, <1>4 DEF Todo, Done, Slots
<1> QED
  BY <1>2, <1>3, <1>5 DEF Abstract!Submit, Todo, Done

LEMMA ProcessStep ==
    ASSUME QueueInv, ThreadAdvance
    PROVE  Abstract!Process
<1>1. UNCHANGED <<q, head, tail>> /\ curr' = Inc(curr) /\ C < H
  BY DEF ThreadAdvance, QueueInv, RingInv
<1>2. Dist(head, curr) > 0 /\ Dist(curr, tail) < Size - 1
  BY <1>1, QueueSlots, SizeAssumption
<1>3. /\ Slots(curr, head) # <<>> /\ Head(Slots(curr, head)) = q[Mask(curr)]
      /\ Slots(Inc(curr), head) = Tail(Slots(curr, head))
  BY <1>2, QueueSlots, SlotsTail DEF QueueInv
<1>4. Slots(tail, Inc(curr)) = Append(Slots(tail, curr), q[Mask(curr)])
  BY <1>2, QueueSlots, SlotsAppend DEF QueueInv
<1>5. Todo' = Tail(Todo) /\ Done' = Append(Done, Head(Todo)) /\ Todo # <<>>
  BY <1>1, <1>3, <1>4 DEF Todo, Done, Slots
<1> QED
  BY <1>5 DEF Abstract!Process, Todo, Done

LEMMA CallBackStep ==
    ASSUME QueueInv, UNCHANGED <<q, head, curr>>, tail' = Inc(tail), C > 0
    PROVE  Abstract!CallBack
<1>1. Dist(curr, tail) > 0
  BY DEF C
<1>2. Slots(tail, curr) # <<>> /\ Slots(Inc(tail), curr) = Tail(Slots(tail, curr))
  BY <1>1, QueueSlots, SlotsTail DEF QueueInv
<1>3. Done # <<>> /\ Done' = Tail(Done) /\ Todo' = Todo
  BY <1>2 DEF Todo, Done, Slots
<1> QED
  BY <1>3 DEF Abstract!CallBack, Todo, Done

(* pdp_procqueue_finish, with nothing left to process, changes a task that  *)
(* was processed, or none.                                                  *)
LEMMA CancelStep ==
    ASSUME QueueInv, NEW i \in Int, q' = Invalidate(i), UNCHANGED <<head, curr, tail>>,
           Dist(curr, head) = 0
    PROVE  [Abstract!TaskQueueNext]_<<Todo, Done>>
<1> DEFINE m == Mask(i)
           n == Dist(curr, tail)
           d == Offset(m)
<1>1. TypeOK /\ C = H /\ m \in Index /\ q \in [Index -> Item]
  BY RingTests, MaskType DEF QueueInv, RingInv, TypeOK
<1>2. /\ head \in Int /\ curr \in Int /\ tail \in Int /\ n \in 0 .. Size - 1 /\ d \in 0 .. Size - 1
      /\ Len(Todo) = 0 /\ Todo \in Seq(Item)
  BY <1>1, RingTypes, QueueSlots, Offsets DEF C
<1>3. Todo = <<>> /\ Dist(head, curr) = 0
  BY <1>1, <1>2, QueueSlots, EmptySeq
<1>4. Todo' = Todo
  <2>1. Todo' \in Seq(Item) /\ Len(Todo') = 0
    BY <1>1, <1>2, <1>3 DEF Todo, Slots
  <2> QED
    BY <1>3, <2>1, EmptySeq
<1>5. /\ q'[m] = [q[m] EXCEPT !.x_callback = FALSE, !.x_queue_id = FALSE]
      /\ \A j \in Index : j # m => q'[j] = q[j]
  BY <1>1 DEF Invalidate, Item
<1>6. ASSUME NEW k \in 1 .. n
      PROVE  /\ Mask(tail + k - 1) \in Index
             /\ Mask(tail + k - 1) = m <=> k = d + 1
  <2>1. k - 1 \in 0 .. Size - 1 /\ tail + (k - 1) = tail + k - 1 /\ tail + k - 1 \in Int
    BY <1>2, SizeAssumption
  <2>2. Mask(tail + k - 1) \in Index /\ Offset(Mask(tail + k - 1)) = k - 1
    BY <1>2, <2>1, MaskType, DistOf DEF Offset
  <2>3. Mask(tail + k - 1) = m <=> k - 1 = d
    <3>1. \A i1, i2 \in Index : Offset(i1) = Offset(i2) => i1 = i2
      BY <1>1, <1>2, RingTypes, Offsets
    <3> QED
      BY <1>1, <2>2, <3>1
  <2> QED
    BY <1>2, <2>1, <2>2, <2>3
<1>7. /\ Done = [k \in 1 .. n |-> q[Mask(tail + k - 1)]]
      /\ Done' = [k \in 1 .. n |-> q'[Mask(tail + k - 1)]]
  BY DEF Done, Slots
<1> HIDE DEF m, n, d
<1>8. CASE d < n
  <2>1. d + 1 \in 1 .. n
    BY <1>2, <1>8
  <2>2. Done' = [Done EXCEPT ![d + 1] = [Done[d + 1] EXCEPT !.x_callback = FALSE, !.x_queue_id = FALSE]]
    BY <1>5, <1>6, <1>7, <2>1
  <2>3. d + 1 \in DOMAIN Done
    BY <1>7, <2>1
  <2>4. Abstract!Cancel(d + 1)
    BY <1>3, <1>4, <2>2 DEF Abstract!Cancel, Todo, Done
  <2> QED
    BY <2>3, <2>4 DEF Abstract!TaskQueueNext, Todo, Done
<1>9. CASE ~(d < n)
  <2>1. ASSUME NEW k \in 1 .. n PROVE Mask(tail + k - 1) # m
    <3>1. k # d + 1
      <4>1. n \in Int /\ d \in Int
        BY <1>2, SizeAssumption
      <4> QED
        BY <1>9, <4>1
    <3> QED
      BY <1>6, <3>1
  <2>2. Done' = Done
    BY <1>5, <1>6, <1>7, <2>1
  <2> QED
    BY <1>4, <2>2
<1> QED
  BY <1>8, <1>9

(* Filling a slot that is not counted yet. *)
LEMMA FillStep ==
    ASSUME QueueInv, NEW o, AddFill(o)
    PROVE  UNCHANGED <<Todo, Done>>
<1> DEFINE s == Mask(head)
<1>1. /\ TypeOK /\ UNCHANGED <<head, curr, tail>> /\ q' = [q EXCEPT ![s] = Task(o)]
      /\ q \in [Index -> Item] /\ C <= H
  BY DEF AddFill, QueueInv, RingInv, TypeOK
<1>2. /\ head \in Int /\ curr \in Int /\ tail \in Int
      /\ C \in 0 .. Size - 1 /\ H \in 0 .. Size - 1 /\ s \in Index /\ Offset(s) = H
  BY <1>1, RingTypes, Offsets
<1>3. \A j \in Index : j # s => q'[j] = q[j]
  BY <1>1
<1>4. ASSUME NEW d \in 0 .. H - 1
      PROVE  Mask(tail + d) \in Index /\ Mask(tail + d) # s
  <2>1. d \in 0 .. Size - 1 /\ tail + d \in Int /\ d # H
    BY <1>2, SizeAssumption
  <2>2. Offset(Mask(tail + d)) = d /\ Mask(tail + d) \in Index
    BY <1>2, <2>1, DistOf, MaskType DEF Offset
  <2> QED
    BY <1>2, <2>1, <2>2
<1>5. ASSUME NEW k \in 1 .. Dist(curr, tail)
      PROVE  q'[Mask(tail + k - 1)] = q[Mask(tail + k - 1)]
  <2>1. k - 1 \in 0 .. H - 1 /\ tail + (k - 1) = tail + k - 1
    BY <1>1, <1>2 DEF C
  <2> QED
    BY <1>3, <1>4, <2>1
<1>6. ASSUME NEW k \in 1 .. Dist(head, curr)
      PROVE  q'[Mask(curr + k - 1)] = q[Mask(curr + k - 1)]
  <2>1. Dist(head, curr) = H - C
    BY <1>1, RingTests
  <2>2. k - 1 \in Int /\ C + (k - 1) \in 0 .. H - 1 /\ curr + (k - 1) = curr + k - 1
    BY <1>1, <1>2, <2>1
  <2>3. Mask(curr + (k - 1)) = Mask(tail + (C + (k - 1)))
    <3>1. Mask(tail + C) = Mask(curr)
      BY <1>1, <1>2, Offsets, SlotAtDist DEF Offset
    <3>2. (curr + (k - 1)) % Size = ((curr % Size) + (k - 1)) % Size
      BY <1>2, <2>2, CounterFacts, ModAdd
    <3>3. tail + C \in Int /\ tail + (C + (k - 1)) = (tail + C) + (k - 1)
      BY <1>2, <2>2
    <3>4. ((tail + C) + (k - 1)) % Size = (((tail + C) % Size) + (k - 1)) % Size
      BY <2>2, <3>3, CounterFacts, ModAdd
    <3> QED
      BY <3>1, <3>2, <3>3, <3>4 DEF Mask
  <2> QED
    BY <1>3, <1>4, <2>2, <2>3
<1>7. Done' = Done
  BY <1>1, <1>5 DEF Done, Slots
<1>8. Todo' = Todo
  BY <1>1, <1>6 DEF Todo, Slots
<1> QED
  BY <1>7, <1>8

LEMMA RingStep == QueueInv /\ FillInv /\ [Next]_vars => [Abstract!TaskQueueNext]_<<Todo, Done>>
<1> SUFFICES ASSUME QueueInv, FillInv, [Next]_vars
             PROVE  [Abstract!TaskQueueNext]_<<Todo, Done>>
  OBVIOUS
<1>0. /\ TypeOK /\ C <= H /\ queue_id \in [Owner -> Index \union {NoId}]
      /\ pd \in [pc : PdPc, op : PdOp, owner : Owner \union {None}]
      /\ pd.pc = "qt_add" => pd.op = "qt_bang"
  BY DEF QueueInv, RingInv, TypeOK, PdShape
<1>1. ASSUME UNCHANGED ring PROVE UNCHANGED <<Todo, Done>>
  BY <1>1 DEF ring, Todo, Done, Slots
<1>2. ASSUME NEW o, pdp_procqueue_add(o) PROVE UNCHANGED <<Todo, Done>>
  BY <1>1, <1>2, FillStep DEF pdp_procqueue_add, AddFull, AddDirect
<1>3. CASE UNCHANGED vars
  BY <1>1, <1>3 DEF vars, ring
<1>4. CASE PdCalls
  <2>1. UNCHANGED ring \/ \E o \in Owner : pdp_procqueue_add(o)
    BY <1>4 DEF PdCalls, New, FreeAtOnce, FreeWait, pdp_base_bang, pdp_qt_bang, pdp_qt_close,
                pdp_dpd_base_queue_command, Call, ThreadOn, pdp_procqueue_tick, StartWait, Owner
  <2> QED
    BY <1>1, <1>2, <2>1
<1>5. CASE AddHead
  BY <1>5, SubmitStep DEF Abstract!TaskQueueNext, Todo, Done
<1>6. CASE FreeFinish \/ QtCloseFinish \/ QtBangFinish
  <2>1. /\ q' = Invalidate(queue_id[pd.owner]) /\ UNCHANGED <<head, curr, tail>>
        /\ Dist(curr, head) = 0
    BY <1>6 DEF FreeFinish, QtCloseFinish, QtBangFinish, WaitOver
  <2>2. pd.owner \in Owner
    BY <1>6 DEF FreeFinish, QtCloseFinish, QtBangFinish, WaitOver, FillInv, WaitPc
  <2>3. queue_id[pd.owner] \in Int
    <3>1. queue_id[pd.owner] \in Index \union {NoId}
      BY <1>0, <2>2
    <3> QED
      BY <3>1, SizeAssumption DEF NoId, Index
  <2>4. [Abstract!TaskQueueNext]_<<Todo, Done>>
    BY <2>1, <2>3, CancelStep
  <2> QED
    BY <2>4
<1>7. CASE Callback
  <2>1. UNCHANGED <<q, head, curr>> /\ (tail' = tail \/ tail' = Inc(tail)) /\ C > 0
    <3>1. C # 0 /\ C \in 0 .. Size - 1
      BY <1>0, <1>7, RingTypes DEF Callback, C
    <3> QED
      BY <1>7, <3>1 DEF Callback
  <2> QED
    BY <1>1, <2>1, CallBackStep DEF Abstract!TaskQueueNext, ring, Todo, Done
<1>8. CASE CallbackReturn
  <2>1. UNCHANGED <<q, head, curr>> /\ tail' = Inc(tail) /\ C > 0
    BY <1>8 DEF CallbackReturn, QueueInv, RingInv, InCallback
  <2> QED
    BY <2>1, CallBackStep DEF Abstract!TaskQueueNext, Todo, Done
<1>9. CASE QtBangAdd
  BY <1>2, <1>9 DEF QtBangAdd
<1>10. CASE PdSteps
  <2>1. \/ AddHead \/ FreeFinish \/ QtCloseFinish \/ QtBangFinish \/ QtBangAdd
        \/ Callback \/ CallbackReturn \/ UNCHANGED ring
    BY <1>10 DEF PdSteps, pdp_procqueue_signal_processor, DirectDone, WaitLock, WaitTest, WaitBlock,
                 WaitDone, TickDone, FlushWaited, FlushWaitAgain, FlushDone, ThreadOff, ThreadOffDone
  <2> QED
    BY <1>1, <1>5, <1>6, <1>7, <1>8, <1>9, <2>1
<1>11. CASE ThreadAdvance
  BY <1>11, ProcessStep DEF Abstract!TaskQueueNext, Todo, Done
<1>12. CASE SpuriousWakeup \/ ThreadSteps
  <2>1. ThreadAdvance \/ UNCHANGED ring
    BY <1>12 DEF SpuriousWakeup, ThreadSteps, ThreadCheck, ThreadSignal, ThreadTest, ThreadBlock,
                 ThreadWake, ThreadProcess
  <2> QED
    BY <1>1, <1>11, <2>1
<1> QED
  BY <1>3, <1>4, <1>10, <1>12 DEF Next

(* The ring that two threads share without a lock is a queue: every step of *)
(* pdp_procqueue_add, of the processing thread, of the callbacks and of     *)
(* pdp_procqueue_finish is a step of TaskQueue, or does not change what is  *)
(* left to process and to call back; for every size of the ring, every      *)
(* width of int and every set of clients.                                   *)
THEOREM ImplementsQueue == Spec => ImplementsTaskQueue
<1>1. Init => Abstract!TaskQueueInit
  <2> SUFFICES ASSUME Init PROVE Abstract!TaskQueueInit
    OBVIOUS
  <2>1. QueueInv /\ H = 0 /\ C = 0
    <3>1. Dist(0, 0) = 0
      BY SizeAssumption DEF Dist
    <3> QED
      BY <3>1, QueueInitially DEF Init, H, C
  <2>2. Todo = <<>> /\ Done = <<>>
    BY <2>1, QueueSlots, EmptySeq
  <2> QED
    BY <2>2 DEF Abstract!TaskQueueInit, Todo, Done
<1>2. Init => FillInv
  BY DEF Init, FillInv
<1>3. QueueInv /\ FillInv /\ [Next]_vars => [Abstract!TaskQueueNext]_<<Slots(curr, head), Slots(tail, curr)>>
  BY RingStep DEF Todo, Done
<1>4. QueueInv /\ FillInv /\ [Next]_vars => QueueInv' /\ FillInv'
  BY QueueInductive, FillInductive
<1> QED
  BY <1>1, <1>2, <1>3, <1>4, QueueInitially, PTL DEF Spec, ImplementsTaskQueue, Abstract!TaskQueueSpec

=============================================================================
