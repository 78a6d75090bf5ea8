------------------------------ MODULE ProcQueue ------------------------------
(***************************************************************************)
(* The pdp processing queue (puredata/pdp_queue.c): a ring of tasks shared *)
(* by the pd thread, which adds tasks and runs their callbacks, and one    *)
(* processing thread, which runs their process methods.  The two threads   *)
(* share head, curr, tail and the ring without a lock; the mutex and the   *)
(* two condition variables are only used to sleep and to wake.             *)
(*                                                                         *)
(* The clients of the queue are modelled by what they do with it:          *)
(*   BaseOwner  objects of pdp_base.c: one task at a time, guarded by      *)
(*              b_queue_id, cancelled by pdp_procqueue_finish when freed;  *)
(*   QtOwner    pdp_qt.c: finish + reset of the id before each add, and a  *)
(*              close that finishes without resetting the id;              *)
(*   DpdOwner   objects of pdp_dpd_base.c: any number of tasks, added      *)
(*              without a queue id.                                        *)
(***************************************************************************)
EXTENDS Integers, Sequences

CONSTANTS
    Size,        \* slots of the ring: 1 << logsize
    Width,       \* number of values of a C int, a multiple of Size
    BaseOwner, QtOwner, DpdOwner

Owner == BaseOwner \union QtOwner \union DpdOwner

ASSUME SizeAssumption == Size \in Nat \ {0, 1}
ASSUME WidthAssumption == Width \in Nat \ {0} /\ Width % Size = 0
ASSUME OwnerAssumption ==
    /\ BaseOwner \cap QtOwner = {}
    /\ BaseOwner \cap DpdOwner = {}
    /\ QtOwner \cap DpdOwner = {}

VARIABLES
    q,           \* the ring
    head,        \* where the next task is added
    curr,        \* the task being processed
    tail,        \* the next task to call back
    use_thread,
    clock,       \* pdp_clock is set
    queue_id,    \* the queue id each owner keeps
    alive,       \* the owner has been created and not freed
    mutex,       \* who holds mut
    pd,          \* the pd thread: program counter, operation, owner it serves
    thread       \* the processing thread: program counter, owner it serves

ring == <<q, head, curr, tail>>
vars == <<q, head, curr, tail, use_thread, clock, queue_id, alive, mutex, pd, thread>>

Index == 0 .. Size - 1
Counter == 0 .. Width - 1
NoId == -1
None == "none"

(***************************************************************************)
(* C arithmetic on the counters: & mask, and ++ on an int.                 *)
(***************************************************************************)
Mask(n) == n % Size
Dist(a, b) == (a - b) % Size
Inc(n) == (n + 1) % Width

Item == [x_owner : Owner \union {None}, x_process : BOOLEAN,
         x_callback : BOOLEAN, x_queue_id : BOOLEAN]

(* The zeroed slot memset leaves behind. *)
EmptyItem == [x_owner |-> None, x_process |-> FALSE,
              x_callback |-> FALSE, x_queue_id |-> FALSE]

(* What each class of client adds. *)
Task(o) == [x_owner |-> o, x_process |-> TRUE, x_callback |-> o \notin DpdOwner,
            x_queue_id |-> o \notin DpdOwner]

(* The slots from counter a up to counter b. *)
Window(a, b) == {Mask(a + d) : d \in 0 .. Dist(b, a) - 1}

pdp_procqueue_full == Dist(tail, head) = 1

LoopOps == {"tick", "flush", "use_thread"}
WaitPc == {"wait_lock", "wait_test", "wait_block", "wait_sleep"}
PdPc == {"idle", "direct", "add_head", "add_signal", "qt_add", "cb", "cb_run"} \union WaitPc
PdOp == {"none", "wait", "finish", "qt_close", "qt_bang", "flush_again"} \union LoopOps
ThreadPc == {"check", "signal", "test", "block", "sleep", "wake", "process", "run"}

(***************************************************************************)
(* pdp_procqueue_init: the thread is created with use_thread set, and the  *)
(* pd thread goes on to pdp_procqueue_use_thread(q, 0).                    *)
(***************************************************************************)
Init ==
    /\ q = [i \in Index |-> EmptyItem]
    /\ head = 0 /\ curr = 0 /\ tail = 0
    /\ use_thread = TRUE
    /\ clock = TRUE
    /\ queue_id = [o \in Owner |-> NoId]
    /\ alive = [o \in Owner |-> FALSE]
    /\ mutex = None
    /\ pd = [pc |-> "wait_lock", op |-> "use_thread", owner |-> None]
    /\ thread = [pc |-> "check", owner |-> None]

-----------------------------------------------------------------------------
(* The pd thread *)

Idle == pd.pc = "idle"

(* A message from a patch reaches an object when the pd thread is idle, or *)
(* inside a callback that propagates its output to other objects.          *)
CanAdd == pd.pc \in {"idle", "cb_run"}

PdGoto(pc) == pd' = [pd EXCEPT !.pc = pc]
PdCall(op, o, pc) == pd' = [pc |-> pc, op |-> op, owner |-> o]
PdReturn == PdCall("none", None, "idle")

(* An add, made by a callback or not, goes back to its caller. *)
AddReturn == IF pd.op \in LoopOps THEN pd' = [pd EXCEPT !.pc = "cb_run", !.owner = None]
                                  ELSE PdReturn

(* An object is created: its queue id starts as -1. *)
New(o) ==
    /\ Idle /\ ~alive[o]
    /\ alive' = [alive EXCEPT ![o] = TRUE]
    /\ queue_id' = [queue_id EXCEPT ![o] = NoId]
    /\ UNCHANGED <<ring, use_thread, clock, mutex, pd, thread>>

(***************************************************************************)
(* pdp_procqueue_add.  Without the thread the two methods are called here; *)
(* on a full ring only the callback is; else the slot is filled, head      *)
(* moves and the processing thread is signalled.                           *)
(***************************************************************************)
AddDirect(o) ==
    /\ ~use_thread
    /\ queue_id' = IF Task(o).x_queue_id THEN [queue_id EXCEPT ![o] = NoId] ELSE queue_id
    /\ pd' = [pd EXCEPT !.pc = "direct", !.owner = o]
    /\ UNCHANGED <<ring, use_thread, clock, alive, mutex, thread>>

AddFull(o) ==
    /\ use_thread /\ pdp_procqueue_full
    /\ queue_id' = IF Task(o).x_queue_id THEN [queue_id EXCEPT ![o] = NoId] ELSE queue_id
    /\ AddReturn
    /\ UNCHANGED <<ring, use_thread, clock, alive, mutex, thread>>

AddFill(o) ==
    /\ use_thread /\ ~pdp_procqueue_full
    /\ q' = [q EXCEPT ![Mask(head)] = Task(o)]
    /\ queue_id' = IF Task(o).x_queue_id THEN [queue_id EXCEPT ![o] = Mask(head)] ELSE queue_id
    /\ pd' = [pd EXCEPT !.pc = "add_head", !.owner = o]
    /\ UNCHANGED <<head, curr, tail, use_thread, clock, alive, mutex, thread>>

pdp_procqueue_add(o) == AddDirect(o) \/ AddFull(o) \/ AddFill(o)

AddHead ==
    /\ pd.pc = "add_head"
    /\ head' = Inc(head)
    /\ PdGoto("add_signal")
    /\ UNCHANGED <<q, curr, tail, use_thread, clock, queue_id, alive, mutex, thread>>

(* Mutant: the signal is sent without the mutex. *)
SignalUnlocked ==
    /\ pd.pc = "add_signal"
    /\ thread' = IF thread.pc = "sleep" THEN [thread EXCEPT !.pc = "wake"] ELSE thread
    /\ AddReturn
    /\ UNCHANGED <<ring, use_thread, clock, queue_id, alive, mutex>>

pdp_procqueue_signal_processor ==
    /\ pd.pc = "add_signal" /\ mutex = None
    /\ thread' = IF thread.pc = "sleep" THEN [thread EXCEPT !.pc = "wake"] ELSE thread
    /\ AddReturn
    /\ UNCHANGED <<ring, use_thread, clock, queue_id, alive, mutex>>

(* The process method and the callback of a direct call are over. *)
DirectDone ==
    /\ pd.pc = "direct"
    /\ AddReturn
    /\ UNCHANGED <<ring, use_thread, clock, queue_id, alive, mutex, thread>>

(* pdp_base_bang: nothing while a task of this object is in the queue.  An  *)
(* object whose b_thread_enabled is 0 (PdpBase has that branch) calls both  *)
(* methods at once and leaves the queue as it is, a step that changes       *)
(* nothing here; what its callback sends on are bangs of other objects.     *)
pdp_base_bang(o) ==
    /\ o \in BaseOwner /\ CanAdd /\ alive[o]
    /\ queue_id[o] = NoId
    /\ pdp_procqueue_add(o)

(* pdp_dpd_base_queue_command: adds without a queue id. *)
pdp_dpd_base_queue_command(o) ==
    /\ o \in DpdOwner /\ CanAdd /\ alive[o]
    /\ pdp_procqueue_add(o)

(***************************************************************************)
(* pdp_procqueue_wait: sleep on cond_processingdone until curr = head.     *)
(***************************************************************************)
StartWait(op, o) ==
    /\ PdCall(op, o, "wait_lock")
    /\ UNCHANGED <<ring, use_thread, clock, queue_id, alive, mutex, thread>>

WaitLock ==
    /\ pd.pc = "wait_lock" /\ mutex = None
    /\ mutex' = "pd"
    /\ PdGoto("wait_test")
    /\ UNCHANGED <<ring, use_thread, clock, queue_id, alive, thread>>

WaitTest ==
    /\ pd.pc = "wait_test" /\ Dist(curr, head) # 0
    /\ PdGoto("wait_block")
    /\ UNCHANGED <<ring, use_thread, clock, queue_id, alive, mutex, thread>>

WaitBlock ==
    /\ pd.pc = "wait_block"
    /\ mutex' = None
    /\ PdGoto("wait_sleep")
    /\ UNCHANGED <<ring, use_thread, clock, queue_id, alive, thread>>

(* pthread_cond_wait may return without a signal. *)
SpuriousWakeup ==
    /\ \/ pd.pc = "wait_sleep" /\ PdGoto("wait_lock") /\ UNCHANGED thread
       \/ thread.pc = "sleep" /\ thread' = [thread EXCEPT !.pc = "wake"] /\ UNCHANGED pd
    /\ UNCHANGED <<ring, use_thread, clock, queue_id, alive, mutex>>

WaitOver(op) ==
    /\ pd.pc = "wait_test" /\ pd.op = op /\ Dist(curr, head) = 0
    /\ mutex' = None

WaitDone ==
    /\ WaitOver("wait")
    /\ PdReturn
    /\ UNCHANGED <<ring, use_thread, clock, queue_id, alive, thread>>

(***************************************************************************)
(* pdp_procqueue_finish: wait, then invalidate the callback at the index.  *)
(***************************************************************************)
Invalidate(i) == [q EXCEPT ![Mask(i)].x_callback = FALSE, ![Mask(i)].x_queue_id = FALSE]

(* pdp_base_free, also called by pdp_dpd_base_free and, through its close, *)
(* by pdp_qt_free.  An id of -1 makes pdp_procqueue_finish return at once. *)
FreeAtOnce(o) ==
    /\ Idle /\ alive[o] /\ queue_id[o] = NoId
    /\ alive' = [alive EXCEPT ![o] = FALSE]
    /\ UNCHANGED <<ring, use_thread, clock, queue_id, mutex, pd, thread>>

(* Mutant of FreeWait: the callback is cancelled without waiting. *)
FreeNoWait(o) ==
    /\ Idle /\ alive[o] /\ queue_id[o] # NoId
    /\ q' = Invalidate(queue_id[o])
    /\ alive' = [alive EXCEPT ![o] = FALSE]
    /\ UNCHANGED <<head, curr, tail, use_thread, clock, queue_id, mutex, pd, thread>>

FreeWait(o) ==
    /\ Idle /\ alive[o] /\ queue_id[o] # NoId
    /\ StartWait("finish", o)

FreeFinish ==
    /\ WaitOver("finish")
    /\ q' = Invalidate(queue_id[pd.owner])
    /\ alive' = [alive EXCEPT ![pd.owner] = FALSE]
    /\ PdReturn
    /\ UNCHANGED <<head, curr, tail, use_thread, clock, queue_id, thread>>

(* pdp_qt_close: finishes and keeps the id. *)
pdp_qt_close(o) ==
    /\ o \in QtOwner /\ Idle /\ alive[o] /\ queue_id[o] # NoId
    /\ StartWait("qt_close", o)

QtCloseFinish ==
    /\ WaitOver("qt_close")
    /\ q' = Invalidate(queue_id[pd.owner])
    /\ PdReturn
    /\ UNCHANGED <<head, curr, tail, use_thread, clock, queue_id, alive, thread>>

(* pdp_qt_bang: finishes the previous decode, resets the id and adds. *)
pdp_qt_bang(o) ==
    /\ o \in QtOwner /\ Idle /\ alive[o]
    /\ IF queue_id[o] = NoId THEN pdp_procqueue_add(o) ELSE StartWait("qt_bang", o)

QtBangFinish ==
    /\ WaitOver("qt_bang")
    /\ q' = Invalidate(queue_id[pd.owner])
    /\ queue_id' = [queue_id EXCEPT ![pd.owner] = NoId]
    /\ PdGoto("qt_add")
    /\ UNCHANGED <<head, curr, tail, use_thread, clock, alive, thread>>

QtBangAdd ==
    /\ pd.pc = "qt_add"
    /\ pdp_procqueue_add(pd.owner)

(***************************************************************************)
(* pdp_procqueue_callback: call back the processed tasks, oldest first.    *)
(* The id is reset before the callback runs and tail moves after it.       *)
(***************************************************************************)
Callback ==
    LET p == q[Mask(tail)] IN
    /\ pd.pc = "cb" /\ Dist(curr, tail) # 0
    /\ queue_id' = IF p.x_queue_id THEN [queue_id EXCEPT ![p.x_owner] = NoId] ELSE queue_id
    /\ IF p.x_callback
       THEN PdGoto("cb_run") /\ UNCHANGED tail
       ELSE tail' = Inc(tail) /\ UNCHANGED pd
    /\ UNCHANGED <<q, head, curr, use_thread, clock, alive, mutex, thread>>

(* Mutant of CallbackReturn: tail catches up with curr. *)
CallbackSkips ==
    /\ pd.pc = "cb_run"
    /\ tail' = curr
    /\ PdGoto("cb")
    /\ UNCHANGED <<q, head, curr, use_thread, clock, queue_id, alive, mutex, thread>>

CallbackReturn ==
    /\ pd.pc = "cb_run"
    /\ tail' = Inc(tail)
    /\ PdGoto("cb")
    /\ UNCHANGED <<q, head, curr, use_thread, clock, queue_id, alive, mutex, thread>>

CallbacksOver(op) == pd.pc = "cb" /\ pd.op = op /\ Dist(curr, tail) = 0

(* pdp_procqueue_tick: the clock method. *)
pdp_procqueue_tick ==
    /\ Idle /\ clock
    /\ clock' = FALSE
    /\ IF use_thread THEN PdCall("tick", None, "cb") ELSE UNCHANGED pd
    /\ UNCHANGED <<ring, use_thread, queue_id, alive, mutex, thread>>

TickDone ==
    /\ CallbacksOver("tick")
    /\ clock' = TRUE
    /\ PdReturn
    /\ UNCHANGED <<ring, use_thread, queue_id, alive, mutex, thread>>

(***************************************************************************)
(* pdp_procqueue_flush: wait, then callbacks and wait again, repeated      *)
(* while curr and head differ.                                             *)
(***************************************************************************)
FlushWaited ==
    /\ WaitOver("flush")
    /\ PdGoto("cb")
    /\ UNCHANGED <<ring, use_thread, clock, queue_id, alive, thread>>

FlushWaitAgain ==
    /\ CallbacksOver("flush")
    /\ PdCall("flush_again", None, "wait_lock")
    /\ UNCHANGED <<ring, use_thread, clock, queue_id, alive, mutex, thread>>

(* The loop's condition reads curr and head right after the wait.          *)
FlushDone ==
    /\ WaitOver("flush_again")
    /\ PdReturn
    /\ UNCHANGED <<ring, use_thread, clock, queue_id, alive, thread>>

(***************************************************************************)
(* pdp_procqueue_use_thread.                                               *)
(***************************************************************************)
(* Mutant of ThreadOff: does not wait for the thread. *)
ThreadOffNoWait ==
    /\ pd.pc = "wait_lock" /\ pd.op = "use_thread"
    /\ use_thread' = FALSE
    /\ PdGoto("cb")
    /\ UNCHANGED <<ring, clock, queue_id, alive, mutex, thread>>

ThreadOff ==
    /\ WaitOver("use_thread")
    /\ use_thread' = FALSE
    /\ PdGoto("cb")
    /\ UNCHANGED <<ring, clock, queue_id, alive, thread>>

ThreadOffDone ==
    /\ CallbacksOver("use_thread")
    /\ clock' = FALSE
    /\ PdReturn
    /\ UNCHANGED <<ring, use_thread, queue_id, alive, mutex, thread>>

ThreadOn ==
    /\ Idle
    /\ clock' = TRUE
    /\ use_thread' = TRUE
    /\ UNCHANGED <<ring, queue_id, alive, mutex, pd, thread>>

Call(op) == Idle /\ StartWait(op, None)

-----------------------------------------------------------------------------
(* The processing thread *)

ThreadGoto(pc) == thread' = [thread EXCEPT !.pc = pc]

(* pdp_procqueue_wait_for_feeder: the first test is made without the lock. *)
ThreadCheck ==
    /\ thread.pc = "check"
    /\ ThreadGoto(IF Dist(curr, head) = 0 THEN "signal" ELSE "process")
    /\ UNCHANGED <<ring, use_thread, clock, queue_id, alive, mutex, pd>>

(* Nothing to do: lock, and signal cond_processingdone. *)
ThreadSignal ==
    /\ thread.pc = "signal" /\ mutex = None
    /\ mutex' = "thread"
    /\ pd' = IF pd.pc = "wait_sleep" THEN [pd EXCEPT !.pc = "wait_lock"] ELSE pd
    /\ ThreadGoto("test")
    /\ UNCHANGED <<ring, use_thread, clock, queue_id, alive>>

(* The test made under the lock, before each wait on cond_dataready. *)
ThreadTest ==
    /\ thread.pc = "test"
    /\ IF Dist(curr, head) = 0
       THEN ThreadGoto("block") /\ UNCHANGED mutex
       ELSE ThreadGoto("process") /\ mutex' = None
    /\ UNCHANGED <<ring, use_thread, clock, queue_id, alive, pd>>

ThreadBlock ==
    /\ thread.pc = "block"
    /\ mutex' = None
    /\ ThreadGoto("sleep")
    /\ UNCHANGED <<ring, use_thread, clock, queue_id, alive, pd>>

(* Mutant of ThreadWake: if instead of while, no test after the wait. *)
ThreadWakeNoTest ==
    /\ thread.pc = "wake" /\ mutex = None
    /\ ThreadGoto("process")
    /\ UNCHANGED <<ring, use_thread, clock, queue_id, alive, mutex, pd>>

ThreadWake ==
    /\ thread.pc = "wake" /\ mutex = None
    /\ mutex' = "thread"
    /\ ThreadGoto("test")
    /\ UNCHANGED <<ring, use_thread, clock, queue_id, alive, pd>>

(* The body of pdp_procqueue_thread: the process method starts... *)
ThreadProcess ==
    LET p == q[Mask(curr)] IN
    /\ thread.pc = "process"
    /\ thread' = [pc |-> "run", owner |-> IF p.x_process THEN p.x_owner ELSE None]
    /\ UNCHANGED <<ring, use_thread, clock, queue_id, alive, mutex, pd>>

(* ... and returns, and curr moves on. *)
ThreadAdvance ==
    /\ thread.pc = "run"
    /\ curr' = Inc(curr)
    /\ thread' = [pc |-> "check", owner |-> None]
    /\ UNCHANGED <<q, head, tail, use_thread, clock, queue_id, alive, mutex, pd>>

-----------------------------------------------------------------------------

PdCalls ==
    \/ \E o \in Owner : New(o) \/ FreeAtOnce(o) \/ FreeWait(o)
    \/ \E o \in BaseOwner : pdp_base_bang(o)
    \/ \E o \in QtOwner : pdp_qt_bang(o) \/ pdp_qt_close(o)
    \/ \E o \in DpdOwner : pdp_dpd_base_queue_command(o)
    \/ Call("wait") \/ Call("flush") \/ Call("use_thread")
    \/ ThreadOn
    \/ pdp_procqueue_tick

PdSteps ==
    \/ AddHead \/ pdp_procqueue_signal_processor \/ DirectDone
    \/ WaitLock \/ WaitTest \/ WaitBlock \/ WaitDone
    \/ FreeFinish \/ QtCloseFinish \/ QtBangFinish \/ QtBangAdd
    \/ Callback \/ CallbackReturn \/ TickDone
    \/ FlushWaited \/ FlushWaitAgain \/ FlushDone
    \/ ThreadOff \/ ThreadOffDone

ThreadSteps ==
    \/ ThreadCheck \/ ThreadSignal \/ ThreadTest \/ ThreadBlock \/ ThreadWake
    \/ ThreadProcess \/ ThreadAdvance

Next == PdCalls \/ PdSteps \/ SpuriousWakeup \/ ThreadSteps

Spec == Init /\ [][Next]_vars

(***************************************************************************)
(* Both threads are scheduled (weak fairness), a thread that waits for the *)
(* mutex gets it (strong fairness), callbacks return, and pd's scheduler   *)
(* runs a clock that is set.                                               *)
(***************************************************************************)
Fairness ==
    /\ WF_vars(PdSteps) /\ WF_vars(ThreadSteps)
    /\ SF_vars(WaitLock) /\ SF_vars(pdp_procqueue_signal_processor)
    /\ SF_vars(ThreadSignal) /\ SF_vars(ThreadWake)
    /\ SF_vars(CallbackReturn) /\ SF_vars(pdp_procqueue_tick)

FairSpec == Spec /\ Fairness

-----------------------------------------------------------------------------
(* Properties *)

(* Every variable keeps its type: the counters stay C ints, the ids are     *)
(* ring indices or -1.                                                      *)
TypeOK ==
    /\ q \in [Index -> Item]
    /\ head \in Counter /\ curr \in Counter /\ tail \in Counter
    /\ use_thread \in BOOLEAN /\ clock \in BOOLEAN
    /\ queue_id \in [Owner -> Index \union {NoId}]
    /\ alive \in [Owner -> BOOLEAN]
    /\ mutex \in {None, "pd", "thread"}
    /\ pd \in [pc : PdPc, op : PdOp, owner : Owner \union {None}]
    /\ thread \in [pc : ThreadPc, owner : Owner \union {None}]

(* The processing thread never runs a slot that was not added, and never    *)
(* gets past head; the callbacks never get past the processing thread:      *)
(* tail <= curr <= head, counted from tail, across the wrap of the ints.    *)
RingOrder ==
    /\ Dist(curr, tail) <= Dist(head, tail)
    /\ thread.pc \in {"process", "run"} => Dist(head, curr) > 0
    /\ pd.pc = "cb_run" => Dist(curr, tail) > 0

(* No task, callback or id store reaches an object that was freed: what      *)
(* pdp_procqueue_finish ensures before pdp_base_free deletes data.           *)
NoUseAfterFree ==
    \A o \in Owner : ~alive[o] =>
        /\ \A i \in Window(curr, head) : q[i].x_process => q[i].x_owner # o
        /\ \A i \in Window(tail, head) :
               q[i].x_callback \/ q[i].x_queue_id => q[i].x_owner # o
        /\ thread.pc = "run" => thread.owner # o

(* The id an object keeps is the index of its own task, still in the ring,  *)
(* so that pdp_procqueue_finish cancels this task and no other.             *)
IdIsOwnTask ==
    \A o \in BaseOwner \union QtOwner : alive[o] /\ queue_id[o] # NoId =>
        LET i == queue_id[o] IN
        /\ \/ i \in Window(tail, head)
           \/ pd.pc = "add_head" /\ i = Mask(head)
        /\ q[i] = Task(o)

(* "pdp remains a serial program": a process method called directly by      *)
(* pdp_procqueue_add never runs while the thread runs another.              *)
SerialProcessing == ~(pd.pc = "direct" /\ thread.pc \in {"process", "run"})

(* The ring implements the abstract queue: the slots from curr to head are  *)
(* what is left to process, those from tail to curr what is left to call    *)
(* back.                                                                    *)
Slots(a, b) == [k \in 1 .. Dist(b, a) |-> q[Mask(a + k - 1)]]
Abstract == INSTANCE TaskQueue WITH
    Tasks <- {Task(o) : o \in Owner},
    Capacity <- Size - 1,
    Cancelled <- LAMBDA t : [t EXCEPT !.x_callback = FALSE, !.x_queue_id = FALSE],
    todo <- Slots(curr, head),
    done <- Slots(tail, curr)
ImplementsTaskQueue == Abstract!TaskQueueSpec

(* A call that waits for the processing thread stops waiting.               *)
WaitReturns == (pd.pc \in WaitPc) ~> (pd.pc \notin WaitPc)

(* An object with a task in the queue is called back (its id is reset), or  *)
(* is freed: it does not drop its input forever.                            *)
CalledBack == \A o \in BaseOwner : (queue_id[o] # NoId) ~> (queue_id[o] = NoId \/ ~alive[o])

(* pdp_procqueue_flush "loops until callback list is empty".                *)
FlushEmpties == [][FlushDone => tail = curr]_vars

(* The clients of the queue are safe from it: no object is used after it   *)
(* was freed, and an id that an object keeps is that of its own task.      *)
ClientsSafe == NoUseAfterFree /\ IdIsOwnTask

(* Whoever waits for a task comes back, and every task is called back.     *)
QueueLive == WaitReturns /\ CalledBack
=============================================================================
