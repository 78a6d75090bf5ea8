------------------------------ MODULE TaskQueue ------------------------------
(***************************************************************************)
(* What the processing queue promises its clients, with no ring, counter   *)
(* or lock: tasks are processed one at a time in the order they were       *)
(* added, each is called back once after it was processed, in the same     *)
(* order, and a callback is only cancelled when nothing is left to         *)
(* process.                                                                *)
(***************************************************************************)
EXTENDS Naturals, Sequences

CONSTANTS Tasks,        \* the tasks that clients add
          Capacity,     \* how many tasks the queue holds
          Cancelled(_)  \* a task whose callback was removed

VARIABLES todo,         \* tasks to process, oldest first
          done          \* processed tasks to call back, oldest first

TaskQueueInit == todo = <<>> /\ done = <<>>

Submit(t) ==
    /\ Len(todo) + Len(done) < Capacity
    /\ todo' = Append(todo, t)
    /\ UNCHANGED done

Process ==
    /\ todo # <<>>
    /\ done' = Append(done, Head(todo))
    /\ todo' = Tail(todo)

CallBack ==
    /\ done # <<>>
    /\ done' = Tail(done)
    /\ UNCHANGED todo

Cancel(i) ==
    /\ todo = <<>>
    /\ done' = [done EXCEPT ![i] = Cancelled(done[i])]
    /\ UNCHANGED todo

TaskQueueNext ==
    \/ \E t \in Tasks : Submit(t)
    \/ Process
    \/ CallBack
    \/ \E i \in DOMAIN done : Cancel(i)

TaskQueueSpec == TaskQueueInit /\ [][TaskQueueNext]_<<todo, done>>
=============================================================================
