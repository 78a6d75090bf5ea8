-------------------------------- MODULE Capture --------------------------------
(* Video capture: system/zl/v4l.c (Video4Linux 2; version 1 is not built)   *)
(* and the object pdp_v4l.  The pd thread opens, closes and reads; a thread *)
(* of its own takes the frames of the driver and counts them in a           *)
(* semaphore.  The pixels of a frame are its number.                        *)
EXTENDS Integers, Sequences, FiniteSets

CONSTANTS
    BufferCounts,  (* numbers of buffers a driver may give *)
    DriverFails,   (* whether an ioctl of an open device may fail *)
    MaxFrames,     (* bound: frames of the driver *)
    MaxCommands    (* bound: messages of the patch *)

(* VIDIOC_REQBUFS gives one buffer at least or fails; v4l2_open refuses    *)
(* more than ZL_V4L_MAX_BUFFERS.                                            *)
ASSUME BufferAssumption == BufferCounts \subseteq 1..8

VARIABLES
    vinit, vfd, vmapped,       (* x_initialized, an open x_tvfd, the mapped buffers *)
    vnb, vwr, vrd, vsem,       (* x_nbbuffers, x_frame_wr, x_frame_rd, the semaphore *)
    vcontinue, vthread, vgot,  (* x_continue_thread, the thread, the buffer it dequeued *)
    vtodo, vcommands,          (* what the pd thread has still to do; messages so far *)
    vqueued, vfilled, vframe,  (* the driver: buffers to fill, filled; buffer -> frame *)
    vcount, vshown             (* frames so far; frames that were read *)

deviceVars == <<vinit, vfd, vmapped, vnb, vwr, vrd, vsem>>
driverVars == <<vqueued, vfilled, vframe, vcount>>
threadVars == <<vcontinue, vthread, vgot>>
captureVars == <<deviceVars, driverVars, threadVars, vtodo, vcommands, vshown>>

NoFrame == 0
AllBuffers == 0..7
CaptureInit ==
    /\ vinit = FALSE /\ vfd = FALSE /\ vmapped = {} /\ vnb = 0 /\ vwr = 0 /\ vrd = 0 /\ vsem = 0
    /\ vcontinue = FALSE /\ vthread = "none" /\ vgot = 0 /\ vtodo = <<>> /\ vcommands = 0
    /\ vqueued = <<>> /\ vfilled = <<>> /\ vframe = [b \in AllBuffers |-> NoFrame] /\ vcount = 0 /\ vshown = <<>>

--------------------------------------------------------------------------------
(* The pd thread.  A message becomes steps; an attribute closes a device    *)
(* that is open and opens it again, a bang tries three times to open it.    *)
Reopens == IF vinit THEN <<"close", "open">> ELSE <<>>
pdp_v4l_open == <<"open">>
pdp_v4l_close == <<"close">>
zl_v4l_set_dim == Reopens
zl_v4l_set_format == Reopens
v4l2_input == Reopens
v4l2_standard == Reopens
zl_v4l_set_fps == <<"close", "open">>
pdp_v4l_bang == <<"ensure", "ensure", "ensure", "next">>
Command ==
    /\ vtodo = <<>> /\ vcommands < MaxCommands /\ vcommands' = vcommands + 1
    /\ vtodo' \in {pdp_v4l_open, pdp_v4l_close, zl_v4l_set_dim, zl_v4l_set_format, v4l2_input, v4l2_standard,
                   zl_v4l_set_fps, pdp_v4l_bang}
    /\ UNCHANGED <<deviceVars, driverVars, threadVars, vshown>>
zl_v4l_open_if_necessary ==
    /\ vtodo # <<>> /\ vtodo[1] = "ensure" /\ vtodo' = (IF vinit THEN <<>> ELSE <<"open">>) \o Tail(vtodo)
    /\ UNCHANGED <<deviceVars, driverVars, threadVars, vcommands, vshown>>

(* Mutant: the thread is not awaited. *)
StopsQuietly ==
    /\ vtodo # <<>> /\ vtodo[1] = "close"
    /\ vtodo' = <<"unmap">> \o Tail(vtodo) /\ vcontinue' = FALSE
    /\ UNCHANGED <<deviceVars, driverVars, vthread, vgot, vcommands, vshown>>
(* Close: a thread that goes on is told to stop and awaited, then the       *)
(* buffers are unmapped and the device is closed.                           *)
CloseStops ==
    /\ vtodo # <<>> /\ vtodo[1] = "close"
    /\ vtodo' = (IF vcontinue THEN <<"join", "unmap">> ELSE <<"unmap">>) \o Tail(vtodo) /\ vcontinue' = FALSE
    /\ UNCHANGED <<deviceVars, driverVars, vthread, vgot, vcommands, vshown>>
CloseJoins ==
    /\ vtodo # <<>> /\ vtodo[1] = "join" /\ vthread = "none" /\ vtodo' = Tail(vtodo)
    /\ UNCHANGED <<deviceVars, driverVars, threadVars, vcommands, vshown>>
CloseUnmaps ==
    /\ vtodo # <<>> /\ vtodo[1] = "unmap" /\ vtodo' = Tail(vtodo)
    /\ vmapped' = {} /\ vfd' = FALSE /\ vinit' = FALSE /\ vqueued' = <<>> /\ vfilled' = <<>>
    /\ UNCHANGED <<vnb, vwr, vrd, vsem, vframe, vcount, threadVars, vcommands, vshown>>

(* Open: an open device is closed first.  The device may be missing or      *)
(* refuse a format (nothing is mapped), or refuse buffer k after k were     *)
(* mapped; then it is closed.                                               *)
OpenFails ==
    /\ vtodo # <<>> /\ vtodo[1] = "open" /\ ~vinit
    /\ \E n \in BufferCounts, mapped \in BOOLEAN :
        /\ vfd' = TRUE /\ vnb' = (IF mapped THEN n ELSE vnb) /\ vmapped' = (IF mapped THEN 0..n - 2 ELSE {})
    /\ vtodo' = <<"close">> \o Tail(vtodo)
    /\ UNCHANGED <<vinit, vwr, vrd, vsem, driverVars, threadVars, vcommands, vshown>>
OpenCloses ==
    /\ vtodo # <<>> /\ vtodo[1] = "open" /\ vinit /\ vtodo' = <<"close">> \o vtodo
    /\ UNCHANGED <<deviceVars, driverVars, threadVars, vcommands, vshown>>
v4l2_open ==
    /\ vtodo # <<>> /\ vtodo[1] = "open" /\ ~vinit
    /\ \E n \in BufferCounts :
        /\ vnb' = n /\ vmapped' = 0..n - 1 /\ vqueued' = [i \in 1..n |-> i - 1]
    /\ vfd' = TRUE /\ vinit' = TRUE /\ vwr' = 0 /\ vrd' = 0
    /\ vfilled' = <<>> /\ vframe' = [b \in AllBuffers |-> NoFrame] /\ vshown' = <<>>
    /\ vtodo' = <<"create">> \o Tail(vtodo)
    /\ UNCHANGED <<vsem, vcount, threadVars, vcommands>>
OpenCreates ==
    /\ vtodo # <<>> /\ vtodo[1] = "create" /\ vtodo' = Tail(vtodo)
    /\ vcontinue' = TRUE /\ vsem' = 0 /\ vthread' = "start"
    /\ UNCHANGED <<vinit, vfd, vmapped, vnb, vwr, vrd, vgot, driverVars, vcommands, vshown>>

zl_v4l_next ==
    /\ vtodo # <<>> /\ vtodo[1] = "next" /\ vtodo' = Tail(vtodo)
    /\ IF vinit /\ vsem > 0
       THEN vsem' = vsem - 1 /\ vshown' = Append(vshown, vframe[vrd]) /\ vrd' = (vrd + 1) % vnb
       ELSE UNCHANGED <<vsem, vshown, vrd>>
    /\ UNCHANGED <<vinit, vfd, vmapped, vnb, vwr, driverVars, threadVars, vcommands>>

--------------------------------------------------------------------------------
(* The thread *)
Goes(from, to) == vthread = from /\ vthread' = to
ThreadStreams ==
    /\ vthread = "start" /\ vthread' \in {"loop"} \cup IF DriverFails THEN {"quit"} ELSE {}
    /\ UNCHANGED <<deviceVars, driverVars, vcontinue, vgot, vtodo, vcommands, vshown>>
ThreadLoops ==
    /\ Goes("loop", IF vcontinue THEN "select" ELSE "off")
    /\ UNCHANGED <<deviceVars, driverVars, vcontinue, vgot, vtodo, vcommands, vshown>>
(* Mutant: a timeout waits again. *)
SelectsAgain ==
    /\ vthread = "select"
    /\ vthread' = IF vfilled # <<>> THEN "dequeue" ELSE "select"
    /\ UNCHANGED <<deviceVars, driverVars, vcontinue, vgot, vtodo, vcommands, vshown>>
(* A frame is there, or there was none for five seconds, or select failed. *)
v42l_sync_timeout ==
    /\ vthread = "select"
    /\ vthread' \in (IF vfilled # <<>> THEN {"dequeue"} ELSE {"quit"}) \cup (IF DriverFails THEN {"quit"} ELSE {})
    /\ UNCHANGED <<deviceVars, driverVars, vcontinue, vgot, vtodo, vcommands, vshown>>
(* An error is passed over: the frame is announced nevertheless. *)
CaptureDequeues ==
    /\ \/ Goes("dequeue", "enqueue") /\ vgot' = Head(vfilled) /\ vfilled' = Tail(vfilled)
       \/ DriverFails /\ Goes("dequeue", "check") /\ UNCHANGED <<vgot, vfilled>>
    /\ UNCHANGED <<deviceVars, vqueued, vframe, vcount, vcontinue, vtodo, vcommands, vshown>>
CaptureEnqueues ==
    /\ Goes("enqueue", "check") /\ vqueued' = Append(vqueued, vgot)
    /\ UNCHANGED <<deviceVars, vfilled, vframe, vcount, vcontinue, vgot, vtodo, vcommands, vshown>>
(* The reader is told, unless it has all the buffers to read. *)
NotifyChecks ==
    /\ Goes("check", IF vsem >= vnb THEN "loop" ELSE "post")
    /\ UNCHANGED <<deviceVars, driverVars, vcontinue, vgot, vtodo, vcommands, vshown>>
NotifyPosts ==
    /\ Goes("post", "advance") /\ vsem' = vsem + 1
    /\ UNCHANGED <<vinit, vfd, vmapped, vnb, vwr, vrd, driverVars, vcontinue, vgot, vtodo, vcommands, vshown>>
NotifyAdvances ==
    /\ Goes("advance", "loop") /\ vwr' = (vwr + 1) % vnb
    /\ UNCHANGED <<vinit, vfd, vmapped, vnb, vrd, vsem, driverVars, vcontinue, vgot, vtodo, vcommands, vshown>>
ThreadStops ==
    /\ Goes("off", "quit") /\ vqueued' = <<>> /\ vfilled' = <<>>
    /\ UNCHANGED <<deviceVars, vframe, vcount, vcontinue, vgot, vtodo, vcommands, vshown>>
ThreadQuits ==
    /\ Goes("quit", "none") /\ vcontinue' = FALSE
    /\ UNCHANGED <<deviceVars, driverVars, vgot, vtodo, vcommands, vshown>>

(* The driver fills its buffers in turn while the device streams. *)
DriverCaptures ==
    /\ vthread \notin {"none", "start"} /\ vqueued # <<>> /\ vcount < MaxFrames
    /\ vframe' = [vframe EXCEPT ![Head(vqueued)] = vcount + 1] /\ vcount' = vcount + 1
    /\ vfilled' = Append(vfilled, Head(vqueued)) /\ vqueued' = Tail(vqueued)
    /\ UNCHANGED <<deviceVars, threadVars, vtodo, vcommands, vshown>>

CaptureThread == ThreadStreams \/ ThreadLoops \/ v42l_sync_timeout \/ CaptureDequeues \/ CaptureEnqueues \/ NotifyChecks
                 \/ NotifyPosts \/ NotifyAdvances \/ ThreadStops \/ ThreadQuits
CapturePd == zl_v4l_open_if_necessary \/ CloseStops \/ CloseJoins \/ CloseUnmaps \/ OpenFails \/ OpenCloses \/ v4l2_open
             \/ OpenCreates \/ zl_v4l_next
CaptureNext == Command \/ CaptureThread \/ CapturePd \/ DriverCaptures
CaptureSpec == CaptureInit /\ [][CaptureNext]_captureVars
(* Both threads are scheduled; select returns after five seconds at the     *)
(* latest.                                                                  *)
CaptureFair == WF_captureVars(CaptureThread) /\ WF_captureVars(CapturePd)

--------------------------------------------------------------------------------
(* The thread uses the device only while it is open and mapped, through     *)
(* every order of errors, messages and reopening, and a thread is made only *)
(* when there is none.                                                      *)
CaptureAlive ==
    /\ vthread \notin {"none", "quit"} => vfd /\ vinit /\ vmapped = 0..vnb - 1
    /\ vtodo # <<>> /\ vtodo[1] = "create" => vthread = "none" /\ ~vcontinue

(* The semaphore counts the buffers from the read index to the write index, *)
(* at most all of them: no frame is read before it was announced and none   *)
(* is announced over one that was not read.                                 *)
CaptureCounted == vinit /\ (vtodo = <<>> \/ vtodo[1] # "create") =>
    /\ vsem \in 0..vnb /\ vwr \in 0..vnb - 1 /\ vrd \in 0..vnb - 1
    /\ (vrd + vsem) % vnb = (vwr + (IF vthread = "advance" THEN 1 ELSE 0)) % vnb

(* The thread and the messages of pd never meet over a device that is       *)
(* closed, and the ring of buffers between them is counted right.           *)
CaptureSound == CaptureAlive /\ CaptureCounted

(* Every message returns: closing waits for the thread, which leaves its    *)
(* loop.                                                                    *)
CaptureReturns == vtodo # <<>> ~> vtodo = <<>>

(* The buffer that the thread dequeues is the one it announces.  Not true   *)
(* after a frame was dropped: the write index stays and the driver goes on. *)
FrameWritten == vthread = "enqueue" => vgot = vwr

(* Frames are read in the order they were taken.  Not true, for the same    *)
(* reason.                                                                  *)
FramesInOrder == \A i, j \in 1..Len(vshown) : i < j => vshown[i] < vshown[j]

(* A device that is open has its thread.  Not true after a timeout: the     *)
(* thread is gone, the device counts as open and no bang opens it again.    *)
OpenDelivers == vinit ~> (~vinit \/ vthread # "none")
================================================================================
