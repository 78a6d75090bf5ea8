------------------------------- MODULE MCThreads -------------------------------
(* The objects that have a thread of their own: pdp_netsend, pdp_netreceive, *)
(* the raw streams, the image filters of the base class and the video       *)
(* capture.  They share no state, so a behaviour is one of one object,      *)
(* chosen initially, and each object's fairness is asked of its part.       *)
EXTENDS UdpSend, UdpReceive, RawStream, Filters, Capture

VARIABLE part
threadVariables == <<part, vars, recvVars, rawVars, filterVars, captureVars>>

MCFloatArgs == {-3, 8, 90}

ThreadsInit ==
    /\ part \in {"send", "receive", "raw", "filter", "capture"}
    /\ Init /\ RecvInit /\ RawInit /\ FilterInit /\ CaptureInit
    /\ (part = "raw" \/ robj = "in") /\ (part = "filter" \/ fclass = "bq")

ThreadsNext ==
    \/ part = "send" /\ Next /\ UNCHANGED <<part, recvVars, rawVars, filterVars, captureVars>>
    \/ part = "receive" /\ RecvNext /\ UNCHANGED <<part, vars, rawVars, filterVars, captureVars>>
    \/ part = "raw" /\ RawNext /\ UNCHANGED <<part, vars, recvVars, filterVars, captureVars>>
    \/ part = "filter" /\ FilterNext /\ UNCHANGED <<part, vars, recvVars, rawVars, captureVars>>
    \/ part = "capture" /\ CaptureNext /\ UNCHANGED <<part, vars, recvVars, rawVars, filterVars>>

ThreadsFair ==
    /\ SF_vars(part = "send" /\ WaitLock) /\ SF_vars(part = "send" /\ _signal_sender)
    /\ SF_vars(part = "send" /\ SignalDone) /\ SF_vars(part = "send" /\ Wake)
    /\ WF_vars(part = "send" /\ PdStep) /\ WF_vars(part = "send" /\ ThreadStep)
    /\ WF_recvVars(part = "receive" /\ RecvPd) /\ WF_recvVars(part = "receive" /\ (Flip \/ Drop \/ Store \/ Stop))
    /\ WF_rawVars(part = "raw" /\ RawThread) /\ WF_rawVars(part = "raw" /\ RawCalls)
    /\ WF_filterVars(part = "filter" /\ FilterThread) /\ WF_filterVars(part = "filter" /\ FilterPd)
    /\ WF_captureVars(part = "capture" /\ CaptureThread) /\ WF_captureVars(part = "capture" /\ CapturePd)

ThreadsSpec == ThreadsInit /\ [][ThreadsNext]_threadVariables /\ ThreadsFair

(* Both network objects come back from waiting and let everything through:  *)
(* no wakeup is lost, connect and free return, the threads are joined.      *)
NetLive == SendLive /\ FreeReturns
================================================================================
