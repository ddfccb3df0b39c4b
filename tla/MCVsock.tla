------------------------------ MODULE MCVsock ------------------------------
(***************************************************************************)
(* The vsock device of the Windows host, for TLC.  A behaviour runs the    *)
(* connections made from the host, with and without failures; or the bytes *)
(* of one connection, with a guest that sends much, with a service that    *)
(* sends much, or with a worker that may sleep; or the framing of the      *)
(* Binder pipe.                                                            *)
(***************************************************************************)
EXTENDS HostPorts

VARIABLES
    part,       \* the part that runs
    \* VsockFlow
    conn, read, chunk, rx, tx, lock, stop, stopRx, avail, pkts, toGuest, peer, sent, flowSlept,
    dropped,
    \* BinderFrames
    frames, wire, dec, out, taken

Steady == INSTANCE HostPorts WITH MayDie <- FALSE, MayFail <- FALSE
Flow == INSTANCE VsockFlow WITH
    Mod <- 12, Temp <- 2, Chunks <- {1, 2}, PeerBuf <- 2, BufAlloc <- 10, Lens <- {4, 10},
    RxQueue <- 1, ChannelSize <- 1, HostBytes <- 3, GuestBytes <- 14, MaySleep <- FALSE,
    guest <- peer, slept <- flowSlept
LongFlow == INSTANCE VsockFlow WITH
    Mod <- 12, Temp <- 6, Chunks <- {2, 6}, PeerBuf <- 7, BufAlloc <- 10, Lens <- {4},
    RxQueue <- 1, ChannelSize <- 1, HostBytes <- 16, GuestBytes <- 8, MaySleep <- FALSE,
    guest <- peer, slept <- flowSlept
SleepingFlow == INSTANCE VsockFlow WITH
    Mod <- 12, Temp <- 1, Chunks <- {1}, PeerBuf <- 1, BufAlloc <- 10, Lens <- {5},
    RxQueue <- 1, ChannelSize <- 1, HostBytes <- 2, GuestBytes <- 10, MaySleep <- TRUE,
    guest <- peer, slept <- flowSlept
Binder == INSTANCE BinderFrames WITH
    HeaderSize <- 3, MaxFrame <- 2, Lengths <- 0..3, Frames <- 3, MaxRead <- 9, sent <- frames

flowVars == <<conn, read, chunk, rx, tx, lock, stop, stopRx, avail, pkts, toGuest, peer,
              sent, flowSlept, dropped>>
binderVars == <<frames, wire, dec, out, taken>>

PartsInit ==
    /\ part \in {"ports", "steady ports", "flow", "long flow", "sleeping flow",
                 "binder"}
    /\ Init /\ Flow!Init /\ Binder!Init

PartsNext ==
    /\ UNCHANGED part
    /\ \/ part = "ports" /\ Next /\ UNCHANGED <<flowVars, binderVars>>
       \/ part = "steady ports" /\ Steady!Next /\ UNCHANGED <<flowVars, binderVars>>
       \/ part = "flow" /\ Flow!Next /\ UNCHANGED <<vars, binderVars>>
       \/ part = "long flow" /\ LongFlow!Next /\ UNCHANGED <<vars, binderVars>>
       \/ part = "sleeping flow" /\ SleepingFlow!Next /\ UNCHANGED <<vars, binderVars>>
       \/ part = "binder" /\ Binder!Next /\ UNCHANGED <<vars, flowVars>>

\* The two flows differ in the service's writes and the room of the guest, which
\* only RxLook looks at.
Flowing == part \in {"flow", "long flow"}

\* The fairness of the parts without failures, while they run.
PartsFairness ==
    /\ WF_vars(part = "steady ports" /\ Steady!Handler)
    /\ WF_vars(part = "steady ports" /\ Steady!WorkerEnds)
    /\ WF_vars(part = "steady ports" /\ Steady!Wake)
    /\ \A h \in HostPorts :
          /\ WF_vars(part = "steady ports" /\ Steady!Handle(h))
          /\ WF_vars(part = "steady ports" /\ Steady!WriteEnds(h))
          /\ WF_vars(part = "steady ports" /\ Steady!Retire(h))
    /\ WF_flowVars(Flowing /\ Flow!GuestReceive)
    /\ WF_flowVars(Flowing /\ Flow!GuestRead)
    /\ WF_flowVars(Flowing /\ Flow!GuestUpdate)
    /\ SF_flowVars(Flowing /\ Flow!RxCollect)
    /\ WF_flowVars(Flowing /\ Flow!RxReady)
    /\ SF_flowVars(IF part = "flow" THEN Flow!RxLook ELSE part = "long flow" /\ LongFlow!RxLook)
    /\ SF_flowVars(Flowing /\ Flow!RxWrite)
    /\ WF_flowVars(Flowing /\ Flow!Forward)
    /\ SF_flowVars(Flowing /\ Flow!Tx)
    /\ SF_flowVars(Flowing /\ Flow!WriteCreditUpdate)

PartsSpec ==
    PartsInit /\ [][PartsNext]_<<part, vars, flowVars, binderVars>> /\ PartsFairness

-----------------------------------------------------------------------------
\* VsockFlow: neither side's credit is overrun, with credit that arrives late, a channel
\* that overflows and over a sleep; bytes are lost only with a packet that finds the
\* channel full or over a sleep, and crosvm is aborted by a difference of counters only
\* when the guest's u32 counter has wrapped and the device's wider one has not.
FlowSound ==
    CASE part = "long flow" -> LongFlow!FlowSound
      [] part = "sleeping flow" -> SleepingFlow!FlowSound
      [] OTHER -> Flow!FlowSound

\* BinderFrames: however the stream is cut into reads, the decoder returns exactly the
\* data of the frames, stops at the first bad header, and knows a clean end.
FramesDecoded == Binder!FramesDecoded

\* What must go on goes on, without failures: a listener that was reported made is
\* taken or given up, and the port of a pipe the service has closed becomes free.  As
\* long as no packet of the guest is dropped at a full channel, a guest without credit
\* gets credit again, what the service wrote reaches the guest, and the end of the pipe
\* is noticed.
VsockProgress ==
    /\ part = "steady ports" => ListenerIsServed /\ ClosedIsFreed
    /\ Flowing => Flow!GuestMaySendAgain /\ Flow!HostDataArrives /\ Flow!EndIsNoticed
=============================================================================
