---------------------------- MODULE MacGuestStop ----------------------------
(* Starting and stopping a VM under virtmgr on macOS (the target_os="macos"   *)
(* parts of crosvm.rs and virtualmachine.rs, and GuestPeer of                 *)
(* guest_rpc_macos.rs). Unlike the kill that GuestVm models this one never    *)
(* escalates: it makes one request, through the guest's agent or as SIGTERM   *)
(* to the very process that was started, and then only observes. That the     *)
(* process has gone is known from wait and from a NOTE_EXIT event on its own  *)
(* kernel queue, which may come later than the exit, or not at all. Without   *)
(* that proof the VM stays registered.                                        *)
EXTENDS Naturals

CONSTANTS
    Clients,        \* threads that serve start and stop
    Observations,   \* how often monitor_vm_exit looks for the event (31)
    BindMayFail,    \* the child's task port may be unavailable
    MayFail         \* wait, kevent, the agent's RPC and the signal may fail

VARIABLES
    vmState,        \* VmState
    registered, owned,  \* host_internal_service at this CID
    proc,           \* the crosvm process
    event,          \* NOTE_EXIT: "none", "queued", "seen" (exit_seen) or "lost"
    peer,           \* guest_rpc_peer is there
    agent,          \* guest_agent is there, and stays after the exit
    termAttempted,  \* GuestPeer::term_attempted
    pc, mon,        \* where the clients and the monitor are
    looks,          \* observations the monitor has left
    \* history
    requests,       \* requests made of the guest, by kind
    stopped         \* some kill has returned Ok

vars == <<vmState, registered, owned, proc, event, peer, agent, termAttempted,
          pc, mon, looks, requests, stopped>>
registry == <<registered, owned>>
history == <<requests, stopped>>

TypeOK ==
    /\ vmState \in {"NotStarted", "Running", "ShuttingDown", "Dead", "Failed"}
    /\ registered \in BOOLEAN /\ owned \in BOOLEAN
    /\ proc \in {"none", "running", "exiting", "exited"}
    /\ event \in {"none", "queued", "seen", "lost"}
    /\ peer \in BOOLEAN /\ agent \in BOOLEAN /\ termAttempted \in BOOLEAN
    /\ pc \in [Clients -> {"idle", "start", "failed", "release", "request", "wait", "observe"}]
    /\ mon \in {"none", "wait", "observe", "dead", "done"}
    /\ looks \in 0..Observations
    /\ requests \in [{"rpc", "term"} -> 0..2]
    /\ stopped \in BOOLEAN

Init ==
    /\ vmState = "NotStarted" /\ registered = TRUE /\ owned = FALSE
    /\ proc = "none" /\ event = "none" /\ peer = FALSE /\ agent = FALSE
    /\ termAttempted = FALSE
    /\ pc = [c \in Clients |-> "idle"] /\ mon = "none" /\ looks = Observations
    /\ requests = [r \in {"rpc", "term"} |-> 0] /\ stopped = FALSE

Go(c, to) == pc' = [pc EXCEPT ![c] = to]
Requested(r) == requests' = [requests EXCEPT ![r] = IF @ < 2 THEN @ + 1 ELSE @]

-----------------------------------------------------------------------------
(* The crosvm process and the kernel's queue.                                *)

Exit ==
    /\ proc \in {"running", "exiting"}
    /\ proc' = "exited"
    /\ UNCHANGED <<vmState, registry, event, peer, agent, termAttempted, pc, mon, looks, history>>

\* The queue exists once the peer is bound.
Deliver ==
    /\ proc = "exited" /\ peer /\ event = "none"
    /\ event' = "queued"
    /\ UNCHANGED <<vmState, registry, proc, peer, agent, termAttempted, pc, mon, looks, history>>

\* registerGuestAgent, checked to come from the process that was started.
AgentRegisters ==
    /\ proc = "running" /\ peer /\ ~agent
    /\ agent' = TRUE
    /\ UNCHANGED <<vmState, registry, proc, event, peer, termAttempted, pc, mon, looks, history>>

-----------------------------------------------------------------------------
(* IVirtualMachine.start                                                     *)

\* retain_for_start
StartRetain(c) ==
    /\ pc[c] = "idle" /\ registered /\ ~owned
    /\ owned' = TRUE /\ Go(c, "start")
    /\ UNCHANGED <<vmState, registered, proc, event, peer, agent, termAttempted, mon, looks, history>>

\* VmState::start, with vm_state locked: run_vm, GuestPeer::bind, the monitor.
\* Who has got past retain_for_start finds a VM that is not started.
StartVm(c) ==
    /\ pc[c] = "start" /\ vmState = "NotStarted"
    /\ \/ /\ vmState' = "Running" /\ proc' = "running" /\ mon' = "wait"
          /\ \/ peer' = TRUE /\ Go(c, "idle")
             \/ BindMayFail /\ peer' = FALSE /\ Go(c, "failed")
       \/ /\ MayFail
          /\ vmState' = "Failed" /\ Go(c, "failed") /\ UNCHANGED <<proc, peer, mon>>
    /\ UNCHANGED <<registry, event, agent, termAttempted, looks, history>>

\* "A child exists but identity binding failed. Retain registration".
StartFailed(c) ==
    /\ pc[c] = "failed"
    /\ Go(c, IF vmState = "Running" THEN "idle" ELSE "release")
    /\ UNCHANGED <<vmState, registry, proc, event, peer, agent, termAttempted, mon, looks, history>>

StartRelease(c) ==
    /\ pc[c] = "release"
    /\ registered' = FALSE /\ owned' = FALSE /\ Go(c, "idle")
    /\ UNCHANGED <<vmState, proc, event, peer, agent, termAttempted, mon, looks, history>>

-----------------------------------------------------------------------------
(* GuestPeer                                                                 *)

\* What exited() answers: "yes", "not yet" or "error". The event is one-shot.
Exited(o) ==
    \/ o = "yes" /\ peer /\ event \in {"queued", "seen"} /\ event' = "seen"
    \/ o = "no" /\ peer /\ event \in {"none", "lost"} /\ UNCHANGED event
    \/ o = "error" /\ ~peer /\ UNCHANGED event
    \/ o = "error" /\ peer /\ MayFail /\ event # "seen"
       /\ event' \in {event, IF event = "queued" THEN "lost" ELSE event}

-----------------------------------------------------------------------------
(* VmInstance::kill                                                          *)

\* The first stop makes the request, the others wait with it.
Kill(c) ==
    /\ pc[c] = "idle"
    /\ \/ vmState = "Running" /\ vmState' = "ShuttingDown" /\ Go(c, "request")
       \/ vmState = "ShuttingDown" /\ Go(c, "wait") /\ UNCHANGED vmState
    /\ UNCHANGED <<registry, proc, event, peer, agent, termAttempted, mon, looks, history>>

\* request_guest_shutdown: a result that is not Ok ends the stop with an error,
\* whatever the guest has made of the request.
ShutdownAsync(c) ==
    /\ agent /\ Requested("rpc")
    /\ proc' \in {IF proc = "running" THEN "exiting" ELSE proc, proc}
    /\ \/ Go(c, "wait")
       \/ (MayFail \/ proc = "exited") /\ Go(c, "idle")
    /\ UNCHANGED <<event, termAttempted>>

\* terminate_original_guest: never twice, never to another process.
Terminate(c) ==
    /\ ~agent
    /\ \/ Exited("yes") /\ Go(c, "wait") /\ UNCHANGED <<proc, termAttempted, requests>>
       \/ Exited("error") /\ Go(c, "idle") /\ UNCHANGED <<proc, termAttempted, requests>>
       \/ /\ Exited("no")
          /\ IF proc = "exited" \/ termAttempted
             THEN Go(c, "idle") /\ UNCHANGED <<proc, termAttempted, requests>>
             ELSE /\ termAttempted' = TRUE /\ Requested("term")
                  /\ \/ proc' = "exiting" /\ Go(c, "wait")
                     \/ MayFail /\ proc' \in {proc, "exiting"} /\ Go(c, "idle")

Request(c) ==
    /\ pc[c] = "request"
    /\ ShutdownAsync(c) \/ Terminate(c)
    /\ UNCHANGED <<vmState, registry, peer, agent, mon, looks, stopped>>

\* The wait ends when the monitor says so, or after five seconds.
Wait(c) ==
    /\ pc[c] = "wait"
    /\ Go(c, IF vmState = "Dead" THEN "observe" ELSE "idle")
    /\ UNCHANGED <<vmState, registry, proc, event, peer, agent, termAttempted, mon, looks, history>>

Observe(c) ==
    /\ pc[c] = "observe"
    /\ \E o \in {"yes", "no", "error"} : Exited(o) /\ stopped' = (stopped \/ o = "yes")
    /\ Go(c, "idle")
    /\ UNCHANGED <<vmState, registry, proc, peer, agent, termAttempted, mon, looks, requests>>

-----------------------------------------------------------------------------
(* VmInstance::monitor_vm_exit                                               *)

\* child.wait(); an error is not an exit.
MonitorWait ==
    /\ mon = "wait"
    /\ \/ proc = "exited" /\ mon' = "observe"
       \/ MayFail /\ mon' = "done"
    /\ UNCHANGED <<vmState, registry, proc, event, peer, agent, termAttempted, pc, looks, history>>

\* Mutant: what wait says is enough.
MonitorObserveOnce ==
    /\ mon = "observe"
    /\ mon' = "dead"
    /\ UNCHANGED <<vmState, registry, proc, event, peer, agent, termAttempted, pc, looks, history>>

MonitorObserve ==
    /\ mon = "observe"
    /\ \/ Exited("yes") /\ mon' = "dead" /\ UNCHANGED looks
       \/ Exited("error") /\ mon' = "done" /\ UNCHANGED looks
       \/ /\ Exited("no")
          /\ IF looks = 1 THEN mon' = "done" /\ UNCHANGED looks
             ELSE looks' = looks - 1 /\ UNCHANGED mon
    /\ UNCHANGED <<vmState, registry, proc, peer, agent, termAttempted, pc, history>>

\* Dead is published before the registration is released (scopeguard::defer).
MonitorDead ==
    /\ mon = "dead"
    /\ \/ vmState # "Dead" /\ vmState' = "Dead" /\ UNCHANGED <<mon, registry>>
       \/ /\ vmState = "Dead" /\ registered' = FALSE /\ owned' = FALSE /\ mon' = "done"
          /\ UNCHANGED vmState
    /\ UNCHANGED <<proc, event, peer, agent, termAttempted, pc, looks, history>>

Monitor == MonitorWait \/ MonitorObserve \/ MonitorDead

Step(c) ==
    \/ StartVm(c) \/ StartFailed(c) \/ StartRelease(c)
    \/ Request(c) \/ Wait(c) \/ Observe(c)

Call(c) == StartRetain(c) \/ Kill(c)

Next ==
    \/ Exit \/ Deliver \/ AgentRegisters \/ Monitor
    \/ \E c \in Clients : Call(c) \/ Step(c)
    \/ vmState \in {"Failed", "Dead"} /\ UNCHANGED vars   \* calls that are refused
    \/ mon = "done" /\ UNCHANGED vars

Spec == Init /\ [][Next]_vars

\* Threads go on; a guest that was asked exits and its event arrives.
Fairness ==
    /\ WF_vars(Monitor) /\ WF_vars(proc = "exiting" /\ Exit) /\ WF_vars(Deliver)
    /\ \A c \in Clients : WF_vars(Step(c))
FairSpec == Spec /\ Fairness

-----------------------------------------------------------------------------
\* stop() returns Ok only when the process that was started is known to have
\* exited, and Dead says the same to everyone else.
StopMeansExited ==
    /\ stopped => proc = "exited" /\ event = "seen"
    /\ vmState = "Dead" => proc = "exited" /\ event = "seen"

\* One request in the life of a VM: the agent or SIGTERM, never both and never
\* again, however many clients stop it and whatever became of the request.
OneRequest ==
    requests["rpc"] + requests["term"] <= 1

\* The service owns the VM for as long as its process may live: the exit monitor
\* gives the registration up last.
OwnedWhileAlive ==
    proc \in {"running", "exiting"} => owned

\* The registration is given up only after the exit is proved and published.
ReleasedIsProven ==
    proc # "none" /\ ~registered => vmState = "Dead"

\* Every exit of the process leads to a released registration, provided that
\* no call fails and the event comes while the monitor still looks.
ExitIsReleased ==
    proc = "exited" ~> (~registered \/ (mon = "done" /\ looks = 1))

\* A stop is proven: Ok and Dead mean that the process has exited, after one request;
\* and a VM whose process was bound to its peer is owned until that is published.
StopIsProven ==
    /\ TypeOK /\ StopMeansExited /\ OneRequest
    /\ peer => OwnedWhileAlive /\ ReleasedIsProven
=============================================================================
