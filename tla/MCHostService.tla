---------------------------- MODULE MCHostService ----------------------------
(***************************************************************************)
(* Parts of virtmgr, for TLC: the registry and its leases, the stop of a   *)
(* VM on macOS, the guest's RPC endpoint with its trace, and the progress  *)
(* of a VM on Linux.  They share nothing that matters here, so a behaviour *)
(* runs one of them: macOS and the endpoint with and without failures, and *)
(* Linux with and without the monitor of payloads that hang.               *)
(***************************************************************************)
EXTENDS HostParts

VARIABLES
    part,       \* the part that runs
    \* GuestVm
    state, payload, linuxAgent, rx, poisoned, bridge, callback, linuxRegistered, linuxOwned,
    handle, dropped, shut, crosvm, down, obeyed, place, told, answered

\* Two processes whose CIDs overlap: the first one starts where the second's
\* second context is.
Bases == [p \in Process |-> IF p = "a" THEN 4 ELSE 3]

\* Without failures.
CalmMac == INSTANCE MacGuestStop WITH
    Clients <- MacClients, BindMayFail <- FALSE, MayFail <- FALSE,
    registered <- macRegistered, owned <- macOwned
CalmSocket == INSTANCE GuestEndpoint WITH MayReplace <- FALSE, MayFail <- FALSE

Linux == INSTANCE GuestVm WITH
    Clients <- {"c1"}, Guests <- {"g1"}, Notices <- {"Started", "Finished", "Agent"},
    DetectHangup <- FALSE,
    vmState <- state, agent <- linuxAgent, registered <- linuxRegistered,
    owned <- linuxOwned, proc <- crosvm, pc <- place, stopped <- answered
WatchedLinux == INSTANCE GuestVm WITH
    Clients <- {"c1"}, Guests <- {"g1"}, Notices <- {"Started"},
    DetectHangup <- TRUE,
    vmState <- state, agent <- linuxAgent, registered <- linuxRegistered,
    owned <- linuxOwned, proc <- crosvm, pc <- place, stopped <- answered

macVars == <<vmState, macRegistered, macOwned, proc, event, peer, agent, termAttempted, pc,
             mon, looks, requests, stopped>>
socketVars == <<guest, service, path, host, rows, writing, tail, failed, ctl, seen, original,
                verdict, signals, receipt, taken>>
linuxVars == <<state, payload, linuxAgent, rx, poisoned, bridge, callback, linuxRegistered,
               linuxOwned, handle, dropped, shut, crosvm, down, obeyed, place, told,
               answered>>

LinuxParts == {"linux", "watched linux"}

PartsInit ==
    /\ part \in {"registry", "mac", "calm mac", "socket", "calm socket"} \cup LinuxParts
    /\ Init /\ Mac!Init /\ Socket!Init /\ Linux!Init /\ obeyed

\* The processes around the socket and the VM may end; the others never get stuck.
PartsNext ==
    /\ UNCHANGED part
    /\ \/ part = "registry" /\ Next /\ UNCHANGED <<macVars, socketVars, linuxVars>>
       \/ part = "calm mac" /\ CalmMac!Next /\ UNCHANGED <<vars, socketVars, linuxVars>>
       \/ part = "mac" /\ Mac!Next /\ UNCHANGED <<vars, socketVars, linuxVars>>
       \/ part = "calm socket" /\ CalmSocket!Next /\ UNCHANGED <<vars, macVars, linuxVars>>
       \/ part = "socket" /\ Socket!Next /\ UNCHANGED <<vars, macVars, linuxVars>>
       \/ part = "linux" /\ Linux!Next /\ UNCHANGED <<vars, macVars, socketVars>>
       \/ part = "watched linux" /\ WatchedLinux!Next /\ UNCHANGED <<vars, macVars, socketVars>>
       \/ /\ part \in {"socket", "calm socket"} \cup LinuxParts
          /\ UNCHANGED <<vars, macVars, socketVars, linuxVars>>

\* The fairness of each part, while it runs.
PartsFairness ==
    /\ \A p \in Process :
          /\ WF_vars(part = "registry" /\ Exec(p))
          /\ \A cid \in Cid : WF_vars(part = "registry" /\ Dropped(p, cid))
    /\ WF_macVars(part = "calm mac" /\ CalmMac!Monitor)
    /\ WF_macVars(part = "calm mac" /\ proc = "exiting" /\ CalmMac!Exit)
    /\ WF_macVars(part = "calm mac" /\ CalmMac!Deliver)
    /\ \A c \in MacClients : WF_macVars(part = "calm mac" /\ CalmMac!Step(c))
    /\ WF_socketVars(part = "calm socket" /\ CalmSocket!Commit)
    /\ WF_socketVars(part = "calm socket" /\ CalmSocket!Drop)
    /\ WF_socketVars(part = "calm socket" /\ CalmSocket!DropChecks)
    /\ WF_socketVars(part = "calm socket" /\ CalmSocket!Remove)
    /\ SF_socketVars(part = "calm socket" /\ CalmSocket!Retire)
    /\ WF_socketVars(part = "calm socket" /\ CalmSocket!Controller)
    /\ WF_socketVars(part = "calm socket" /\ "guest" \in signals /\ CalmSocket!GuestEnds)
    /\ WF_socketVars(part = "calm socket" /\ "service" \in signals /\ CalmSocket!ServiceEnds)
    /\ WF_linuxVars(part = "linux" /\ Linux!Start("c1"))
    /\ WF_linuxVars(part = "watched linux" /\ WatchedLinux!Start("c1"))
    /\ WF_linuxVars(part \in LinuxParts /\ Linux!Notify("g1"))
    /\ WF_linuxVars(part = "watched linux" /\ WatchedLinux!HangupMonitor)
    /\ SF_linuxVars(part \in LinuxParts /\ Linux!Monitor)
    /\ \A t \in {"c1", "mon", "hang", "main"} :
          SF_linuxVars(part \in LinuxParts /\ Linux!Kill(t))

PartsSpec ==
    /\ PartsInit /\ [][PartsNext]_<<part, vars, macVars, socketVars, linuxVars>>
    /\ PartsFairness

-----------------------------------------------------------------------------
\* What must end ends, without failing calls: a claim that was removed can be claimed
\* again once the children that were being started are past their exec; an exit on
\* macOS releases the registration unless its event is later than the monitor's
\* observations; a bound endpoint is retired and the controller learns it; on
\* Linux every kill() returns and a guest that has exited is let go of, unless
\* notifyPayloadStarted has come to wait for vm_metric when the exit monitor, which
\* holds it, waits for the guest's sessions.
ServiceSettles ==
    /\ part = "registry" => RemovedIsFree
    /\ part = "calm mac" => CalmMac!ExitIsReleased
    /\ part = "calm socket" => CalmSocket!EndpointIsRetired
    /\ part \in LinuxParts => Linux!KillReturns /\ Linux!ExitIsReleased
=============================================================================
