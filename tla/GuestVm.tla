------------------------------- MODULE GuestVm -------------------------------
(***************************************************************************)
(* One VM inside virtmgr on Linux: VmInstance and VmState of crosvm.rs,    *)
(* with the binder calls of virtualmachine.rs that drive them and the      *)
(* registration in host_internal_service.rs that owns them.                *)
(*                                                                         *)
(* Threads: the clients (start, stop, bridges, callbacks, dropping the     *)
(* handle), the guest's RPC sessions (payload notifications, its agent),   *)
(* the exit monitor, the hangup monitor, and main, which kills what is     *)
(* left once the server has been shut down.  kill() may run on any of them *)
(* but the guest's.  The mutexes are the ones held across another blocking *)
(* call, vm_state and vm_metric; a section that holds a lock and blocks on *)
(* nothing is one step.  The timeouts may expire at any moment.            *)
(***************************************************************************)
EXTENDS Naturals

CONSTANTS
    Clients,        \* binder threads that serve the clients of the VM
    Guests,         \* RPC threads that serve the guest
    Notices,        \* what the guest may report: "Started", "Ready", "Finished", "Agent"
    DetectHangup    \* config.detect_hangup

ASSUME ConfigAssumption == DetectHangup \in BOOLEAN
ASSUME ThreadsAssumption ==
    Clients \cap Guests = {} /\ {"mon", "hang", "main"} \cap (Clients \cup Guests) = {}
ASSUME NoticesAssumption == Notices \subseteq {"Started", "Ready", "Finished", "Agent"}

VARIABLES
    vmState,        \* VmState
    payload,        \* PayloadState, by its position in the enum
    agent,          \* a guest agent is registered
    rx,             \* shutdown_finished_rx of the kill in progress
    poisoned,       \* a thread panicked while it held vm_state
    bridge,         \* a host bridge is registered and active
    callback,       \* a client callback is registered
    registered, owned,   \* the maps of host_internal_service at this CID
    handle,         \* a client holds the IVirtualMachine
    dropped,        \* the VirtualMachine object has been dropped
    shut,           \* the guest's RPC server has been asked to shut down
    proc,           \* the crosvm process
    down,           \* virtmgr itself has ended
    pc,             \* where each thread is
    obeyed,         \* the kernel refuses no SIGKILL to crosvm; never changes
    \* history
    told,           \* calls of callback_on_died
    stopped         \* some kill() has returned Ok

Threads == Clients \cup Guests \cup {"mon", "hang", "main"}

instance == <<vmState, payload, agent, rx, poisoned, bridge, callback>>
registry == <<registered, owned, handle, dropped>>
history == <<obeyed, told, stopped>>
vars == <<instance, registry, shut, proc, down, pc, history>>

Starting == 0
Started == 1
Ready == 2
Finished == 3
Hangup == 4

Labels ==
    {"off", "idle", "done", "panicked",
     "s_metric", "s_state", "s_undo",
     "k_enter", "k_measure", "k_ask", "k_wait", "k_join", "k_send",
     "m_wait", "m_measure", "m_reap", "m_dead", "m_died", "m_metric", "m_shut", "m_defer",
     "h_wait", "h_try", "h_update",
     "g_update", "g_metric", "f_state", "f_measure", "f_update"}

\* The values the state of the instance and its threads may take.
TypeOK ==
    /\ vmState \in {"NotStarted", "Running", "ShuttingDown", "Dead", "Failed"}
    /\ payload \in Starting .. Hangup
    /\ rx \in {"none", "open", "closed"}
    /\ proc \in {"none", "running", "zombie", "reaped"}
    /\ agent \in BOOLEAN /\ poisoned \in BOOLEAN /\ bridge \in BOOLEAN /\ callback \in BOOLEAN
    /\ registered \in BOOLEAN /\ owned \in BOOLEAN /\ handle \in BOOLEAN /\ dropped \in BOOLEAN
    /\ shut \in BOOLEAN /\ down \in BOOLEAN /\ obeyed \in BOOLEAN /\ stopped \in BOOLEAN
    /\ told \in Nat
    /\ pc \in [Threads -> Labels]

\* createVm has returned: the VM is registered and its client holds the handle.
Init ==
    /\ vmState = "NotStarted" /\ payload = Starting /\ agent = FALSE
    /\ rx = "none" /\ poisoned = FALSE /\ bridge = FALSE /\ callback = FALSE
    /\ registered = TRUE /\ owned = FALSE /\ handle = TRUE /\ dropped = FALSE
    /\ shut = FALSE /\ proc = "none" /\ down = FALSE
    /\ pc = [t \in Threads |-> IF t \in Clients \cup Guests THEN "idle" ELSE "off"]
    /\ told = 0 /\ stopped = FALSE /\ obeyed \in BOOLEAN

-----------------------------------------------------------------------------
(* Locks, references and panics *)

\* update_payload_state(Finished) measures the VM with vm_state locked.
StateFree == \A g \in Guests : pc[g] # "f_measure"

\* start() takes vm_metric before vm_state; the exit monitor keeps it while the
\* RPC server shuts down.
MetricFree == pc["mon"] # "m_shut" /\ \A c \in Clients : pc[c] # "s_state"

Goto(t, label) == pc' = [pc EXCEPT ![t] = label]

\* A binder transaction holds a reference to the object it is for.
InCall(c) == pc[c] # "idle"

\* The last strong reference goes with thread t: Drop for VirtualMachine kills the VM.
LastRef(t, held) == ~dropped /\ ~held /\ \A c \in Clients \ {t} : ~InCall(c)

\* A binder call of client c ends; held says whether a reference remains elsewhere.
Return(c, held) ==
    IF LastRef(c, held)
    THEN Goto(c, "k_enter") /\ dropped' = TRUE
    ELSE Goto(c, "idle") /\ dropped' = dropped

\* kill() ends on thread t.
KillEnds(t) ==
    /\ IF t \in Clients THEN Return(t, handle \/ owned) ELSE Goto(t, "done") /\ dropped' = dropped
    /\ down' = (t = "main")

\* A panic unwinds a monitor thread, running what the exit monitor has deferred; on
\* a binder thread, on main, or while the monitor is unwinding it ends virtmgr.
Panic(t) ==
    /\ Goto(t, IF pc[t] = "m_dead" THEN "m_defer" ELSE "panicked")
    /\ down' = ~(t = "hang" \/ pc[t] = "m_dead")

-----------------------------------------------------------------------------
(* Client calls *)

\* No call is served once the main server has been triggered.
Called(c) == ~down /\ handle /\ pc[c] = "idle" /\ pc["main"] = "off"

\* retain_for_start admits one start of a registered VM.
StartVm(c) ==
    /\ Called(c) /\ registered /\ ~owned
    /\ owned' = TRUE
    /\ Goto(c, "s_metric")
    /\ UNCHANGED <<instance, registered, handle, dropped, shut, proc, down, history>>

\* VmInstance::start locks vm_metric and stamps it, then asks for vm_state.
StartMetric(c) ==
    /\ ~down /\ pc[c] = "s_metric" /\ MetricFree
    /\ Goto(c, "s_state")
    /\ UNCHANGED <<instance, registry, shut, proc, down, history>>

\* VmState::start: crosvm and its monitors, or nothing and Failed.
StartState(c) ==
    /\ ~down /\ pc[c] = "s_state" /\ StateFree /\ ~poisoned
    /\ \/ /\ vmState = "NotStarted"
          /\ vmState' = "Running" /\ proc' = "running"
          /\ pc' = [pc EXCEPT ![c] = "idle", !["mon"] = "m_wait",
                              !["hang"] = IF DetectHangup THEN "h_wait" ELSE @]
       \/ /\ vmState = "NotStarted"
          /\ vmState' = "Failed" /\ proc' = proc
          /\ Goto(c, "s_undo")
       \/ /\ vmState # "NotStarted"
          /\ Goto(c, "s_undo")
          /\ UNCHANGED <<vmState, proc>>
    /\ UNCHANGED <<payload, agent, rx, poisoned, bridge, callback, registry, shut, down, history>>

\* unregisterVirtualMachine after a start that failed.
StartUndo(c) ==
    /\ ~down /\ pc[c] = "s_undo"
    /\ registered' = FALSE /\ owned' = (owned /\ ~registered) /\ handle' = handle
    /\ Return(c, handle \/ owned')
    /\ UNCHANGED <<instance, shut, proc, down, history>>

StopVm(c) ==
    /\ Called(c)
    /\ Goto(c, "k_enter")
    /\ UNCHANGED <<instance, registry, shut, proc, down, history>>

\* startHostVsockTcpBridge checks and registers with vm_state locked.
StartBridge(c) ==
    /\ Called(c) /\ StateFree /\ ~poisoned
    /\ vmState = "Running" /\ ~bridge
    /\ bridge' = TRUE
    /\ UNCHANGED <<vmState, payload, agent, rx, poisoned, callback, registry, shut, proc, down,
                   pc, history>>

\* Mutant: the state of the VM is not looked at.
RegisterCallbackLate(c) ==
    /\ Called(c) /\ ~callback
    /\ callback' = TRUE
    /\ UNCHANGED <<vmState, payload, agent, rx, poisoned, bridge, registry, shut, proc, down, pc,
                   history>>

\* registerCallback ignores a dead VM.
RegisterCallback(c) ==
    /\ Called(c) /\ StateFree /\ ~poisoned
    /\ vmState # "Dead" /\ ~callback
    /\ callback' = TRUE
    /\ UNCHANGED <<vmState, payload, agent, rx, poisoned, bridge, registry, shut, proc, down, pc,
                   history>>

\* The client lets go of its handle, on a binder thread of its own.
DropHandle(c) ==
    /\ Called(c)
    /\ handle' = FALSE
    /\ Return(c, owned)
    /\ UNCHANGED <<instance, registered, owned, shut, proc, down, history>>

\* Every call that looks at a poisoned vm_state unwraps the error.
CallPanics(c) ==
    /\ Called(c) /\ StateFree /\ poisoned
    /\ Panic(c)
    /\ UNCHANGED <<instance, registry, shut, proc, history>>

\* requestShutdown: join() returns and main kills the instances still referenced,
\* and a started one always is, by its own RPC server.
ServerJoined ==
    /\ ~down /\ pc["main"] = "off"
    /\ IF dropped /\ vmState \in {"NotStarted", "Failed"}
       THEN Goto("main", "done") /\ down' = TRUE
       ELSE Goto("main", "k_enter") /\ down' = down
    /\ UNCHANGED <<instance, registry, shut, proc, history>>

-----------------------------------------------------------------------------
(* VmInstance::kill *)

\* The first match on vm_state.
KillEnter(t) ==
    /\ ~down /\ pc[t] = "k_enter" /\ StateFree
    /\ \/ /\ poisoned /\ Panic(t)
          /\ UNCHANGED <<vmState, rx, dropped>>
       \/ /\ ~poisoned /\ vmState = "Running"
          /\ vmState' = "ShuttingDown" /\ rx' = "open"
          /\ Goto(t, "k_measure") /\ UNCHANGED <<dropped, down>>
       \/ /\ ~poisoned /\ vmState = "ShuttingDown"
          /\ Goto(t, "k_send") /\ UNCHANGED <<vmState, rx, dropped, down>>
       \/ /\ ~poisoned /\ vmState \notin {"Running", "ShuttingDown"}
          /\ KillEnds(t) /\ UNCHANGED <<vmState, rx>>
    /\ UNCHANGED <<payload, agent, poisoned, bridge, callback, registered, owned, handle, shut,
                   proc, history>>

\* The bridges stop, and the guest is measured while it is still there.
KillMeasure(t) ==
    /\ ~down /\ pc[t] = "k_measure" /\ (MetricFree \/ proc = "reaped")
    /\ bridge' = FALSE
    /\ Goto(t, "k_ask")
    /\ UNCHANGED <<vmState, payload, agent, rx, poisoned, callback, registry, shut, proc, down,
                   history>>

\* SIGKILL through SharedChild: harmless once the process has exited.
SigKill == proc' = IF proc = "running" THEN "zombie" ELSE proc
KillRefused == ~obeyed /\ proc = "running" /\ proc' = proc

\* try_shutdown asks the agent; without one the guest is killed at once.
KillAsk(t) ==
    /\ ~down /\ pc[t] = "k_ask"
    /\ \/ agent /\ Goto(t, "k_wait") /\ UNCHANGED <<rx, proc, dropped, down>>
       \/ ~agent /\ SigKill /\ Goto(t, "k_wait") /\ UNCHANGED <<rx, dropped, down>>
       \/ ~agent /\ KillRefused /\ rx' = "closed" /\ KillEnds(t)
    /\ UNCHANGED <<vmState, payload, agent, poisoned, bridge, callback, registered, owned, handle,
                   shut, history>>

\* wait_timeout_while ends because the monitor has published Dead.
KillAwaited(t) ==
    /\ ~down /\ pc[t] = "k_wait" /\ StateFree
    /\ \/ ~poisoned /\ vmState # "ShuttingDown" /\ Goto(t, "k_join") /\ UNCHANGED <<rx, down>>
       \/ poisoned /\ rx' = "closed" /\ Panic(t)
    /\ UNCHANGED <<vmState, payload, agent, poisoned, bridge, callback, registry, shut, proc,
                   history>>

\* It ends by its timeout: SIGKILL with vm_state locked, and no error is survived.
KillTimedOut(t) ==
    /\ ~down /\ pc[t] = "k_wait" /\ StateFree /\ ~poisoned /\ vmState = "ShuttingDown"
    /\ \/ SigKill /\ Goto(t, "k_join") /\ UNCHANGED <<rx, poisoned, down>>
       \/ KillRefused /\ rx' = "closed" /\ poisoned' = TRUE /\ Panic(t)
    /\ UNCHANGED <<vmState, payload, agent, bridge, callback, registry, shut, history>>

\* join() on the exit monitor, then the receiver is dropped.
KillJoin(t) ==
    /\ ~down /\ pc[t] = "k_join"
    /\ rx' = "closed"
    /\ \/ /\ pc["mon"] = "done"
          /\ stopped' = TRUE /\ KillEnds(t)
          /\ UNCHANGED <<registered, owned, handle>>
       \/ /\ pc["mon"] = "panicked"
          /\ Panic(t) /\ UNCHANGED <<registry, stopped>>
    /\ UNCHANGED <<vmState, payload, agent, poisoned, bridge, callback, shut, proc, obeyed, told>>

\* A second caller sends on the rendezvous channel until the receiver is gone.
KillSend(t) ==
    /\ ~down /\ pc[t] = "k_send" /\ rx = "closed"
    /\ stopped' = TRUE /\ KillEnds(t)
    /\ UNCHANGED <<instance, registered, owned, handle, shut, proc, obeyed, told>>

-----------------------------------------------------------------------------
(* monitor_vm_exit *)

\* Mutant: the monitor does not wait for the exit.
MonitorWaitNoHang ==
    /\ ~down /\ pc["mon"] = "m_wait"
    /\ Goto("mon", "m_dead")
    /\ UNCHANGED <<instance, registry, shut, proc, down, history>>

\* waitid sees the exit; a process already reaped is an error and is not measured.
MonitorWait ==
    /\ ~down /\ pc["mon"] = "m_wait" /\ proc \in {"zombie", "reaped"}
    /\ Goto("mon", IF proc = "zombie" THEN "m_measure" ELSE "m_reap")
    /\ UNCHANGED <<instance, registry, shut, proc, down, history>>

MonitorMeasure ==
    /\ ~down /\ pc["mon"] = "m_measure" /\ (MetricFree \/ proc = "reaped")
    /\ Goto("mon", "m_reap")
    /\ UNCHANGED <<instance, registry, shut, proc, down, history>>

\* child.wait, the cleaners, and the vhost-user devices.
MonitorReap ==
    /\ ~down /\ pc["mon"] = "m_reap"
    /\ proc' = "reaped"
    /\ Goto("mon", "m_dead")
    /\ UNCHANGED <<instance, registry, shut, down, history>>

MonitorDead ==
    /\ ~down /\ pc["mon"] = "m_dead" /\ StateFree
    /\ \/ poisoned /\ Panic("mon") /\ UNCHANGED vmState
       \/ ~poisoned /\ vmState' = "Dead" /\ Goto("mon", "m_died") /\ UNCHANGED down
    /\ UNCHANGED <<payload, agent, rx, poisoned, bridge, callback, registry, shut, proc, history>>

\* The reason of the death, the bridges, and callback_on_died.
MonitorDied ==
    /\ ~down /\ pc["mon"] = "m_died"
    /\ bridge' = FALSE /\ callback' = FALSE
    /\ told' = told + 1
    /\ Goto("mon", "m_metric")
    /\ UNCHANGED <<vmState, payload, agent, rx, poisoned, registry, shut, proc, down, obeyed,
                   stopped>>

\* vm_metric is locked for the rest of the function.
MonitorMetric ==
    /\ ~down /\ pc["mon"] = "m_metric" /\ MetricFree
    /\ shut' = TRUE
    /\ Goto("mon", "m_shut")
    /\ UNCHANGED <<instance, registry, proc, down, history>>

\* RpcServer::shutdown returns when no session thread is left.
MonitorShut ==
    /\ ~down /\ pc["mon"] = "m_shut"
    /\ \A g \in Guests : pc[g] = "idle"
    /\ Goto("mon", "m_defer")
    /\ UNCHANGED <<instance, registry, shut, proc, down, history>>

\* The deferred unregister_owned_vm, which may drop the last reference.
MonitorDefer ==
    /\ ~down /\ pc["mon"] = "m_defer"
    /\ registered' = FALSE /\ owned' = (owned /\ ~registered) /\ handle' = handle
    /\ LET ended == IF poisoned THEN "panicked" ELSE "done" IN
       IF LastRef("mon", handle \/ owned')
       THEN Goto("mon", "k_enter") /\ dropped' = TRUE
       ELSE Goto("mon", ended) /\ dropped' = dropped
    /\ UNCHANGED <<instance, shut, proc, down, history>>

-----------------------------------------------------------------------------
(* monitor_payload_hangup *)

\* A payload that has started ends the wait; the child is tried all the same.
HangupStarted ==
    /\ ~down /\ pc["hang"] = "h_wait" /\ payload >= Started
    /\ Goto("hang", "done")
    /\ proc' = IF proc = "running" THEN proc ELSE "reaped"
    /\ UNCHANGED <<instance, registry, shut, down, history>>

\* The timeout is decided, and the payload lock released, before the child is tried.
HangupTimedOut ==
    /\ ~down /\ pc["hang"] = "h_wait" /\ payload < Started
    /\ Goto("hang", "h_try")
    /\ UNCHANGED <<instance, registry, shut, proc, down, history>>

\* try_wait reaps a child that has exited.
HangupTry ==
    /\ ~down /\ pc["hang"] = "h_try"
    /\ IF proc = "running"
       THEN Goto("hang", "h_update") /\ proc' = proc
       ELSE Goto("hang", "done") /\ proc' = "reaped"
    /\ UNCHANGED <<instance, registry, shut, down, history>>

\* update_payload_state(Hangup), then kill().
HangupUpdate ==
    /\ ~down /\ pc["hang"] = "h_update"
    /\ payload' = Hangup
    /\ Goto("hang", "k_enter")
    /\ UNCHANGED <<vmState, agent, rx, poisoned, bridge, callback, registry, shut, proc, down,
                   history>>

-----------------------------------------------------------------------------
(* VirtualMachineService: the guest's calls *)

\* A running guest has a transaction dispatched on thread g.
GuestCall(g, notice) ==
    /\ ~down /\ pc[g] = "idle" /\ proc = "running" /\ ~shut
    /\ notice \in Notices

\* update_payload_state allows forward transitions only.
Forward(state) == IF state > payload THEN state ELSE payload

NotifyStarted(g) ==
    /\ GuestCall(g, "Started")
    /\ Goto(g, "g_update")
    /\ UNCHANGED <<instance, registry, shut, proc, down, history>>

\* An invalid transition is an error; otherwise the callbacks are told, and the
\* start time is read under vm_metric.
StartedUpdate(g) ==
    /\ ~down /\ pc[g] = "g_update"
    /\ payload' = Forward(Started)
    /\ Goto(g, IF payload < Started THEN "g_metric" ELSE "idle")
    /\ UNCHANGED <<vmState, agent, rx, poisoned, bridge, callback, registry, shut, proc, down,
                   history>>

StartedMetric(g) ==
    /\ ~down /\ pc[g] = "g_metric" /\ MetricFree
    /\ Goto(g, "idle")
    /\ UNCHANGED <<instance, registry, shut, proc, down, history>>

NotifyReady(g) ==
    /\ GuestCall(g, "Ready")
    /\ payload' = Forward(Ready)
    /\ UNCHANGED <<vmState, agent, rx, poisoned, bridge, callback, registry, shut, proc, down, pc,
                   history>>

RegisterAgent(g) ==
    /\ GuestCall(g, "Agent")
    /\ agent' = TRUE
    /\ UNCHANGED <<vmState, payload, rx, poisoned, bridge, callback, registry, shut, proc, down,
                   pc, history>>

\* notifyPayloadFinished and notifyError.
NotifyFinished(g) ==
    /\ GuestCall(g, "Finished")
    /\ Goto(g, "f_state")
    /\ UNCHANGED <<instance, registry, shut, proc, down, history>>

\* A running VM is measured with vm_state locked.
FinishedState(g) ==
    /\ ~down /\ pc[g] = "f_state" /\ StateFree
    /\ \/ poisoned /\ Panic(g)
       \/ ~poisoned /\ Goto(g, IF vmState = "Running" THEN "f_measure" ELSE "f_update")
          /\ UNCHANGED down
    /\ UNCHANGED <<instance, registry, shut, proc, history>>

FinishedMeasure(g) ==
    /\ ~down /\ pc[g] = "f_measure" /\ (MetricFree \/ proc = "reaped")
    /\ Goto(g, "f_update")
    /\ UNCHANGED <<instance, registry, shut, proc, down, history>>

FinishedUpdate(g) ==
    /\ ~down /\ pc[g] = "f_update"
    /\ payload' = Forward(Finished)
    /\ Goto(g, "idle")
    /\ UNCHANGED <<vmState, agent, rx, poisoned, bridge, callback, registry, shut, proc, down,
                   history>>

-----------------------------------------------------------------------------
(* The guest and the specification *)

\* crosvm exits: of itself, or because its agent was asked to shut down.
GuestExits ==
    /\ proc = "running"
    /\ proc' = "zombie"
    /\ UNCHANGED <<instance, registry, shut, down, pc, history>>

Kill(t) ==
    \/ KillEnter(t) \/ KillMeasure(t) \/ KillAsk(t) \/ KillAwaited(t) \/ KillTimedOut(t)
    \/ KillJoin(t) \/ KillSend(t)

Start(c) == StartMetric(c) \/ StartState(c) \/ StartUndo(c)

Monitor ==
    \/ MonitorWait \/ MonitorMeasure \/ MonitorReap \/ MonitorDead \/ MonitorDied
    \/ MonitorMetric \/ MonitorShut \/ MonitorDefer

HangupMonitor == HangupStarted \/ HangupTimedOut \/ HangupTry \/ HangupUpdate

Notify(g) ==
    \/ StartedUpdate(g) \/ StartedMetric(g)
    \/ FinishedState(g) \/ FinishedMeasure(g) \/ FinishedUpdate(g)

Call(c) ==
    \/ StartVm(c) \/ StopVm(c) \/ StartBridge(c) \/ RegisterCallback(c) \/ DropHandle(c)
    \/ CallPanics(c)

Report(g) == NotifyStarted(g) \/ NotifyReady(g) \/ RegisterAgent(g) \/ NotifyFinished(g)

Next ==
    \/ \E c \in Clients : Call(c) \/ Start(c)
    \/ \E t \in Clients \cup {"mon", "hang", "main"} : Kill(t)
    \/ \E g \in Guests : Report(g) \/ Notify(g)
    \/ Monitor \/ HangupMonitor \/ ServerJoined \/ GuestExits

Spec == Init /\ [][Next]_vars

\* Every thread of virtmgr is scheduled and timers run; a thread that waits for a
\* mutex others take again and again gets it at last.  When clients and guest call,
\* and whether a guest exits by itself, is their own.
Fairness ==
    /\ \A c \in Clients : WF_vars(Start(c))
    /\ \A g \in Guests : WF_vars(Notify(g))
    /\ SF_vars(Monitor) /\ WF_vars(HangupMonitor)
    /\ \A t \in Clients \cup {"mon", "hang", "main"} : SF_vars(Kill(t))

FairSpec == Spec /\ Fairness

-----------------------------------------------------------------------------
(* Properties *)

Promise == INSTANCE VmPromise WITH
    guest <- CASE proc = "none" -> "none" [] proc = "running" -> "live" [] OTHER -> "ended"

\* As long as SIGKILL is not refused, the threads of virtmgr keep its promise to the
\* clients: the VM is launched once and under an owner, released and told only after
\* the end.
ObeyedKeepsPromise ==
    Promise!Init /\ [][obeyed => [Promise!Next]_(Promise!vars)]_vars

\* A stop that answered with success has seen crosvm exit (the receiver half is
\* closed "when shutdown is finished").
StopMeansExited == stopped => proc \in {"zombie", "reaped"}

\* Once the clients have been told, no bridge to the guest and no callback that
\* refers to the instance is left, and none is registered again.
NothingOutlivesDeath == told > 0 => ~bridge /\ ~callback

\* Dropping the last reference runs kill() on the exit monitor itself; it must
\* never get to the join of its own thread, nor wait for another kill.
MonitorNeverWaits == pc["mon"] \notin {"k_measure", "k_ask", "k_wait", "k_join", "k_send"}

\* While crosvm lives inside a living virtmgr, it is owned by the registry and
\* watched by its exit monitor: no start that fails lets go of a running guest.
GuestIsOwned == proc = "running" /\ ~down => registered /\ owned /\ pc["mon"] = "m_wait"

\* Nothing is left over after the death that the clients were told of, the exit monitor
\* never joins itself, a live guest has an owner, and as long as SIGKILL is not refused
\* a stop that answered with success has seen crosvm exit ("closed when shutdown is
\* finished", crosvm.rs).
DeathIsFinal ==
    /\ TypeOK /\ NothingOutlivesDeath /\ MonitorNeverWaits /\ GuestIsOwned
    /\ obeyed => StopMeansExited

\* The exit monitor holds vm_metric and waits for the guest's sessions to end, and a
\* session waits for vm_metric in notifyPayloadStarted: neither goes on.
MetricCycle == pc["mon"] = "m_shut" /\ \E g \in Guests : pc[g] = "g_metric"

\* Every kill() returns, on whatever thread it runs, unless the exit monitor and a
\* session wait for each other.
KillReturns ==
    \A t \in Clients \cup {"hang", "main"} :
        pc[t] = "k_enter" ~> (down \/ pc[t] \in {"idle", "done", "panicked"} \/ MetricCycle)

\* A guest that has exited is let go of by the registry, with the same exception.
ExitIsReleased == proc = "zombie" ~> (down \/ ~owned \/ MetricCycle)

=============================================================================
