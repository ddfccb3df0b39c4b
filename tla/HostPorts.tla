----------------------------- MODULE HostPorts -----------------------------
(* Host-initiated vsock connections of the Windows device: HostControl        *)
(* (host_control.rs) and the futures of the worker that serve it (vsock.rs).  *)
(* The control thread reserves a guest port and leaves a listening pipe in a  *)
(* queue; process_host_control accepts the service on it and sends the guest  *)
(* a REQUEST; the guest's answer makes a connection of it, whose reads and    *)
(* writes the worker drives. The reservation is a PortLease that travels with *)
(* the pipe and is shared with a write that is under way. The worker may be   *)
(* put to sleep, with its connections kept, or end with an error.             *)
(* An attempt is known by its host port, which is never used twice.           *)
EXTENDS Integers, Sequences, FiniteSets

CONSTANTS
    Ports,          \* guest ports
    NoPort,         \* the port of an attempt that was never made
    MaxHostPort,    \* bound: attempts
    MaySleep,       \* the device sleeps and wakes, once
    MayDie,         \* the service may exit
    MayFail         \* system calls may fail

ASSUME PortsAssumption ==
    /\ NoPort \notin Ports /\ MaxHostPort \in Nat \ {0} /\ {MaySleep, MayDie, MayFail} \subseteq BOOLEAN

HostPorts == 1..MaxHostPort

VARIABLES
    state,      \* HostControl's State: active, next, ports
    event,      \* its event is signalled
    port,       \* the guest port of each attempt
    at,         \* where its pipe and lease are
    client,     \* the service's end of the pipe: "none", "connected", "closed"
    write,      \* attempts with a write under way, which shares the lease
    host,       \* process_host_control
    worker,     \* "run", "stop", "asleep", "dead"
    slept, live,
    inbox,      \* what the guest has sent about each attempt
    guest       \* the guest's socket: "none", "asked", "connected", "closed"

vars == <<state, event, port, at, client, write, host, worker, slept, live, inbox, guest>>
controlVars == <<state, event>>
workerVars == <<host, worker, slept>>

TypeOK ==
    /\ state \in [active : BOOLEAN, next : 1..(MaxHostPort + 1), ports : SUBSET Ports]
    /\ event \in BOOLEAN
    /\ port \in [HostPorts -> Ports \cup {NoPort}]
    /\ at \in [HostPorts -> {"none", "queued", "accepting", "pending", "open", "gone"}]
    /\ client \in [HostPorts -> {"none", "connected", "closed"}]
    /\ write \subseteq HostPorts
    /\ host \in [pc : {"start", "loop", "select", "send", "drop", "ended"}, h : HostPorts \cup {0}]
    /\ worker \in {"run", "stop", "asleep", "dead"} /\ slept \in BOOLEAN /\ live \in BOOLEAN
    /\ inbox \in [HostPorts -> Seq({"RESPONSE", "RST", "RW", "SHUTDOWN"})]
    /\ guest \in [HostPorts -> {"none", "asked", "connected", "closed"}]

Init ==
    /\ state = [active |-> FALSE, next |-> 1, ports |-> {}] /\ event = FALSE
    /\ port = [h \in HostPorts |-> NoPort] /\ at = [h \in HostPorts |-> "none"]
    /\ client = [h \in HostPorts |-> "none"] /\ write = {}
    /\ host = [pc |-> "start", h |-> 0] /\ worker = "run" /\ slept = FALSE /\ live = TRUE
    /\ inbox = [h \in HostPorts |-> <<>>] /\ guest = [h \in HostPorts |-> "none"]

\* The attempts hs let go of their pipe and lease; the last holder of a lease
\* takes the port out of the set.
Dropped(hs) == [h \in HostPorts |-> IF h \in hs THEN "gone" ELSE at[h]]
Freed(hs) == state.ports \ {port[h] : h \in hs \ write}
Drop(hs) == at' = Dropped(hs) /\ state' = [state EXCEPT !.ports = Freed(hs)]

In(places) == {h \in HostPorts : at[h] \in places}

-----------------------------------------------------------------------------
(* HostControl::connect, on the thread that serves the control socket.       *)

Reservable(p) == state.active /\ live /\ p \notin state.ports /\ state.next <= MaxHostPort

Connect(p) ==
    /\ Reservable(p)
    /\ at' = [at EXCEPT ![state.next] = "queued"]
    /\ port' = [port EXCEPT ![state.next] = p]
    /\ state' = [active |-> state.active, next |-> state.next + 1, ports |-> state.ports \cup {p}]
    /\ event' = TRUE
    /\ UNCHANGED <<client, write, workerVars, live, inbox, guest>>

\* No pipe, no accept, or no signal: the host port is spent all the same.
ConnectFails(p) ==
    /\ MayFail /\ Reservable(p)
    /\ state' = [state EXCEPT !.next = @ + 1]
    /\ UNCHANGED <<event, port, at, client, write, workerVars, live, inbox, guest>>

-----------------------------------------------------------------------------
(* The service at the other end of the pipe.                                 *)

ClientOpens(h) ==
    /\ live /\ at[h] \in {"queued", "accepting"} /\ client[h] = "none"
    /\ client' = [client EXCEPT ![h] = "connected"]
    /\ UNCHANGED <<controlVars, port, at, write, workerVars, live, inbox, guest>>

ClientCloses(h) ==
    /\ client[h] = "connected" /\ at[h] \in {"accepting", "pending", "open"}
    /\ client' = [client EXCEPT ![h] = "closed"]
    /\ UNCHANGED <<controlVars, port, at, write, workerVars, live, inbox, guest>>

ServiceExits ==
    /\ MayDie /\ live /\ live' = FALSE
    /\ client' = [h \in HostPorts |-> IF client[h] = "connected" THEN "closed" ELSE client[h]]
    /\ UNCHANGED <<controlVars, port, at, write, workerVars, inbox, guest>>

-----------------------------------------------------------------------------
(* process_host_control. An error in it ends the worker.                     *)

Running == worker \in {"run", "stop"}

Die == worker' = "dead" /\ host' = [pc |-> "drop", h |-> 0] /\ UNCHANGED slept

Activate ==
    /\ worker = "run" /\ host.pc = "start"
    /\ \/ /\ ~state.active /\ live
          /\ state' = [state EXCEPT !.active = TRUE]
          /\ host' = [host EXCEPT !.pc = "loop"] /\ UNCHANGED <<worker, slept>>
       \/ /\ ~live /\ worker' = "dead" /\ host' = [host EXCEPT !.pc = "ended"]
          /\ UNCHANGED <<state, slept>>
    /\ UNCHANGED <<event, port, at, client, write, live, inbox, guest>>

TakePending ==
    /\ Running /\ host.pc = "loop"
    /\ at' = [h \in HostPorts |-> IF at[h] = "queued" THEN "accepting" ELSE at[h]]
    /\ event' = FALSE /\ host' = [host EXCEPT !.pc = "select"]
    /\ UNCHANGED <<state, port, client, write, worker, slept, live, inbox, guest>>

Notified ==
    /\ Running /\ host.pc = "select" /\ event
    /\ host' = [host EXCEPT !.pc = "loop"]
    /\ UNCHANGED <<controlVars, port, at, client, write, worker, slept, live, inbox, guest>>

\* The accept of h has completed; the client must be the live original service.
Accepted(h) ==
    /\ Running /\ host.pc = "select" /\ at[h] = "accepting" /\ client[h] # "none"
    /\ \/ /\ live
          /\ at' = [at EXCEPT ![h] = "pending"]
          /\ host' = [pc |-> "send", h |-> h] /\ UNCHANGED <<controlVars, worker, slept>>
       \/ /\ ~live \/ client[h] = "closed"
          /\ Drop({h}) /\ Die /\ UNCHANGED event
    /\ UNCHANGED <<port, client, write, live, inbox, guest>>

SendRequest ==
    /\ Running /\ host.pc = "send"
    /\ guest' = [guest EXCEPT ![host.h] = "asked"]
    /\ host' = [pc |-> "loop", h |-> 0]
    /\ UNCHANGED <<controlVars, port, at, client, write, worker, slept, live, inbox>>

StopHost ==
    /\ worker = "stop" /\ host.pc \in {"select", "send"}
    /\ host' = [pc |-> "drop", h |-> 0]
    /\ UNCHANGED <<controlVars, port, at, client, write, worker, slept, live, inbox, guest>>

\* The accepts are dropped before the ActiveControl.
DropAccepts ==
    /\ host.pc = "drop" /\ In({"accepting"}) # {}
    /\ Drop(In({"accepting"}))
    /\ UNCHANGED <<event, port, client, write, workerVars, live, inbox, guest>>

Deactivate ==
    /\ host.pc = "drop" /\ In({"accepting"}) = {}
    /\ at' = Dropped(In({"queued"}))
    /\ state' = [active |-> FALSE, next |-> state.next, ports |-> Freed(In({"queued"}))]
    /\ host' = [host EXCEPT !.pc = "ended"]
    /\ UNCHANGED <<event, port, client, write, worker, slept, live, inbox, guest>>

-----------------------------------------------------------------------------
(* The guest. It answers a REQUEST, sends data and closes.                   *)

Says(h, op, g) ==
    /\ inbox' = [inbox EXCEPT ![h] = Append(@, op)]
    /\ guest' = [guest EXCEPT ![h] = g]
    /\ UNCHANGED <<controlVars, port, at, client, write, workerVars, live>>

GuestAnswers(h) == guest[h] = "asked" /\ (Says(h, "RESPONSE", "connected") \/ Says(h, "RST", "closed"))
GuestSends(h) == guest[h] = "connected" /\ Len(inbox[h]) < 2 /\ Says(h, "RW", "connected")
GuestCloses(h) == guest[h] = "connected" /\ (Says(h, "SHUTDOWN", "closed") \/ Says(h, "RST", "closed"))

-----------------------------------------------------------------------------
(* process_tx_packets_for_port: one packet of an attempt after the other.    *)

Polled == worker = "run" \/ (worker = "stop" /\ host.pc = "ended")
Packet(h, op) == Polled /\ inbox[h] # <<>> /\ Head(inbox[h]) = op /\ h \notin write
StaysOpen(h) == inbox' = [inbox EXCEPT ![h] = Tail(@)]
\* A handler that ends drops what is in its channel, not what is still to come.
Ends(h) == inbox' \in {[inbox EXCEPT ![h] = Tail(@)], [inbox EXCEPT ![h] = <<>>]}
PacketUnchanged == UNCHANGED <<event, port, client, workerVars, live>>

\* finish_host_handshake. Starting the read fails when the service is gone.
HandleResponse(h) ==
    /\ Packet(h, "RESPONSE")
    /\ \/ /\ at[h] = "pending" /\ live /\ client[h] = "connected"
          /\ at' = [at EXCEPT ![h] = "open"] /\ UNCHANGED state /\ StaysOpen(h)
       \/ at[h] = "pending" /\ client[h] = "closed" /\ Drop({h}) /\ Ends(h)
       \/ at[h] # "pending" /\ UNCHANGED <<at, state>> /\ Ends(h)
    /\ UNCHANGED <<write, guest>> /\ PacketUnchanged

HandleRst(h) ==
    /\ Packet(h, "RST") /\ Ends(h) /\ Drop({h} \cap In({"pending", "open"}))
    /\ UNCHANGED <<write, guest>> /\ PacketUnchanged

\* Only a connection is removed, and answered with an RST.
HandleShutdown(h) ==
    /\ Packet(h, "SHUTDOWN") /\ Ends(h) /\ Drop({h} \cap In({"open"}))
    /\ UNCHANGED <<write, guest>> /\ PacketUnchanged

\* handle_vsock_guest_data up to the write, or its error: without a connection
\* send_vsock_reset sends nothing.
HandleRw(h) ==
    /\ Packet(h, "RW")
    /\ \/ /\ at[h] = "open" /\ live /\ write' = write \cup {h} /\ StaysOpen(h)
          /\ UNCHANGED <<at, state, guest>>
       \/ /\ at[h] = "open" /\ ~live /\ Drop({h}) /\ Ends(h)
          /\ guest' = [guest EXCEPT ![h] = "closed"] /\ UNCHANGED write
       \/ at[h] # "open" /\ Ends(h) /\ UNCHANGED <<at, state, write, guest>>
    /\ PacketUnchanged

\* write_owned returns, with the write completed, or cancelled and drained when
\* the connection was retired. A failed write resets the connection.
WriteEnds(h) ==
    /\ Polled /\ h \in write
    /\ \/ /\ at[h] = "open" /\ client[h] = "connected"
          /\ write' = write \ {h} /\ UNCHANGED <<at, state, guest, inbox>>
       \/ /\ at[h] = "open" /\ client[h] = "closed"
          /\ write' = write \ {h}
          /\ at' = Dropped({h}) /\ state' = [state EXCEPT !.ports = @ \ {port[h]}]
          /\ guest' = [guest EXCEPT ![h] = "closed"] /\ inbox' \in {inbox, [inbox EXCEPT ![h] = <<>>]}
       \/ /\ at[h] = "gone" /\ write' = write \ {h}
          /\ inbox' \in {inbox, [inbox EXCEPT ![h] = <<>>]}
          /\ state' = [state EXCEPT !.ports = @ \ {port[h]}] /\ UNCHANGED <<at, guest>>
    /\ PacketUnchanged

\* Mutant: retiring a connection frees its port whatever still uses the lease.
RetireFrees(h) ==
    /\ Running /\ at[h] = "open" /\ client[h] = "closed"
    /\ at' = Dropped({h}) /\ state' = [state EXCEPT !.ports = @ \ {port[h]}]
    /\ guest' = [guest EXCEPT ![h] = "closed"]
    /\ UNCHANGED <<write, inbox>> /\ PacketUnchanged

\* process_rx_queue reads the end of the pipe: retire_raw_connection.
Retire(h) ==
    /\ Running /\ at[h] = "open" /\ client[h] = "closed"
    /\ Drop({h})
    /\ guest' = [guest EXCEPT ![h] = "closed"]
    /\ UNCHANGED <<write, inbox>> /\ PacketUnchanged

\* process_rx_queue reads data of a service that has gone since: check_live fails,
\* and the error of the rx future ends the worker with its handler.
RxFails ==
    /\ Running /\ ~live /\ In({"open"}) # {}
    /\ worker' = "dead"
    /\ host' = CASE host.pc = "start" -> [host EXCEPT !.pc = "ended"]
                 [] host.pc \in {"loop", "select", "send"} -> [pc |-> "drop", h |-> 0]
                 [] OTHER -> host
    /\ UNCHANGED <<controlVars, port, at, client, write, slept, live, inbox, guest>>

-----------------------------------------------------------------------------
(* Vsock::virtio_sleep and virtio_wake, and the end of Worker::run.          *)

Sleep ==
    /\ MaySleep /\ ~slept /\ worker = "run"
    /\ worker' = "stop" /\ slept' = TRUE
    /\ UNCHANGED <<controlVars, port, at, client, write, host, live, inbox, guest>>

Kept == {"open"}

\* The futures are dropped, then the Worker: a write under way is drained, a
\* handshake ends; the connections are kept unless the worker failed. Packets
\* that were not handled are dropped with their channels.
WorkerEnds ==
    /\ worker \in {"stop", "dead"} /\ host.pc = "ended"
    /\ worker = "dead" => In({"pending", "open"}) # {} \/ write # {}
    /\ LET left == In({"pending", "open"}) \ (IF worker = "stop" THEN In(Kept) ELSE {})
       IN  /\ at' = Dropped(left)
           /\ state' = [state EXCEPT !.ports = @ \ {port[h] : h \in left \cup (write \ In({"open"}))}]
    /\ write' = {} /\ inbox' = [h \in HostPorts |-> <<>>]
    /\ worker' = IF worker = "stop" THEN "asleep" ELSE "dead"
    /\ UNCHANGED <<event, port, client, host, slept, live, guest>>

Wake ==
    /\ worker = "asleep"
    /\ worker' = "run" /\ host' = [host EXCEPT !.pc = "start"]
    /\ UNCHANGED <<controlVars, port, at, client, write, slept, live, inbox, guest>>

Handler == \/ Activate \/ TakePending \/ Notified \/ SendRequest \/ StopHost
           \/ DropAccepts \/ Deactivate \/ \E h \in HostPorts : Accepted(h)
Handle(h) == HandleResponse(h) \/ HandleRst(h) \/ HandleShutdown(h) \/ HandleRw(h)

Next ==
    \/ \E p \in Ports : Connect(p) \/ ConnectFails(p)
    \/ \E h \in HostPorts : \/ ClientOpens(h) \/ ClientCloses(h)
                            \/ GuestAnswers(h) \/ GuestSends(h) \/ GuestCloses(h)
                            \/ Handle(h) \/ WriteEnds(h) \/ Retire(h)
    \/ ServiceExits \/ Handler \/ RxFails \/ Sleep \/ WorkerEnds \/ Wake

Spec == Init /\ [][Next]_vars

\* The executor polls the handler and the port's future; a write ends, because
\* the service reads or because it is cancelled; a closed pipe is noticed.
Fairness ==
    /\ WF_vars(Handler) /\ WF_vars(WorkerEnds) /\ WF_vars(Wake)
    /\ \A h \in HostPorts : WF_vars(Handle(h)) /\ WF_vars(WriteEnds(h)) /\ WF_vars(Retire(h))

FairSpec == Spec /\ Fairness

-----------------------------------------------------------------------------
Uses(h) == at[h] \in {"queued", "accepting", "pending", "open"} \/ h \in write

(* A guest port has one user at a time: no second listener is made on the     *)
(* pipe's name while an attempt, a connection, awake or asleep, or a write    *)
(* that is still being drained uses it.                                       *)
OnePerPort == \A g, h \in HostPorts : Uses(g) /\ Uses(h) /\ port[g] = port[h] => g = h

(* A port is reserved exactly as long as something uses it: an attempt that   *)
(* ends on any path gives it back.                                            *)
ReservedIsUsed == state.ports = {port[h] : h \in {g \in HostPorts : Uses(g)}}

(* connect pushes and signals under the lock take_pending resets under: a     *)
(* handler that waits has been told of every queued listener.                 *)
QueuedIsTold == host.pc = "select" /\ In({"queued"}) # {} => event

(* While no handler is active nothing is queued or being accepted, and        *)
(* asleep only connections are left: the next worker can activate and every   *)
(* listener belongs to one that serves it.                                    *)
InactiveIsQuiet ==
    /\ ~state.active => In({"queued", "accepting"}) = {}
    /\ worker = "asleep" => ~state.active /\ In({"pending"}) = {} /\ write = {}

(* A listener that was reported made is taken by the handler or given up.     *)
ListenerIsServed == \A h \in HostPorts : (at[h] = "queued") ~> (at[h] # "queued")

(* The port of a pipe the service has closed becomes free.                    *)
ClosedIsFreed ==
    \A h \in HostPorts : (at[h] = "open" /\ client[h] = "closed") ~> ~Uses(h)

(* A guest whose host peer is gone is told so by an RST. The code does not    *)
(* keep this when the service closes before the guest's RESPONSE arrives.     *)
ClosedIsTold ==
    \A h \in HostPorts : (guest[h] = "connected" /\ at[h] = "gone") ~> (guest[h] = "closed")

(* The bookkeeping of host connections: one user per port, a port reserved    *)
(* exactly while it is used, no listener the handler is not told of, and none *)
(* left over when no handler is active.                                       *)
PortsSound == TypeOK /\ OnePerPort /\ ReservedIsUsed /\ QueuedIsTold /\ InactiveIsQuiet
=============================================================================
