--------------------------- MODULE HostPortsProofs ---------------------------
(* The bookkeeping of HostPorts for any guest ports and any number of         *)
(* attempts: one user per port, and a port reserved exactly while it is used. *)
EXTENDS HostPorts, TLAPS

\* A leaf may take longer than the default.
USE SMTT(60), ZenonT(60)

Users == {h \in HostPorts : Uses(h)}
Listed == {"queued", "accepting", "pending", "open"}
Places == {"none", "gone"} \cup Listed

\* The part of the types the argument needs.
IsState(s) ==
    /\ s = [active |-> s.active, next |-> s.next, ports |-> s.ports]
    /\ s.next \in Nat \ {0} /\ s.ports \subseteq Ports

Shapes ==
    /\ IsState(state)
    /\ port \in [HostPorts -> Ports \cup {NoPort}]
    /\ at \in [HostPorts -> Places] /\ write \subseteq HostPorts

\* A host port that has not been given out is not in use, and only a connection
\* is written to; the write may outlive it.
Unused ==
    /\ \A h \in HostPorts : h >= state.next => ~Uses(h)
    /\ \A h \in write : at[h] \in {"open", "gone"}

PortInv == Shapes /\ Unused /\ OnePerPort /\ ReservedIsUsed

-----------------------------------------------------------------------------
\* Users that leave take their ports, and nobody else's, out of the set.
LEMMA UsersLeave ==
    ASSUME OnePerPort, ReservedIsUsed, NEW G \in SUBSET Users,
           port' = port, \A h \in HostPorts : Uses(h)' <=> Uses(h) /\ h \notin G,
           state'.ports = state.ports \ {port[h] : h \in G}
    PROVE  OnePerPort' /\ ReservedIsUsed'
<1>1. OnePerPort'
    BY DEF OnePerPort
<1>2. \A p : p \in state'.ports <=> \E h \in HostPorts : Uses(h) /\ h \notin G /\ p = port[h]
    BY DEF OnePerPort, ReservedIsUsed, Users
<1>3. state'.ports = {port[h] : h \in {g \in HostPorts : Uses(g) /\ g \notin G}}
    BY <1>2
<1>4. {g \in HostPorts : Uses(g)}' = {g \in HostPorts : Uses(g) /\ g \notin G}
    OBVIOUS
<1>5. ReservedIsUsed'
    BY <1>3, <1>4 DEF ReservedIsUsed
<1> QED BY <1>1, <1>5

\* Nobody comes and nobody leaves.
LEMMA UsersStay ==
    ASSUME PortInv, Shapes', state'.next >= state.next, state'.ports = state.ports, port' = port,
           \A h \in HostPorts : Uses(h)' <=> Uses(h),
           \A h \in write' : at'[h] \in {"open", "gone"}
    PROVE  PortInv'
<1>1. {} \in SUBSET Users /\ state'.ports = state.ports \ {port[h] : h \in {}}
    OBVIOUS
<1>2. OnePerPort' /\ ReservedIsUsed'
    BY <1>1, UsersLeave, Zenon DEF PortInv
<1>3. Unused'
    BY DEF PortInv, Unused, Shapes, IsState, HostPorts
<1> QED BY <1>2, <1>3 DEF PortInv

\* Dropping the pipes of attempts that have one: a port stays reserved while a
\* write still shares the lease.
LEMMA DropKeeps ==
    ASSUME PortInv, NEW hs \in SUBSET HostPorts, \A h \in hs : at[h] \in Listed,
           at' = Dropped(hs), state'.ports = Freed(hs), state'.next = state.next,
           IsState(state'),
           port' = port, write' = write
    PROVE  PortInv'
<1> DEFINE G == hs \ write
<1>1. G \in SUBSET Users
    BY DEF Users, Uses, Listed
<1>2. \A h \in HostPorts : at'[h] = IF h \in hs THEN "gone" ELSE at[h]
    BY DEF Dropped
<1>3. \A h \in HostPorts : Uses(h)' <=> Uses(h) /\ h \notin G
    BY <1>2 DEF Uses, Listed
<1>4. OnePerPort' /\ ReservedIsUsed'
    BY <1>1, <1>3, UsersLeave, Zenon DEF PortInv, Freed
<1>5. Shapes'
    BY <1>2 DEF PortInv, Shapes, Dropped, Places
<1>6. Unused'
    BY <1>2, <1>3 DEF PortInv, Unused, Shapes
<1> QED BY <1>4, <1>5, <1>6 DEF PortInv

\* connect reserves a port that nobody uses for a host port that nobody has.
LEMMA ConnectKeeps ==
    ASSUME PortInv, NEW p \in Ports, Connect(p) PROVE PortInv'
<1> DEFINE n == state.next
<1>1. n \in HostPorts /\ ~Uses(n) /\ p \notin state.ports
    BY PortsAssumption DEF Connect, Reservable, PortInv, Shapes, IsState, Unused, HostPorts
<1>2. /\ at' = [at EXCEPT ![n] = "queued"] /\ port' = [port EXCEPT ![n] = p] /\ write' = write
      /\ state' = [active |-> state.active, next |-> n + 1, ports |-> state.ports \cup {p}]
    BY DEF Connect
<1>3. Shapes'
    <2>1. IsState(state')
        BY <1>2 DEF PortInv, Shapes, IsState
    <2> QED BY <1>1, <1>2, <2>1 DEF PortInv, Shapes, Places, Listed
<1>4. \A h \in HostPorts : Uses(h)' <=> Uses(h) \/ h = n
    BY <1>1, <1>2 DEF Uses, PortInv, Shapes
<1>5. \A h \in HostPorts : h # n => port'[h] = port[h]
    BY <1>2 DEF PortInv, Shapes
<1>6. port'[n] = p /\ state'.ports = state.ports \cup {p} /\ state'.next = n + 1
    BY <1>1, <1>2 DEF PortInv, Shapes, IsState
<1>7. \A h \in HostPorts : Uses(h) => port[h] # p
    BY <1>1 DEF PortInv, ReservedIsUsed
<1>8. OnePerPort'
    BY <1>1, <1>4, <1>5, <1>6, <1>7 DEF PortInv, OnePerPort
<1>9. ReservedIsUsed'
    <2>1. \A q : q \in state'.ports <=> \E h \in HostPorts : (Uses(h) \/ h = n) /\ q = port'[h]
        BY <1>1, <1>5, <1>6 DEF PortInv, ReservedIsUsed
    <2>2. {g \in HostPorts : Uses(g)}' = {g \in HostPorts : Uses(g) \/ g = n}
        BY <1>4
    <2>3. state'.ports = {port'[h] : h \in {g \in HostPorts : Uses(g) \/ g = n}}
        BY <2>1
    <2> QED BY <2>2, <2>3 DEF ReservedIsUsed
<1>10. Unused'
    <2>1. \A h \in HostPorts : h >= state'.next => ~Uses(h)'
        BY <1>4, <1>6 DEF PortInv, Shapes, IsState, Unused, HostPorts
    <2>2. \A h \in write' : at'[h] \in {"open", "gone"}
        BY <1>1, <1>2 DEF PortInv, Shapes, Unused, Uses
    <2> QED BY <2>1, <2>2 DEF Unused
<1> QED BY <1>3, <1>8, <1>9, <1>10 DEF PortInv

\* A write that ends, on a connection that is still there or was retired.
LEMMA WriteEndsKeeps ==
    ASSUME PortInv, NEW h \in HostPorts, WriteEnds(h) PROVE PortInv'
<1>1. port' = port /\ h \in write /\ write' = write \ {h}
    BY DEF WriteEnds, PacketUnchanged
<1>2. CASE at[h] = "open" /\ at' = at /\ state' = state
    BY <1>1, <1>2, UsersStay DEF PortInv, Shapes, IsState, Unused, Uses
<1>3. CASE /\ at' = [g \in HostPorts |-> IF g = h THEN "gone" ELSE at[g]]
           /\ state' = [state EXCEPT !.ports = @ \ {port[h]}]
    <2>1. {h} \in SUBSET Users
        BY <1>1 DEF Users, Uses
    <2>2. IsState(state') /\ state'.next = state.next /\ state'.ports = state.ports \ {port[h]}
        BY <1>3 DEF PortInv, Shapes, IsState
    <2>3. \A g \in HostPorts : Uses(g)' <=> Uses(g) /\ g \notin {h}
        BY <1>1, <1>3 DEF Uses
    <2>4. state'.ports = state.ports \ {port[g] : g \in {h}}
        BY <2>2
    <2>5. OnePerPort' /\ ReservedIsUsed'
        BY <1>1, <2>1, <2>3, <2>4, UsersLeave, Zenon DEF PortInv
    <2>6. Shapes'
        BY <1>1, <1>3, <2>2 DEF PortInv, Shapes, Places
    <2>7. Unused'
        BY <1>1, <1>3, <2>2, <2>3 DEF PortInv, Shapes, Unused
    <2> QED BY <2>5, <2>6, <2>7 DEF PortInv
<1>4. CASE at[h] = "gone" /\ at' = at /\ state' = [state EXCEPT !.ports = @ \ {port[h]}]
    <2>1. at' = [g \in HostPorts |-> IF g = h THEN "gone" ELSE at[g]]
        BY <1>4 DEF PortInv, Shapes
    <2> QED BY <1>3, <1>4, <2>1
<1>5. Dropped({h}) = [g \in HostPorts |-> IF g = h THEN "gone" ELSE at[g]]
    BY DEF Dropped
<1> QED BY <1>2, <1>3, <1>4, <1>5 DEF WriteEnds

\* The end of the worker: only connections that are kept go on using a port.
LEMMA WorkerEndsKeeps ==
    ASSUME PortInv, WorkerEnds PROVE PortInv'
<1> DEFINE left == In({"pending", "open"}) \ (IF worker = "stop" THEN In(Kept) ELSE {})
           G == left \cup (write \ In({"open"}))
<1>1. /\ at' = Dropped(left) /\ write' = {} /\ port' = port
      /\ state' = [state EXCEPT !.ports = @ \ {port[h] : h \in G}]
    BY DEF WorkerEnds
<1>2. IsState(state') /\ state'.next = state.next /\ state'.ports = state.ports \ {port[h] : h \in G}
    BY <1>1 DEF PortInv, Shapes, IsState
<1>3. G \in SUBSET Users
    BY DEF In, Users, Uses, PortInv, Shapes
<1>4. \A h \in HostPorts : at'[h] = IF h \in left THEN "gone" ELSE at[h]
    BY <1>1 DEF Dropped
<1>6. \A h \in HostPorts : Uses(h)' <=> Uses(h) /\ h \notin G
    BY <1>1, <1>4 DEF Uses, In, Kept, PortInv, Shapes, Unused
<1>7. OnePerPort' /\ ReservedIsUsed'
    BY <1>1, <1>2, <1>3, <1>6, UsersLeave, Zenon DEF PortInv
<1>8. Shapes'
    BY <1>1, <1>2, <1>4 DEF PortInv, Shapes, Places, Dropped
<1>9. Unused'
    BY <1>1, <1>2, <1>6 DEF PortInv, Shapes, Unused
<1> QED BY <1>7, <1>8, <1>9 DEF PortInv

\* One step.
LEMMA PortStep == PortInv /\ [Next]_vars => PortInv'
<1> SUFFICES ASSUME PortInv, [Next]_vars PROVE PortInv'
    OBVIOUS
<1>1. CASE UNCHANGED <<state, port, at, write>>
    <2>1. \A h \in HostPorts : Uses(h)' <=> Uses(h)
        BY <1>1 DEF Uses
    <2>2. Shapes'
        BY <1>1 DEF PortInv, Shapes, IsState
    <2> QED BY <1>1, <2>1, <2>2, UsersStay DEF PortInv, Unused, Shapes, IsState
<1>2. ASSUME NEW h \in HostPorts, Handle(h) PROVE PortInv'
    <2>1. port' = port
        BY <1>2 DEF Handle, HandleResponse, HandleRst, HandleShutdown, HandleRw, PacketUnchanged
    <2>2. ASSUME NEW hs \in SUBSET HostPorts, \A g \in hs : at[g] \in {"pending", "open"},
                 Drop(hs), write' = write
          PROVE  PortInv'
        <3>1. IsState(state') /\ state'.next = state.next /\ state'.ports = Freed(hs)
            BY <2>2 DEF Drop, PortInv, Shapes, IsState, Freed
        <3> QED BY <2>1, <2>2, <3>1, DropKeeps DEF Drop, Listed
    <2>3. CASE HandleResponse(h)
        <3>1. CASE at[h] = "pending" /\ at' = [at EXCEPT ![h] = "open"] /\ state' = state
            <4>1. write' = write
                BY <2>3 DEF HandleResponse
            <4>2. Shapes' /\ \A g \in HostPorts : Uses(g)' <=> Uses(g)
                BY <2>1, <3>1, <4>1 DEF PortInv, Shapes, Places, Listed, Uses
            <4>3. \A g \in write' : at'[g] \in {"open", "gone"}
                BY <3>1, <4>1 DEF PortInv, Shapes, Unused
            <4> QED BY <2>1, <3>1, <4>2, <4>3, UsersStay DEF PortInv, Shapes, IsState
        <3>2. CASE at[h] = "pending" /\ Drop({h})
            BY <2>2, <2>3, <3>2 DEF HandleResponse
        <3>3. CASE UNCHANGED <<at, state>>
            BY <1>1, <2>1, <2>3, <3>3 DEF HandleResponse
        <3> QED BY <2>3, <3>1, <3>2, <3>3 DEF HandleResponse
    <2>4. CASE HandleRst(h)
        BY <2>2, <2>4 DEF HandleRst, In
    <2>5. CASE HandleShutdown(h)
        BY <2>2, <2>5 DEF HandleShutdown, In
    <2>6. CASE HandleRw(h)
        <3>1. CASE at[h] = "open" /\ write' = write \cup {h} /\ UNCHANGED <<at, state>>
            <4>1. Shapes' /\ (\A g \in HostPorts : Uses(g)' <=> Uses(g))
                  /\ \A g \in write' : at'[g] \in {"open", "gone"}
                BY <2>1, <3>1 DEF PortInv, Shapes, IsState, Unused, Uses
            <4> QED BY <2>1, <3>1, <4>1, UsersStay DEF PortInv, Shapes, IsState
        <3>2. CASE at[h] = "open" /\ Drop({h}) /\ write' = write
            BY <2>2, <3>2
        <3>3. CASE UNCHANGED <<at, state, write>>
            BY <1>1, <2>1, <3>3
        <3> QED BY <2>6, <3>1, <3>2, <3>3 DEF HandleRw
    <2> QED BY <1>2, <2>3, <2>4, <2>5, <2>6 DEF Handle
<1>3. ASSUME NEW p \in Ports, ConnectFails(p) PROVE PortInv'
    <2>1. IsState(state') /\ state'.next >= state.next /\ state'.ports = state.ports
        BY <1>3 DEF ConnectFails, PortInv, Shapes, IsState
    <2>2. UNCHANGED <<port, at, write>>
        BY <1>3 DEF ConnectFails
    <2> QED BY <2>1, <2>2, UsersStay DEF PortInv, Shapes, Unused, Uses
<1>4. CASE Activate
    <2>1. IsState(state') /\ state'.next = state.next /\ state'.ports = state.ports
        BY <1>4 DEF Activate, PortInv, Shapes, IsState
    <2>2. UNCHANGED <<port, at, write>>
        BY <1>4 DEF Activate
    <2> QED BY <2>1, <2>2, UsersStay DEF PortInv, Shapes, IsState, Unused, Uses
<1>5. CASE TakePending
    <2>1. /\ at' = [h \in HostPorts |-> IF at[h] = "queued" THEN "accepting" ELSE at[h]]
          /\ UNCHANGED <<state, port, write>>
        BY <1>5 DEF TakePending
    <2>2. Shapes' /\ \A h \in HostPorts : Uses(h)' <=> Uses(h)
        BY <2>1 DEF PortInv, Shapes, Places, Listed, Uses
    <2>3. \A h \in write' : at'[h] \in {"open", "gone"}
        BY <2>1 DEF PortInv, Shapes, Unused
    <2> QED BY <2>1, <2>2, <2>3, UsersStay DEF PortInv, Shapes, IsState
<1>6. ASSUME NEW h \in HostPorts, Accepted(h) PROVE PortInv'
    <2>1. at[h] = "accepting" /\ UNCHANGED <<port, write>>
        BY <1>6 DEF Accepted
    <2>2. CASE at' = [at EXCEPT ![h] = "pending"] /\ state' = state
        <3>1. Shapes' /\ \A g \in HostPorts : Uses(g)' <=> Uses(g)
            BY <2>1, <2>2 DEF PortInv, Shapes, Places, Listed, Uses
        <3>2. \A g \in write' : at'[g] \in {"open", "gone"}
            BY <2>1, <2>2 DEF PortInv, Shapes, Unused
        <3> QED BY <2>1, <2>2, <3>1, <3>2, UsersStay DEF PortInv, Shapes, IsState
    <2>3. CASE Drop({h})
        <3>1. IsState(state') /\ state'.next = state.next /\ state'.ports = Freed({h})
            BY <2>3 DEF Drop, PortInv, Shapes, IsState, Freed
        <3> QED BY <2>1, <2>3, <3>1, DropKeeps DEF Drop, Listed
    <2> QED BY <1>6, <2>2, <2>3 DEF Accepted, controlVars
<1>7. CASE DropAccepts
    <2>1. Drop(In({"accepting"})) /\ UNCHANGED <<port, write>>
        BY <1>7 DEF DropAccepts
    <2>2. /\ IsState(state') /\ state'.next = state.next
          /\ state'.ports = Freed(In({"accepting"}))
        BY <2>1 DEF Drop, PortInv, Shapes, IsState, Freed
    <2>3. In({"accepting"}) \in SUBSET HostPorts /\ \A h \in In({"accepting"}) : at[h] \in Listed
        BY DEF In, Listed
    <2> QED BY <2>1, <2>2, <2>3, DropKeeps DEF Drop
<1>8. CASE Deactivate
    <2>1. at' = Dropped(In({"queued"})) /\ UNCHANGED <<port, write>>
        BY <1>8 DEF Deactivate
    <2>2. /\ IsState(state') /\ state'.next = state.next
          /\ state'.ports = Freed(In({"queued"}))
        BY <1>8 DEF Deactivate, PortInv, Shapes, IsState, Freed
    <2>3. In({"queued"}) \in SUBSET HostPorts /\ \A h \in In({"queued"}) : at[h] \in Listed
        BY DEF In, Listed
    <2> QED BY <2>1, <2>2, <2>3, DropKeeps
<1>9. ASSUME NEW h \in HostPorts, Retire(h) PROVE PortInv'
    <2>1. at[h] = "open" /\ Drop({h}) /\ UNCHANGED <<port, write>>
        BY <1>9 DEF Retire, PacketUnchanged
    <2>2. IsState(state') /\ state'.next = state.next /\ state'.ports = Freed({h})
        BY <2>1 DEF Drop, PortInv, Shapes, IsState, Freed
    <2> QED BY <2>1, <2>2, DropKeeps DEF Drop, Listed
<1>10. CASE \/ \E h \in HostPorts : \/ ClientOpens(h) \/ ClientCloses(h) \/ GuestAnswers(h)
                                     \/ GuestSends(h) \/ GuestCloses(h)
            \/ ServiceExits \/ Notified \/ SendRequest \/ StopHost \/ RxFails \/ Sleep \/ Wake
            \/ UNCHANGED vars
    BY <1>1, <1>10 DEF ClientOpens, ClientCloses, GuestAnswers, GuestSends, GuestCloses, Says,
                       ServiceExits, Notified, SendRequest, StopHost, RxFails, Sleep, Wake,
                       controlVars, vars
<1> QED BY <1>2, <1>3, <1>4, <1>5, <1>6, <1>7, <1>8, <1>9, <1>10, ConnectKeeps, WriteEndsKeeps,
           WorkerEndsKeeps DEF Next, Handler

\* At the start no port is given out, reserved or used.
LEMMA PortInit == Init => PortInv
<1> SUFFICES ASSUME Init PROVE PortInv
    OBVIOUS
<1>1. \A h \in HostPorts : ~Uses(h)
    BY DEF Init, Uses
<1>2. Shapes
    BY DEF Init, Shapes, IsState, Places
<1> QED BY <1>1, <1>2 DEF Init, PortInv, Unused, OnePerPort, ReservedIsUsed

\* For any guest ports and any number of connects, failures, sleeps and ends of
\* the worker, HostControl never hands a guest port to a second attempt while
\* a listener, a handshake, a connection or a write still being drained uses it.
THEOREM PortsStayExclusive == Spec => []OnePerPort
<1>1. PortInv => OnePerPort
    BY DEF PortInv
<1> QED BY <1>1, PortInit, PortStep, PTL DEF Spec

\* And every path on which an attempt ends gives its port back: the set
\* of reserved ports is the set of ports in use.
THEOREM ReservationsAreUsed == Spec => []ReservedIsUsed
<1>1. PortInv => ReservedIsUsed
    BY DEF PortInv
<1> QED BY <1>1, PortInit, PortStep, PTL DEF Spec

-----------------------------------------------------------------------------
\* Every step leaves the state well-typed.
States == [active : BOOLEAN, next : 1..(MaxHostPort + 1), ports : SUBSET Ports]
Ops == {"RESPONSE", "RST", "RW", "SHUTDOWN"}

\* What happens to the packets of an attempt keeps their type.
LEMMA InboxStep ==
    ASSUME TypeOK, NEW h \in HostPorts,
           \/ inbox' = inbox
           \/ inbox' = [inbox EXCEPT ![h] = <<>>]
           \/ inbox[h] # <<>> /\ inbox' = [inbox EXCEPT ![h] = Tail(@)]
           \/ \E op \in Ops : inbox' = [inbox EXCEPT ![h] = Append(@, op)]
    PROVE  inbox' \in [HostPorts -> Seq(Ops)]
<1>1. inbox \in [HostPorts -> Seq(Ops)]
    BY DEF TypeOK, Ops
<1>2. /\ <<>> \in Seq(Ops) /\ \A op \in Ops : Append(inbox[h], op) \in Seq(Ops)
      /\ inbox[h] # <<>> => Tail(inbox[h]) \in Seq(Ops)
    BY <1>1
<1> QED BY <1>1, <1>2, Zenon

\* Letting go of pipes keeps the types of the control and of the places.
LEMMA DropType ==
    ASSUME TypeOK, NEW hs, Drop(hs)
    PROVE  state' \in States /\ at' \in [HostPorts -> Places]
BY Zenon DEF TypeOK, States, Drop, Dropped, Freed, Places, Listed

\* Every step of the worker, the handler, the guest and the clients keeps the types.
LEMMA TypeStep == TypeOK /\ [Next]_vars => TypeOK'
<1> SUFFICES ASSUME TypeOK, [Next]_vars PROVE TypeOK'
    OBVIOUS
<1> USE PortsAssumption DEF TypeOK
<1>1. ASSUME NEW p \in Ports, Connect(p) PROVE TypeOK'
    <2>1. state.next \in HostPorts /\ state.next + 1 \in 1..(MaxHostPort + 1)
        BY <1>1 DEF Connect, Reservable, HostPorts
    <2>2. state' \in States
        BY <1>1, <2>1 DEF Connect, States
    <2> QED BY <1>1, <2>1, <2>2 DEF Connect, States, workerVars
<1>2. ASSUME NEW p \in Ports, ConnectFails(p) PROVE TypeOK'
    <2>1. state.next + 1 \in 1..(MaxHostPort + 1)
        BY <1>2 DEF ConnectFails, Reservable
    <2>2. state' \in States
        BY <1>2, <2>1, Zenon DEF ConnectFails, States
    <2> QED BY <1>2, <2>2 DEF ConnectFails, States, workerVars
<1>3. ASSUME NEW h \in HostPorts, ClientOpens(h) \/ ClientCloses(h) PROVE TypeOK'
    BY <1>3, ZenonT(60) DEF ClientOpens, ClientCloses, controlVars, workerVars
<1>4. CASE ServiceExits
    BY <1>4, ZenonT(60) DEF ServiceExits, controlVars, workerVars
<1>5. CASE Activate
    BY <1>5, ZenonT(60) DEF Activate
<1>6. CASE Notified \/ StopHost
    <2>1. CASE Notified
        BY <2>1, Zenon DEF Notified, controlVars
    <2>2. CASE StopHost
        BY <2>2 DEF StopHost, controlVars
    <2> QED BY <1>6, <2>1, <2>2
<1>7. CASE SendRequest
    BY <1>7, Zenon DEF SendRequest, controlVars, workerVars
<1>8. CASE TakePending
    BY <1>8, Zenon DEF TakePending
<1>9. ASSUME NEW h \in HostPorts, Accepted(h) PROVE TypeOK'
    <2>1. CASE at' = [at EXCEPT ![h] = "pending"] /\ UNCHANGED <<controlVars, worker, slept>>
               /\ host' = [pc |-> "send", h |-> h]
        BY <1>9, <2>1 DEF Accepted, controlVars
    <2>2. CASE Drop({h}) /\ Die /\ UNCHANGED event
        <3>1. state' \in States /\ at' \in [HostPorts -> Places]
            BY <2>2, DropType
        <3> QED BY <1>9, <2>2, <3>1 DEF Accepted, Die, States, Places, Listed
    <2> QED BY <1>9, <2>1, <2>2 DEF Accepted
<1>10. CASE DropAccepts
    BY <1>10, DropType DEF DropAccepts, workerVars, States, Places, Listed
<1>11. CASE Deactivate
    <2>1. at' \in [HostPorts -> Places]
        BY <1>11 DEF Deactivate, Dropped, Places, Listed
    <2>2. state' \in States
        BY <1>11 DEF Deactivate, Freed, States
    <2> QED BY <1>11, <2>1, <2>2, ZenonT(60) DEF Deactivate, States, Places, Listed
<1>12. ASSUME NEW h \in HostPorts, GuestAnswers(h) \/ GuestSends(h) \/ GuestCloses(h) PROVE TypeOK'
    <2>1. PICK op \in Ops, g \in {"connected", "closed"} : Says(h, op, g)
        BY <1>12 DEF GuestAnswers, GuestSends, GuestCloses, Ops
    <2>2. inbox' \in [HostPorts -> Seq(Ops)]
        BY <2>1, InboxStep, Zenon DEF Says
    <2> QED BY <2>1, <2>2 DEF Says, Ops, controlVars, workerVars
<1>13. ASSUME NEW h \in HostPorts, Handle(h) PROVE TypeOK'
    <2>1. \/ inbox' = [inbox EXCEPT ![h] = <<>>]
          \/ inbox[h] # <<>> /\ inbox' = [inbox EXCEPT ![h] = Tail(@)]
        BY <1>13 DEF Handle, HandleResponse, HandleRst, HandleShutdown, HandleRw, Packet,
                     StaysOpen, Ends
    <2>2. inbox' \in [HostPorts -> Seq(Ops)]
        BY <2>1, InboxStep, Zenon
    <2>3. UNCHANGED <<event, port, client, host, worker, slept, live>>
        BY <1>13 DEF Handle, HandleResponse, HandleRst, HandleShutdown, HandleRw, PacketUnchanged,
                     workerVars
    <2>4. CASE HandleResponse(h)
        BY <2>2, <2>3, <2>4, DropType, ZenonT(60) DEF HandleResponse, States, Places, Listed, Ops
    <2>5. CASE HandleRst(h) \/ HandleShutdown(h)
        BY <2>2, <2>3, <2>5, DropType DEF HandleRst, HandleShutdown, States, Places, Listed, Ops
    <2>6. CASE HandleRw(h)
        BY <2>2, <2>3, <2>6, DropType, ZenonT(60) DEF HandleRw, States, Places, Listed, Ops
    <2> QED BY <1>13, <2>4, <2>5, <2>6 DEF Handle
<1>14. ASSUME NEW h \in HostPorts, WriteEnds(h) PROVE TypeOK'
    <2>1. inbox' \in [HostPorts -> Seq(Ops)]
        BY <1>14, InboxStep DEF WriteEnds
    <2>2. at' \in [HostPorts -> Places]
        BY <1>14 DEF WriteEnds, Dropped, Places, Listed
    <2>4. state' = state \/ state' = [state EXCEPT !.ports = @ \ {port[h]}]
        BY <1>14 DEF WriteEnds
    <2>5. state' \in States
        <3>1. CASE state' = state
            BY <3>1 DEF States
        <3>2. CASE state' = [state EXCEPT !.ports = @ \ {port[h]}]
            BY <3>2, Zenon DEF States
        <3> QED BY <2>4, <3>1, <3>2
    <2>3. /\ write' \subseteq HostPorts
          /\ guest' \in [HostPorts -> {"none", "asked", "connected", "closed"}]
        BY <1>14, Zenon DEF WriteEnds
    <2> QED BY <1>14, <2>1, <2>2, <2>3, <2>5 DEF WriteEnds, PacketUnchanged, workerVars, States, Places,
               Listed, Ops
<1>15. ASSUME NEW h \in HostPorts, Retire(h) PROVE TypeOK'
    BY <1>15, DropType DEF Retire, PacketUnchanged, workerVars, States, Places, Listed
<1>16. CASE WorkerEnds
    <2>1. at' \in [HostPorts -> Places]
        BY <1>16 DEF WorkerEnds, Dropped, Places, Listed
    <2>2. state' \in States
        BY <1>16 DEF WorkerEnds, States
    <2>3. inbox' \in [HostPorts -> Seq(Ops)] /\ write' \subseteq HostPorts
        BY <1>16 DEF WorkerEnds
    <2> QED BY <1>16, <2>1, <2>2, <2>3, ZenonT(60) DEF WorkerEnds, States, Places, Listed, Ops
<1>17. CASE Sleep \/ Wake \/ UNCHANGED vars
    BY <1>17, ZenonT(60) DEF Sleep, Wake, controlVars, vars
<1>18. CASE RxFails
    <2>1. host' \in [pc : {"start", "loop", "select", "send", "drop", "ended"}, h : HostPorts \cup {0}]
        BY <1>18 DEF RxFails
    <2> QED BY <1>18, <2>1, Zenon DEF RxFails, controlVars
<1> QED BY <1>1, <1>2, <1>3, <1>4, <1>5, <1>6, <1>7, <1>8, <1>9, <1>10, <1>11, <1>12, <1>13, <1>14,
           <1>15, <1>16, <1>17, <1>18 DEF Next, Handler

\* connect, the handler, the packets and the sleep leave the state well-typed.
THEOREM TypeCorrect == Spec => []TypeOK
<1>1. Init => TypeOK
    <2> SUFFICES ASSUME Init PROVE TypeOK
        OBVIOUS
    <2>1. state \in States
        BY PortsAssumption DEF Init, States
    <2>2. inbox \in [HostPorts -> Seq(Ops)]
        BY DEF Init
    <2> QED BY <2>1, <2>2, Zenon DEF Init, TypeOK, States, Ops
<1> QED BY <1>1, TypeStep, PTL DEF Spec

\* The control is active exactly while process_host_control holds its ActiveControl,
\* and a worker that sleeps has let it go.
ActiveIsHeld ==
    /\ state.active <=> host.pc \in {"loop", "select", "send", "drop"}
    /\ worker = "asleep" => host.pc = "ended"

TellInv == ActiveIsHeld /\ QueuedIsTold /\ InactiveIsQuiet

\* One step.
LEMMA TellStep == TypeOK /\ TellInv /\ [Next]_vars => TellInv'
<1> SUFFICES ASSUME TypeOK, TellInv, [Next]_vars PROVE TellInv'
    OBVIOUS
<1> USE DEF TypeOK, TellInv, ActiveIsHeld, QueuedIsTold, InactiveIsQuiet, In
<1>1. CASE UNCHANGED <<state, event, at, write, host, worker>>
    BY <1>1
<1>2. ASSUME NEW p \in Ports, Connect(p) \/ ConnectFails(p) PROVE TellInv'
    BY <1>2 DEF Connect, ConnectFails, Reservable, workerVars
<1>3. CASE Activate
    BY <1>3 DEF Activate
<1>4. CASE TakePending
    BY <1>4 DEF TakePending, Running
<1>5. CASE Notified \/ SendRequest \/ StopHost
    BY <1>5 DEF Notified, SendRequest, StopHost, Running, controlVars
<1>6. ASSUME NEW h \in HostPorts, Accepted(h) PROVE TellInv'
    BY <1>6 DEF Accepted, Running, Drop, Dropped, Freed, Die, controlVars
<1>7. CASE DropAccepts
    BY <1>7 DEF DropAccepts, Drop, Dropped, Freed, workerVars
<1>8. CASE Deactivate
    BY <1>8 DEF Deactivate, Dropped, Freed
<1>9. ASSUME NEW h \in HostPorts, Handle(h) \/ WriteEnds(h) \/ Retire(h) PROVE TellInv'
    <2>1. worker \in {"run", "stop"} /\ UNCHANGED <<event, host, worker>>
        BY <1>9 DEF Handle, HandleResponse, HandleRst, HandleShutdown, HandleRw, WriteEnds, Retire,
                    Packet, Polled, Running, PacketUnchanged, workerVars
    <2>2. state'.active = state.active
        BY <1>9 DEF Handle, HandleResponse, HandleRst, HandleShutdown, HandleRw, WriteEnds, Retire,
                    Drop
    <2>3. \A g \in HostPorts : at'[g] = at[g] \/ at'[g] \in {"open", "gone"}
        BY <1>9 DEF Handle, HandleResponse, HandleRst, HandleShutdown, HandleRw, WriteEnds, Retire,
                    Drop, Dropped
    <2> QED BY <2>1, <2>2, <2>3, ZenonT(60)
<1>10. CASE WorkerEnds
    BY <1>10 DEF WorkerEnds, Dropped, Kept
<1>11. CASE Sleep \/ Wake
    BY <1>11 DEF Sleep, Wake, controlVars
<1>12. CASE \/ \E h \in HostPorts : \/ ClientOpens(h) \/ ClientCloses(h) \/ GuestAnswers(h)
                                     \/ GuestSends(h) \/ GuestCloses(h)
            \/ ServiceExits \/ UNCHANGED vars
    BY <1>1, <1>12 DEF ClientOpens, ClientCloses, GuestAnswers, GuestSends, GuestCloses, Says,
                       ServiceExits, controlVars, workerVars, vars
<1>13. CASE RxFails
    BY <1>1, <1>13 DEF RxFails, controlVars
<1> QED BY <1>2, <1>3, <1>4, <1>5, <1>6, <1>7, <1>8, <1>9, <1>10, <1>11, <1>12, <1>13 DEF Next, Handler

\* The bookkeeping of host connections is sound for any guest ports and any number of
\* attempts: one user per port, a port reserved exactly while it is used, no listener
\* the handler is not told of, and none left over when no handler is active.
THEOREM PortsStaySound == Spec => []PortsSound
<1>1. Init => TellInv
    BY DEF Init, TellInv, ActiveIsHeld, QueuedIsTold, InactiveIsQuiet, In
<1>2. Spec => []TellInv
    BY <1>1, TellStep, TypeCorrect, PTL DEF Spec
<1>3. TellInv => QueuedIsTold /\ InactiveIsQuiet
    BY DEF TellInv
<1> QED BY <1>2, <1>3, TypeCorrect, PortsStayExclusive, ReservationsAreUsed, PTL DEF PortsSound
=============================================================================
