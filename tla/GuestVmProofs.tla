---------------------------- MODULE GuestVmProofs ----------------------------
(***************************************************************************)
(* One VM inside virtmgr on Linux, for any binder threads, guest sessions  *)
(* and notices: what death means, and that GuestVm implements VmPromise.   *)
(***************************************************************************)
EXTENDS GuestVm, TLAPS

\* A leaf may take longer than the default.
USE SMTT(60), ZenonT(60)

\* The places of a start that has registered its VM.
Starters == {"s_metric", "s_state", "s_undo"}

\* A start in progress owns a VM that has no process yet, and it is the only one.
StartInv ==
    \A c \in Clients : pc[c] \in Starters =>
        /\ owned /\ registered /\ proc = "none"
        /\ pc[c] \in {"s_metric", "s_state"} => vmState = "NotStarted"
        /\ \A d \in Clients : pc[d] \in Starters => d = c

\* The registry: what is owned is registered, and only a VM that was never started can
\* be registered without an owner.
RegistryInv ==
    /\ owned => registered
    /\ registered /\ vmState # "NotStarted" => owned

\* The process, the state and the exit monitor advance together.
MonitorInv ==
    /\ proc = "none" => /\ vmState \in {"NotStarted", "Failed"}
                        /\ pc["mon"] = "off" /\ pc["hang"] = "off"
    /\ proc # "none" => vmState \in {"Running", "ShuttingDown", "Dead"}
    /\ proc = "running" => registered /\ pc["mon"] = "m_wait"
    /\ pc["mon"] \in {"off", "m_wait", "m_measure", "m_reap", "m_dead", "m_died", "m_metric",
                      "m_shut", "m_defer", "k_enter", "done", "panicked"}
    /\ pc["mon"] \notin {"off", "m_wait", "m_measure", "m_reap"} => proc = "reaped"
    /\ pc["mon"] \in {"m_died", "m_metric", "m_shut"} => vmState = "Dead"
    /\ pc["mon"] \in {"m_defer", "k_enter"} => vmState = "Dead" \/ poisoned
    /\ vmState = "Dead" => pc["mon"] \notin {"off", "m_wait", "m_measure", "m_reap", "m_dead"}

\* What has been said about the death.
DeathInv ==
    /\ told > 0 => vmState = "Dead" /\ ~bridge /\ ~callback
    /\ told > 0 => told = 1 /\ pc["mon"] # "m_died"

\* As long as SIGKILL is obeyed nobody panics with the lock, and whoever closes the
\* channel, or has been let through by it, has seen the exit monitor end.
ObeyedInv ==
    obeyed => /\ ~poisoned
              /\ rx = "closed" => proc = "reaped"
              /\ stopped => proc = "reaped"

\* The inductive invariant.
IInv == TypeOK /\ StartInv /\ RegistryInv /\ MonitorInv /\ DeathInv /\ ObeyedInv

-----------------------------------------------------------------------------
(* How threads move. *)

\* The threads that may run kill().
Killers == Clients \cup {"mon", "hang", "main"}

\* Thread t goes on to one of the labels, and no other thread moves.
Moves(t, labels) == \E l \in labels : pc' = [pc EXCEPT ![t] = l]

\* A call that ends leaves its thread idle, or with the kill of the last reference.
LEMMA ReturnMoves ==
  ASSUME TypeOK, NEW c \in Clients, NEW held, Return(c, held)
  PROVE  Moves(c, {"idle", "k_enter"}) /\ dropped' \in BOOLEAN
<1>1. CASE LastRef(c, held)
  BY <1>1 DEF Return, Goto, Moves
<1>2. CASE ~LastRef(c, held)
  BY <1>2 DEF Return, Goto, Moves, TypeOK
<1> QED BY <1>1, <1>2

\* So does a kill; on any other thread it is the end.
LEMMA KillEndsMoves ==
  ASSUME TypeOK, NEW t \in Killers, KillEnds(t)
  PROVE  /\ Moves(t, IF t \in Clients THEN {"idle", "k_enter"} ELSE {"done"})
         /\ dropped' \in BOOLEAN /\ down' \in BOOLEAN
<1>1. down' \in BOOLEAN
  BY DEF KillEnds
<1>2. CASE t \in Clients
  <2>1. Return(t, handle \/ owned)
    BY <1>2 DEF KillEnds
  <2> QED BY <1>1, <1>2, <2>1, ReturnMoves
<1>3. CASE t \notin Clients
  BY <1>1, <1>3 DEF KillEnds, Goto, Moves, TypeOK
<1> QED BY <1>2, <1>3

\* A panic leaves the monitor with what it has deferred, and any other thread nowhere.
LEMMA PanicMoves ==
  ASSUME TypeOK, NEW t \in Threads, Panic(t)
  PROVE  /\ Moves(t, IF pc[t] = "m_dead" THEN {"m_defer"} ELSE {"panicked"})
         /\ down' \in BOOLEAN
<1>1. down' \in BOOLEAN
  BY DEF Panic
<1> QED BY <1>1, Zenon DEF Panic, Goto, Moves

\* A thread that moves stays at a place of the program.
LEMMA MoveType ==
  ASSUME TypeOK, NEW t \in Threads, NEW labels \in SUBSET Labels, Moves(t, labels)
  PROVE  pc' \in [Threads -> Labels]
BY DEF TypeOK, Moves

\* So does one that goes to a given place.
LEMMA GotoType ==
  ASSUME TypeOK, NEW t \in Threads, NEW l \in Labels, Goto(t, l)
  PROVE  pc' \in [Threads -> Labels]
BY DEF TypeOK, Goto

(* TypeOK in three parts, which the provers take one at a time: the fields of the instance's   *)
(* state, those of the registry, and the rest.                                                 *)
InstanceType ==
    /\ vmState \in {"NotStarted", "Running", "ShuttingDown", "Dead", "Failed"}
    /\ payload \in Starting .. Hangup
    /\ rx \in {"none", "open", "closed"}
    /\ agent \in BOOLEAN /\ poisoned \in BOOLEAN /\ bridge \in BOOLEAN /\ callback \in BOOLEAN

RegistryType ==
    registered \in BOOLEAN /\ owned \in BOOLEAN /\ handle \in BOOLEAN /\ dropped \in BOOLEAN

ProcessType ==
    /\ proc \in {"none", "running", "zombie", "reaped"}
    /\ shut \in BOOLEAN /\ down \in BOOLEAN /\ obeyed \in BOOLEAN /\ stopped \in BOOLEAN
    /\ told \in Nat
    /\ pc \in [Threads -> Labels]

\* The three parts are all of it.
LEMMA TypeParts == TypeOK <=> InstanceType /\ RegistryType /\ ProcessType
  BY DEF TypeOK, InstanceType, RegistryType, ProcessType

-----------------------------------------------------------------------------
\* Every step of every thread leaves the state of the VM well-typed.
LEMMA TypeStep == TypeOK /\ [Next]_vars => TypeOK'
<1> SUFFICES ASSUME TypeOK, [Next]_vars PROVE TypeOK'
  OBVIOUS
<1> USE DEF instance, registry, history
<1>1. ASSUME NEW c \in Clients, StartVm(c) PROVE TypeOK'
  <2>1. pc' \in [Threads -> Labels]
    BY <1>1, GotoType DEF StartVm, Threads, Labels
  <2> QED BY <1>1, <2>1 DEF StartVm, TypeOK
<1>2. ASSUME NEW c \in Clients, StartMetric(c) PROVE TypeOK'
  <2>1. pc' \in [Threads -> Labels]
    BY <1>2, GotoType DEF StartMetric, Threads, Labels
  <2> QED BY <1>2, <2>1 DEF StartMetric, TypeOK
<1>3. ASSUME NEW c \in Clients, StartState(c) PROVE TypeOK'
  <2>1. c \in Threads /\ {"mon", "hang"} \subseteq Threads
    BY DEF Threads
  <2>2. CASE /\ vmState' = "Running" /\ proc' = "running"
             /\ pc' = [pc EXCEPT ![c] = "idle", !["mon"] = "m_wait",
                                 !["hang"] = IF DetectHangup THEN "h_wait" ELSE @]
    <3>1. pc' \in [Threads -> Labels]
      BY <2>1, <2>2 DEF TypeOK, Labels
    <3> QED BY <1>3, <2>2, <3>1 DEF StartState, TypeOK
  <2>3. CASE Goto(c, "s_undo") /\ vmState' \in {vmState, "Failed"} /\ proc' = proc
    <3>1. pc' \in [Threads -> Labels]
      BY <2>1, <2>3, GotoType DEF Labels
    <3> QED BY <1>3, <2>3, <3>1 DEF StartState, TypeOK
  <2> QED BY <1>3, <2>2, <2>3 DEF StartState
<1>4. ASSUME NEW c \in Clients, StartUndo(c) PROVE TypeOK'
  <2>1. owned' \in BOOLEAN /\ Return(c, handle \/ owned')
    BY <1>4 DEF StartUndo
  <2>2. dropped' \in BOOLEAN /\ pc' \in [Threads -> Labels]
    BY <2>1, ReturnMoves, MoveType DEF Threads, Labels
  <2>3. InstanceType'
    BY <1>4, <2>1, <2>2, TypeParts DEF StartUndo, InstanceType
  <2>4. RegistryType'
    BY <1>4, <2>1, <2>2, TypeParts, Zenon DEF StartUndo, RegistryType
  <2>5. ProcessType'
    BY <1>4, <2>1, <2>2, TypeParts DEF StartUndo, ProcessType
  <2> QED BY <2>3, <2>4, <2>5 DEF TypeOK, InstanceType, RegistryType, ProcessType
<1>5. ASSUME NEW c \in Clients, StopVm(c) PROVE TypeOK'
  <2>1. pc' \in [Threads -> Labels]
    BY <1>5, GotoType DEF StopVm, Threads, Labels
  <2> QED BY <1>5, <2>1 DEF StopVm, TypeOK
<1>6. ASSUME NEW c \in Clients, StartBridge(c) PROVE TypeOK'
  BY <1>6 DEF StartBridge, TypeOK
<1>7. ASSUME NEW c \in Clients, RegisterCallback(c) PROVE TypeOK'
  BY <1>7 DEF RegisterCallback, TypeOK
<1>8. ASSUME NEW c \in Clients, DropHandle(c) PROVE TypeOK'
  <2>1. Return(c, owned)
    BY <1>8 DEF DropHandle
  <2>2. dropped' \in BOOLEAN /\ pc' \in [Threads -> Labels]
    BY <2>1, ReturnMoves, MoveType DEF Threads, Labels
  <2>3. InstanceType'
    BY <1>8, <2>2, TypeParts DEF DropHandle, InstanceType
  <2>4. RegistryType'
    BY <1>8, <2>2, TypeParts, Zenon DEF DropHandle, RegistryType
  <2>5. ProcessType'
    BY <1>8, <2>2, TypeParts DEF DropHandle, ProcessType
  <2> QED BY <2>3, <2>4, <2>5 DEF TypeOK, InstanceType, RegistryType, ProcessType
<1>9. ASSUME NEW c \in Clients, CallPanics(c) PROVE TypeOK'
  <2>1. Panic(c)
    BY <1>9 DEF CallPanics
  <2>2. down' \in BOOLEAN /\ pc' \in [Threads -> Labels]
    BY <2>1, PanicMoves, MoveType DEF Threads, Labels
  <2> QED BY <1>9, <2>2 DEF CallPanics, TypeOK
<1>10. ASSUME NEW t \in Killers, KillEnter(t) PROVE TypeOK'
  <2>1. t \in Threads
    BY DEF Killers, Threads
  <2>2. CASE Panic(t) /\ UNCHANGED <<vmState, rx, dropped>>
    <3>1. pc' \in [Threads -> Labels] /\ down' \in BOOLEAN
      BY <2>1, <2>2, PanicMoves, MoveType DEF Labels
    <3> QED BY <1>10, <2>2, <3>1 DEF KillEnter, TypeOK
  <2>3. CASE /\ Goto(t, "k_measure") /\ vmState' = "ShuttingDown" /\ rx' = "open"
             /\ UNCHANGED <<dropped, down>>
    <3>1. pc' \in [Threads -> Labels]
      BY <2>1, <2>3, GotoType DEF Labels
    <3> QED BY <1>10, <2>3, <3>1 DEF KillEnter, TypeOK
  <2>4. CASE Goto(t, "k_send") /\ UNCHANGED <<vmState, rx, dropped, down>>
    <3>1. pc' \in [Threads -> Labels]
      BY <2>1, <2>4, GotoType DEF Labels
    <3> QED BY <1>10, <2>4, <3>1 DEF KillEnter, TypeOK
  <2>5. CASE KillEnds(t) /\ UNCHANGED <<vmState, rx>>
    <3>1. pc' \in [Threads -> Labels] /\ dropped' \in BOOLEAN /\ down' \in BOOLEAN
      BY <2>1, <2>5, KillEndsMoves, MoveType DEF Labels
    <3> QED BY <1>10, <2>5, <3>1 DEF KillEnter, TypeOK
  <2> QED BY <1>10, <2>2, <2>3, <2>4, <2>5 DEF KillEnter, SigKill, KillRefused
<1>11. ASSUME NEW t \in Killers, KillMeasure(t) PROVE TypeOK'
  <2>1. t \in Threads
    BY DEF Killers, Threads
  <2>2. CASE Goto(t, "k_ask") /\ bridge' = FALSE /\ UNCHANGED <<dropped, down>>
    <3>1. pc' \in [Threads -> Labels]
      BY <2>1, <2>2, GotoType DEF Labels
    <3>2. InstanceType'
      BY <1>11, <2>2, <3>1, TypeParts, Zenon DEF KillMeasure, InstanceType
    <3>3. RegistryType'
      BY <1>11, <2>2, <3>1, TypeParts DEF KillMeasure, RegistryType
    <3>4. ProcessType'
      BY <1>11, <2>2, <3>1, TypeParts DEF KillMeasure, ProcessType
    <3> QED BY <3>2, <3>3, <3>4 DEF TypeOK, InstanceType, RegistryType, ProcessType
  <2> QED BY ONLY <1>11, <2>2, Zenon DEF KillMeasure, registry
<1>12. ASSUME NEW t \in Killers, KillAsk(t) PROVE TypeOK'
  <2>1. t \in Threads
    BY DEF Killers, Threads
  <2>2. CASE Goto(t, "k_wait") /\ proc' \in {proc, "zombie"} /\ UNCHANGED <<rx, dropped, down>>
    <3>1. pc' \in [Threads -> Labels]
      BY <2>1, <2>2, GotoType DEF Labels
    <3> QED BY <1>12, <2>2, <3>1 DEF KillAsk, TypeOK
  <2>3. CASE KillEnds(t) /\ rx' = "closed" /\ proc' = proc
    <3>1. pc' \in [Threads -> Labels] /\ dropped' \in BOOLEAN /\ down' \in BOOLEAN
      BY <2>1, <2>3, KillEndsMoves, MoveType DEF Labels
    <3> QED BY <1>12, <2>3, <3>1 DEF KillAsk, TypeOK
  <2> QED BY <1>12, <2>2, <2>3 DEF KillAsk, SigKill, KillRefused
<1>13. ASSUME NEW t \in Killers, KillAwaited(t) PROVE TypeOK'
  <2>1. t \in Threads
    BY DEF Killers, Threads
  <2>2. CASE Goto(t, "k_join") /\ UNCHANGED <<rx, dropped, down>>
    <3>1. pc' \in [Threads -> Labels]
      BY <2>1, <2>2, GotoType DEF Labels
    <3> QED BY <1>13, <2>2, <3>1 DEF KillAwaited, TypeOK
  <2>3. CASE Panic(t) /\ rx' = "closed" /\ UNCHANGED dropped
    <3>1. pc' \in [Threads -> Labels] /\ down' \in BOOLEAN
      BY <2>1, <2>3, PanicMoves, MoveType DEF Labels
    <3> QED BY <1>13, <2>3, <3>1 DEF KillAwaited, TypeOK
  <2> QED BY <1>13, <2>2, <2>3 DEF KillAwaited, SigKill, KillRefused
<1>14. ASSUME NEW t \in Killers, KillTimedOut(t) PROVE TypeOK'
  <2>1. t \in Threads
    BY DEF Killers, Threads
  <2>2. CASE /\ Goto(t, "k_join") /\ proc' \in {proc, "zombie"}
             /\ UNCHANGED <<rx, poisoned, dropped, down>>
    <3>1. pc' \in [Threads -> Labels]
      BY <2>1, <2>2, GotoType DEF Labels
    <3> QED BY <1>14, <2>2, <3>1 DEF KillTimedOut, TypeOK
  <2>3. CASE Panic(t) /\ rx' = "closed" /\ poisoned' = TRUE /\ proc' = proc /\ UNCHANGED dropped
    <3>1. pc' \in [Threads -> Labels] /\ down' \in BOOLEAN
      BY <2>1, <2>3, PanicMoves, MoveType DEF Labels
    <3> QED BY <1>14, <2>3, <3>1 DEF KillTimedOut, TypeOK
  <2> QED BY <1>14, <2>2, <2>3, Zenon DEF KillTimedOut, SigKill, KillRefused
<1>15. ASSUME NEW t \in Killers, KillJoin(t) PROVE TypeOK'
  <2>1. t \in Threads
    BY DEF Killers, Threads
  <2>2. CASE KillEnds(t) /\ stopped' = TRUE
    <3>1. pc' \in [Threads -> Labels] /\ dropped' \in BOOLEAN /\ down' \in BOOLEAN
      BY <2>1, <2>2, KillEndsMoves, MoveType DEF Labels
    <3>2. InstanceType'
      BY <1>15, <2>2, <3>1, TypeParts DEF KillJoin, InstanceType
    <3>3. RegistryType'
      BY <1>15, <2>2, <3>1, TypeParts, Zenon DEF KillJoin, RegistryType
    <3>4. ProcessType'
      BY <1>15, <2>2, <3>1, TypeParts DEF KillJoin, ProcessType
    <3> QED BY <3>2, <3>3, <3>4 DEF TypeOK, InstanceType, RegistryType, ProcessType
  <2>3. CASE Panic(t) /\ UNCHANGED <<dropped, stopped>>
    <3>1. pc' \in [Threads -> Labels] /\ down' \in BOOLEAN
      BY <2>1, <2>3, PanicMoves, MoveType DEF Labels
    <3> QED BY <1>15, <2>3, <3>1 DEF KillJoin, TypeOK
  <2> QED BY <1>15, <2>2, <2>3, Zenon DEF KillJoin, SigKill, KillRefused
<1>16. ASSUME NEW t \in Killers, KillSend(t) PROVE TypeOK'
  <2>1. t \in Threads
    BY DEF Killers, Threads
  <2>2. CASE KillEnds(t) /\ stopped' = TRUE
    <3>1. pc' \in [Threads -> Labels] /\ dropped' \in BOOLEAN /\ down' \in BOOLEAN
      BY <2>1, <2>2, KillEndsMoves, MoveType DEF Labels
    <3> QED BY <1>16, <2>2, <3>1 DEF KillSend, TypeOK
  <2> QED BY <1>16, <2>2 DEF KillSend, SigKill, KillRefused
<1>17. CASE MonitorWait
  <2>1. pc' \in [Threads -> Labels]
    BY <1>17, GotoType DEF MonitorWait, Threads, Labels
  <2> QED BY <1>17, <2>1 DEF MonitorWait, TypeOK
<1>18. CASE MonitorMeasure
  <2>1. pc' \in [Threads -> Labels]
    BY <1>18, GotoType DEF MonitorMeasure, Threads, Labels
  <2> QED BY <1>18, <2>1 DEF MonitorMeasure, TypeOK
<1>19. CASE MonitorReap
  <2>1. pc' \in [Threads -> Labels]
    BY <1>19, GotoType DEF MonitorReap, Threads, Labels
  <2> QED BY <1>19, <2>1 DEF MonitorReap, TypeOK
<1>20. CASE MonitorDead
  <2>1. CASE Panic("mon") /\ UNCHANGED vmState
    <3>1. pc' \in [Threads -> Labels] /\ down' \in BOOLEAN
      BY <2>1, PanicMoves, MoveType DEF Threads, Labels
    <3> QED BY <1>20, <2>1, <3>1 DEF MonitorDead, TypeOK
  <2>2. CASE Goto("mon", "m_died") /\ vmState' = "Dead" /\ UNCHANGED down
    <3>1. pc' \in [Threads -> Labels]
      BY <2>2, GotoType DEF Threads, Labels
    <3> QED BY <1>20, <2>2, <3>1 DEF MonitorDead, TypeOK
  <2> QED BY <1>20, <2>1, <2>2 DEF MonitorDead
<1>21. CASE MonitorDied
  <2>1. pc' \in [Threads -> Labels]
    BY <1>21, GotoType DEF MonitorDied, Threads, Labels
  <2>2. InstanceType'
    BY <1>21, <2>1, TypeParts, Zenon DEF MonitorDied, InstanceType
  <2>3. RegistryType'
    BY <1>21, <2>1, TypeParts DEF MonitorDied, RegistryType
  <2>4. ProcessType'
    BY <1>21, <2>1, TypeParts DEF MonitorDied, ProcessType
  <2> QED BY <2>2, <2>3, <2>4 DEF TypeOK, InstanceType, RegistryType, ProcessType
<1>22. CASE MonitorMetric
  <2>1. pc' \in [Threads -> Labels]
    BY <1>22, GotoType DEF MonitorMetric, Threads, Labels
  <2> QED BY <1>22, <2>1 DEF MonitorMetric, TypeOK
<1>23. CASE MonitorShut
  <2>1. pc' \in [Threads -> Labels]
    BY <1>23, GotoType DEF MonitorShut, Threads, Labels
  <2> QED BY <1>23, <2>1 DEF MonitorShut, TypeOK
<1>24. CASE MonitorDefer
  <2>1. owned' \in BOOLEAN
    BY <1>24 DEF MonitorDefer
  <2>2. pc' \in [Threads -> Labels] /\ dropped' \in BOOLEAN
    <3>1. CASE LastRef("mon", handle \/ owned')
      BY <1>24, <3>1, GotoType DEF MonitorDefer, Threads, Labels
    <3>2. CASE ~LastRef("mon", handle \/ owned')
      BY <1>24, <3>2, GotoType DEF MonitorDefer, Threads, Labels, TypeOK
    <3> QED BY <3>1, <3>2
  <2>3. InstanceType'
    BY <1>24, <2>1, <2>2, TypeParts DEF MonitorDefer, InstanceType
  <2>4. RegistryType'
    BY <1>24, <2>1, <2>2, TypeParts, Zenon DEF MonitorDefer, RegistryType
  <2>5. ProcessType'
    BY <1>24, <2>1, <2>2, TypeParts DEF MonitorDefer, ProcessType
  <2> QED BY <2>3, <2>4, <2>5 DEF TypeOK, InstanceType, RegistryType, ProcessType
<1>25. CASE HangupStarted
  <2>1. pc' \in [Threads -> Labels]
    BY <1>25, GotoType DEF HangupStarted, Threads, Labels
  <2> QED BY <1>25, <2>1 DEF HangupStarted, TypeOK
<1>26. CASE HangupTimedOut
  <2>1. pc' \in [Threads -> Labels]
    BY <1>26, GotoType DEF HangupTimedOut, Threads, Labels
  <2> QED BY <1>26, <2>1 DEF HangupTimedOut, TypeOK
<1>27. CASE HangupTry
  <2>1. pc' \in [Threads -> Labels]
    BY <1>27, GotoType DEF HangupTry, Threads, Labels
  <2> QED BY <1>27, <2>1 DEF HangupTry, TypeOK
<1>28. CASE HangupUpdate
  <2>1. pc' \in [Threads -> Labels]
    BY <1>28, GotoType DEF HangupUpdate, Threads, Labels
  <2>2. payload' \in Starting .. Hangup
    BY <1>28 DEF HangupUpdate, TypeOK, Forward, Starting, Started, Finished, Hangup
  <2> QED BY <1>28, <2>1, <2>2 DEF HangupUpdate, TypeOK
<1>29. CASE ServerJoined
  <2>1. pc' \in [Threads -> Labels]
    BY <1>29, GotoType DEF ServerJoined, Threads, Labels
  <2>2. down' \in BOOLEAN
    BY <1>29, Zenon DEF ServerJoined, TypeOK
  <2> QED BY <1>29, <2>1, <2>2 DEF ServerJoined, TypeOK
<1>30. CASE GuestExits
  BY <1>30 DEF GuestExits, TypeOK
<1>31. ASSUME NEW g \in Guests, NotifyStarted(g) PROVE TypeOK'
  <2>1. pc' \in [Threads -> Labels]
    BY <1>31, GotoType DEF NotifyStarted, Threads, Labels
  <2> QED BY <1>31, <2>1 DEF NotifyStarted, TypeOK
<1>32. ASSUME NEW g \in Guests, StartedUpdate(g) PROVE TypeOK'
  <2>1. pc' \in [Threads -> Labels]
    BY <1>32, GotoType DEF StartedUpdate, Threads, Labels
  <2>2. payload' \in Starting .. Hangup
    BY <1>32 DEF StartedUpdate, TypeOK, Forward, Starting, Started, Finished, Hangup
  <2> QED BY <1>32, <2>1, <2>2 DEF StartedUpdate, TypeOK
<1>33. ASSUME NEW g \in Guests, StartedMetric(g) PROVE TypeOK'
  <2>1. pc' \in [Threads -> Labels]
    BY <1>33, GotoType DEF StartedMetric, Threads, Labels
  <2> QED BY <1>33, <2>1 DEF StartedMetric, TypeOK
<1>34. ASSUME NEW g \in Guests, NotifyReady(g) PROVE TypeOK'
  BY <1>34 DEF NotifyReady, TypeOK, Forward, Starting, Ready, Hangup
<1>35. ASSUME NEW g \in Guests, RegisterAgent(g) PROVE TypeOK'
  BY <1>35 DEF RegisterAgent, TypeOK
<1>36. ASSUME NEW g \in Guests, NotifyFinished(g) PROVE TypeOK'
  <2>1. pc' \in [Threads -> Labels]
    BY <1>36, GotoType DEF NotifyFinished, Threads, Labels
  <2> QED BY <1>36, <2>1 DEF NotifyFinished, TypeOK
<1>37. ASSUME NEW g \in Guests, FinishedState(g) PROVE TypeOK'
  <2>1. CASE Panic(g)
    <3>1. pc' \in [Threads -> Labels] /\ down' \in BOOLEAN
      BY <2>1, PanicMoves, MoveType DEF Threads, Labels
    <3> QED BY <1>37, <3>1 DEF FinishedState, TypeOK
  <2>2. CASE Goto(g, IF vmState = "Running" THEN "f_measure" ELSE "f_update") /\ UNCHANGED down
    <3>1. pc' \in [Threads -> Labels]
      BY <2>2, GotoType DEF Threads, Labels
    <3> QED BY <1>37, <2>2, <3>1 DEF FinishedState, TypeOK
  <2> QED BY <1>37, <2>1, <2>2 DEF FinishedState
<1>38. ASSUME NEW g \in Guests, FinishedMeasure(g) PROVE TypeOK'
  <2>1. pc' \in [Threads -> Labels]
    BY <1>38, GotoType DEF FinishedMeasure, Threads, Labels
  <2> QED BY <1>38, <2>1 DEF FinishedMeasure, TypeOK
<1>39. ASSUME NEW g \in Guests, FinishedUpdate(g) PROVE TypeOK'
  <2>1. pc' \in [Threads -> Labels]
    BY <1>39, GotoType DEF FinishedUpdate, Threads, Labels
  <2>2. payload' \in Starting .. Hangup
    BY <1>39 DEF FinishedUpdate, TypeOK, Forward, Starting, Started, Finished, Hangup
  <2> QED BY <1>39, <2>1, <2>2 DEF FinishedUpdate, TypeOK
<1>40. CASE UNCHANGED vars
  BY <1>40 DEF vars, TypeOK
<1> QED
  BY <1>1, <1>2, <1>3, <1>4, <1>5, <1>6, <1>7, <1>8, <1>9, <1>10, <1>11, <1>12, <1>13, <1>14,
     <1>15, <1>16, <1>17, <1>18, <1>19, <1>20, <1>21, <1>22, <1>23, <1>24, <1>25, <1>26, <1>27,
     <1>28, <1>29, <1>30, <1>31, <1>32, <1>33, <1>34, <1>35, <1>36, <1>37, <1>38, <1>39, <1>40
  DEF Next, Call, Start, Kill, Report, Notify, Monitor, HangupMonitor, Killers
-----------------------------------------------------------------------------
(* The inductive step.  Most steps are quiet: they leave alone what the invariant relates and *)
(* bring no client into a start. *)

\* Where a thread that moves ends up; the others stay where they are.
LEMMA Places ==
  ASSUME TypeOK, NEW t \in Threads, NEW labels \in SUBSET Labels, Moves(t, labels)
  PROVE  pc'[t] \in labels /\ \A u \in Threads : u # t => pc'[u] = pc[u]
BY DEF TypeOK, Moves

\* The same of a thread that goes to a given place.
LEMMA GotoPlaces ==
  ASSUME TypeOK, NEW t \in Threads, NEW l, Goto(t, l)
  PROVE  pc'[t] = l /\ \A u \in Threads : u # t => pc'[u] = pc[u]
BY DEF TypeOK, Goto

\* The threads of virtmgr are not binder threads, and neither are the sessions of guests.
LEMMA Distinct ==
  /\ Clients \subseteq Threads /\ Guests \subseteq Threads
  /\ {"mon", "hang", "main"} \subseteq Threads
  /\ Clients \cap Guests = {}
  /\ \A u \in Clients \cup Guests : u # "mon" /\ u # "hang" /\ u # "main"
BY ThreadsAssumption DEF Threads

\* No thread but the hang-up monitor moves between the places the invariant speaks of.
QuietThreads ==
    /\ pc'["mon"] = pc["mon"]
    /\ pc["hang"] = "off" => pc'["hang"] = "off"
    /\ \A c \in Clients : pc'[c] \in Starters =>
          /\ pc[c] \in Starters
          /\ pc'[c] \in {"s_metric", "s_state"} => pc[c] \in {"s_metric", "s_state"}

\* And nothing else that the invariant speaks of changes.
QuietData ==
    UNCHANGED <<vmState, registered, owned, proc, poisoned, bridge, callback, rx, obeyed, told,
                stopped>>

\* The invariant without the types.
Inv == StartInv /\ RegistryInv /\ MonitorInv /\ DeathInv /\ ObeyedInv

\* A quiet step keeps the invariant.
LEMMA QuietStep ==
  ASSUME Inv, QuietThreads, QuietData
  PROVE  Inv'
<1>1. StartInv'
  BY DEF Inv, StartInv, QuietThreads, QuietData, Starters
<1>2. RegistryInv'
  BY DEF Inv, RegistryInv, QuietThreads, QuietData
<1>3. MonitorInv'
  BY DEF Inv, MonitorInv, QuietThreads, QuietData
<1>4. DeathInv'
  BY DEF Inv, DeathInv, QuietThreads, QuietData
<1>5. ObeyedInv'
  BY DEF Inv, ObeyedInv, QuietThreads, QuietData
<1> QED BY <1>1, <1>2, <1>3, <1>4, <1>5 DEF Inv

\* A thread that moves to a place outside start() is quiet, the exit monitor apart.
LEMMA QuietMove ==
  ASSUME TypeOK, NEW t \in Threads, t # "mon", t = "hang" => pc["hang"] # "off",
         NEW labels \in SUBSET Labels, labels \cap Starters = {}, Moves(t, labels)
  PROVE  QuietThreads
<1>1. pc'[t] \in labels /\ \A u \in Threads : u # t => pc'[u] = pc[u]
  BY Places
<1> QED BY <1>1, Distinct DEF QuietThreads

\* The same of a thread that goes to a given place.
LEMMA QuietGoto ==
  ASSUME TypeOK, NEW t \in Threads, t # "mon", t = "hang" => pc["hang"] # "off",
         NEW l \in Labels \ Starters, Goto(t, l)
  PROVE  QuietThreads
<1>1. pc'[t] = l /\ \A u \in Threads : u # t => pc'[u] = pc[u]
  BY GotoPlaces
<1> QED BY <1>1, Distinct DEF QuietThreads

\* Every step of start, kill, the exit monitor, the hang-up monitor, a session of the guest
\* or the main thread keeps the invariant, whatever the other threads are in the middle of.
LEMMA InvStep == TypeOK /\ Inv /\ [Next]_vars => Inv'
<1> SUFFICES ASSUME TypeOK, Inv, [Next]_vars PROVE Inv'
  OBVIOUS
<1> USE DEF instance, registry, history
<1>1. ASSUME NEW c \in Clients, StartVm(c) PROVE Inv'
  <2>1. pc'[c] = "s_metric" /\ \A u \in Threads : u # c => pc'[u] = pc[u]
    BY <1>1, GotoPlaces, Distinct DEF StartVm
  <2>2. /\ registered /\ ~owned /\ owned' = TRUE
        /\ UNCHANGED <<vmState, rx, poisoned, bridge, callback, registered, proc, obeyed, told,
                       stopped>>
    BY <1>1 DEF StartVm
  <2>3. vmState = "NotStarted" /\ proc = "none"
    BY <2>2 DEF Inv, RegistryInv, MonitorInv
  <2>4. StartInv'
    BY <2>1, <2>2, <2>3, Distinct DEF Inv, StartInv, Starters
  <2>5. RegistryInv'
    BY <2>1, <2>2, <2>3, Distinct DEF Inv, RegistryInv
  <2>6. MonitorInv'
    BY <2>1, <2>2, <2>3, Distinct DEF Inv, MonitorInv
  <2>7. DeathInv'
    BY <2>1, <2>2, <2>3, Distinct DEF Inv, DeathInv
  <2>8. ObeyedInv'
    BY <2>1, <2>2, <2>3, Distinct DEF Inv, ObeyedInv
  <2> QED BY <2>4, <2>5, <2>6, <2>7, <2>8 DEF Inv
<1>2. ASSUME NEW c \in Clients, StartMetric(c) PROVE Inv'
  <2>1. pc'[c] = "s_state" /\ pc[c] = "s_metric" /\ \A u \in Threads : u # c => pc'[u] = pc[u]
    BY <1>2, GotoPlaces, Distinct DEF StartMetric
  <2>2. QuietThreads
    BY <2>1, Distinct DEF QuietThreads, Starters
  <2>3. QuietData
    BY <1>2 DEF StartMetric, QuietData
  <2> QED BY <2>2, <2>3, QuietStep
<1>3. ASSUME NEW c \in Clients, StartState(c) PROVE Inv'
  <2>1. /\ owned /\ registered /\ proc = "none" /\ vmState = "NotStarted" /\ pc[c] = "s_state"
        /\ \A d \in Clients : pc[d] \in Starters => d = c
    BY <1>3 DEF Inv, StartInv, Starters, StartState
  <2>2. CASE /\ vmState' = "Running" /\ proc' = "running"
             /\ pc' = [pc EXCEPT ![c] = "idle", !["mon"] = "m_wait",
                                 !["hang"] = IF DetectHangup THEN "h_wait" ELSE @]
    <3>1. /\ pc'[c] = "idle" /\ pc'["mon"] = "m_wait"
          /\ \A u \in Clients : u # c => pc'[u] = pc[u]
      BY <2>2, Distinct DEF TypeOK
    <3>2. UNCHANGED <<rx, poisoned, bridge, callback, registered, owned, obeyed, told, stopped>>
      BY <1>3 DEF StartState
    <3>3. StartInv'
      BY <2>1, <2>2, <3>1, <3>2, Distinct DEF Inv, StartInv, Starters
    <3>4. RegistryInv'
      BY <2>1, <2>2, <3>1, <3>2, Distinct DEF Inv, RegistryInv
    <3>5. MonitorInv'
      BY <2>1, <2>2, <3>1, <3>2, Distinct DEF Inv, MonitorInv
    <3>6. DeathInv'
      BY <2>1, <2>2, <3>1, <3>2, Distinct DEF Inv, DeathInv
    <3>7. ObeyedInv'
      BY <2>1, <2>2, <3>1, <3>2, Distinct DEF Inv, ObeyedInv
    <3> QED BY <3>3, <3>4, <3>5, <3>6, <3>7 DEF Inv
  <2>3. CASE vmState' = "Failed" /\ proc' = proc /\ Goto(c, "s_undo")
    <3>1. pc'[c] = "s_undo" /\ \A u \in Threads : u # c => pc'[u] = pc[u]
      BY <2>3, GotoPlaces, Distinct
    <3>2. UNCHANGED <<rx, poisoned, bridge, callback, registered, owned, obeyed, told, stopped>>
      BY <1>3 DEF StartState
    <3>3. StartInv'
      BY <2>1, <2>3, <3>1, <3>2, Distinct DEF Inv, StartInv, Starters
    <3>4. RegistryInv'
      BY <2>1, <2>3, <3>1, <3>2, Distinct DEF Inv, RegistryInv
    <3>5. MonitorInv'
      BY <2>1, <2>3, <3>1, <3>2, Distinct DEF Inv, MonitorInv
    <3>6. DeathInv'
      BY <2>1, <2>3, <3>1, <3>2, Distinct DEF Inv, DeathInv
    <3>7. ObeyedInv'
      BY <2>1, <2>3, <3>1, <3>2, Distinct DEF Inv, ObeyedInv
    <3> QED BY <3>3, <3>4, <3>5, <3>6, <3>7 DEF Inv
  <2> QED BY <1>3, <2>1, <2>2, <2>3 DEF StartState
<1>4. ASSUME NEW c \in Clients, StartUndo(c) PROVE Inv'
  <2>1. pc[c] = "s_undo" /\ pc'[c] \notin Starters /\ \A u \in Threads : u # c => pc'[u] = pc[u]
    <3>1. Moves(c, {"idle", "k_enter"})
      BY <1>4, ReturnMoves DEF StartUndo
    <3> QED BY <1>4, <3>1, Places, Distinct DEF StartUndo, Labels, Starters
  <2>2. owned /\ registered /\ proc = "none" /\ \A d \in Clients : pc[d] \in Starters => d = c
    BY <2>1 DEF Inv, StartInv, Starters
  <2>3. /\ registered' = FALSE /\ owned' = FALSE
        /\ UNCHANGED <<vmState, rx, poisoned, bridge, callback, proc, obeyed, told, stopped>>
    BY <1>4, <2>2, Zenon DEF StartUndo
  <2>4. StartInv'
    BY <2>1, <2>2, <2>3, Distinct DEF Inv, StartInv, Starters
  <2>5. RegistryInv'
    BY <2>1, <2>2, <2>3, Distinct DEF Inv, RegistryInv
  <2>6. MonitorInv'
    BY <2>1, <2>2, <2>3, Distinct DEF Inv, MonitorInv
  <2>7. DeathInv'
    BY <2>1, <2>2, <2>3, Distinct DEF Inv, DeathInv
  <2>8. ObeyedInv'
    BY <2>1, <2>2, <2>3, Distinct DEF Inv, ObeyedInv
  <2> QED BY <2>4, <2>5, <2>6, <2>7, <2>8 DEF Inv
<1>5. ASSUME NEW c \in Clients, StopVm(c) PROVE Inv'
  <2>1. QuietThreads
    BY <1>5, QuietGoto, Distinct DEF StopVm, Labels, Starters
  <2>2. QuietData
    BY <1>5 DEF StopVm, QuietData
  <2> QED BY <2>1, <2>2, QuietStep
<1>6. ASSUME NEW c \in Clients, StartBridge(c) PROVE Inv'
  <2>1. /\ vmState = "Running" /\ bridge' = TRUE
        /\ UNCHANGED <<vmState, rx, poisoned, callback, registered, owned, proc, pc, obeyed, told,
                       stopped>>
    BY <1>6 DEF StartBridge
  <2>2. StartInv'
    BY <2>1 DEF Inv, StartInv, Starters
  <2>3. RegistryInv'
    BY <2>1 DEF Inv, RegistryInv
  <2>4. MonitorInv'
    BY <2>1 DEF Inv, MonitorInv
  <2>5. DeathInv'
    BY <2>1 DEF Inv, DeathInv
  <2>6. ObeyedInv'
    BY <2>1 DEF Inv, ObeyedInv
  <2> QED BY <2>2, <2>3, <2>4, <2>5, <2>6 DEF Inv
<1>7. ASSUME NEW c \in Clients, RegisterCallback(c) PROVE Inv'
  <2>1. /\ vmState # "Dead" /\ callback' = TRUE
        /\ UNCHANGED <<vmState, rx, poisoned, bridge, registered, owned, proc, pc, obeyed, told,
                       stopped>>
    BY <1>7 DEF RegisterCallback
  <2>2. StartInv'
    BY <2>1 DEF Inv, StartInv, Starters
  <2>3. RegistryInv'
    BY <2>1 DEF Inv, RegistryInv
  <2>4. MonitorInv'
    BY <2>1 DEF Inv, MonitorInv
  <2>5. DeathInv'
    BY <2>1 DEF Inv, DeathInv
  <2>6. ObeyedInv'
    BY <2>1 DEF Inv, ObeyedInv
  <2> QED BY <2>2, <2>3, <2>4, <2>5, <2>6 DEF Inv
<1>8. ASSUME NEW c \in Clients, DropHandle(c) PROVE Inv'
  <2>1. Moves(c, {"idle", "k_enter"})
    BY <1>8, ReturnMoves DEF DropHandle
  <2>2. QuietThreads
    BY <2>1, QuietMove, Distinct DEF Labels, Starters
  <2>3. QuietData
    BY <1>8 DEF DropHandle, QuietData
  <2> QED BY <2>2, <2>3, QuietStep
<1>9. ASSUME NEW c \in Clients, CallPanics(c) PROVE Inv'
  <2>1. Moves(c, {"panicked"})
    BY <1>9, PanicMoves, Distinct DEF CallPanics, Called
  <2>2. QuietThreads
    BY <2>1, QuietMove, Distinct DEF Labels, Starters
  <2>3. QuietData
    BY <1>9 DEF CallPanics, QuietData
  <2> QED BY <2>2, <2>3, QuietStep
<1>10. ASSUME NEW t \in Killers, KillEnter(t) PROVE Inv'
  <2>1. t \in Threads /\ pc[t] = "k_enter"
    BY <1>10, Distinct DEF Killers, KillEnter
  <2>2. UNCHANGED <<poisoned, bridge, callback, registered, owned, proc, obeyed, told, stopped>>
    BY <1>10 DEF KillEnter
  <2>3. CASE t = "mon"
    <3>1. proc = "reaped" /\ (vmState = "Dead" \/ poisoned)
      BY <2>1, <2>3 DEF Inv, MonitorInv
    <3>2. UNCHANGED <<vmState, rx>> /\ Moves(t, {"done", "panicked"})
      <4>1. CASE Panic(t) /\ UNCHANGED <<vmState, rx>>
        BY <2>1, <4>1, PanicMoves DEF Moves
      <4>2. CASE KillEnds(t) /\ UNCHANGED <<vmState, rx>>
        BY <2>1, <2>3, <4>2, KillEndsMoves, Distinct DEF Moves
      <4> QED BY <1>10, <3>1, <4>1, <4>2 DEF KillEnter
    <3>3. pc'["mon"] \in {"done", "panicked"} /\ \A u \in Threads : u # "mon" => pc'[u] = pc[u]
      BY <2>1, <2>3, <3>2, Places DEF Labels
    <3>4. StartInv'
      BY <2>1, <2>2, <2>3, <3>1, <3>2, <3>3, Distinct DEF Inv, StartInv, Starters
    <3>5. RegistryInv'
      BY <2>1, <2>2, <2>3, <3>1, <3>2, <3>3, Distinct DEF Inv, RegistryInv
    <3>6. MonitorInv'
      BY <2>1, <2>2, <2>3, <3>1, <3>2, <3>3, Distinct DEF Inv, MonitorInv
    <3>7. DeathInv'
      BY <2>1, <2>2, <2>3, <3>1, <3>2, <3>3, Distinct DEF Inv, DeathInv
    <3>8. ObeyedInv'
      BY <2>1, <2>2, <2>3, <3>1, <3>2, <3>3, Distinct DEF Inv, ObeyedInv
    <3> QED BY <3>4, <3>5, <3>6, <3>7, <3>8 DEF Inv
  <2>4. CASE t # "mon"
    <3>1. CASE Panic(t) /\ UNCHANGED <<vmState, rx>>
      <4>1. Moves(t, {"panicked"})
        BY <2>1, <3>1, PanicMoves
      <4>2. QuietThreads
        BY <2>1, <2>4, <4>1, QuietMove DEF Labels, Starters
      <4> QED BY <2>2, <3>1, <4>2, QuietStep DEF QuietData
    <3>2. CASE Goto(t, "k_send") /\ UNCHANGED <<vmState, rx>>
      <4>1. QuietThreads
        BY <2>1, <2>4, <3>2, QuietGoto DEF Labels, Starters
      <4> QED BY <2>2, <3>2, <4>1, QuietStep DEF QuietData
    <3>3. CASE KillEnds(t) /\ UNCHANGED <<vmState, rx>>
      <4>1. Moves(t, IF t \in Clients THEN {"idle", "k_enter"} ELSE {"done"})
        BY <3>3, KillEndsMoves
      <4>2. QuietThreads
        BY <2>1, <2>4, <4>1, QuietMove DEF Labels, Starters
      <4> QED BY <2>2, <3>3, <4>2, QuietStep DEF QuietData
    <3>4. CASE /\ vmState = "Running" /\ vmState' = "ShuttingDown" /\ rx' = "open"
               /\ Goto(t, "k_measure")
      <4>1. QuietThreads
        BY <2>1, <2>4, <3>4, QuietGoto DEF Labels, Starters
      <4>2. StartInv'
        BY <2>2, <3>4, <4>1 DEF Inv, StartInv, Starters, QuietThreads
      <4>3. RegistryInv'
        BY <2>2, <3>4, <4>1 DEF Inv, RegistryInv, QuietThreads
      <4>4. MonitorInv'
        BY <2>2, <3>4, <4>1 DEF Inv, MonitorInv, QuietThreads
      <4>5. DeathInv'
        BY <2>2, <3>4, <4>1 DEF Inv, DeathInv, QuietThreads
      <4>6. ObeyedInv'
        BY <2>2, <3>4, <4>1 DEF Inv, ObeyedInv, QuietThreads
      <4> QED BY <4>2, <4>3, <4>4, <4>5, <4>6 DEF Inv
    <3> QED BY <1>10, <3>1, <3>2, <3>3, <3>4 DEF KillEnter
  <2> QED BY <2>3, <2>4
<1>11. ASSUME NEW t \in Killers, KillMeasure(t) PROVE Inv'
  <2>1. t \in Threads /\ t # "mon" /\ (t = "hang" => pc["hang"] # "off")
    BY <1>11, Distinct DEF Killers, KillMeasure, Inv, MonitorInv
  <2>2. QuietThreads
    BY <1>11, <2>1, QuietGoto DEF KillMeasure, Labels, Starters
  <2>3. /\ bridge' = FALSE
        /\ UNCHANGED <<vmState, rx, poisoned, callback, registered, owned, proc, obeyed, told,
                       stopped>>
    BY <1>11 DEF KillMeasure
  <2>4. StartInv'
    BY <2>2, <2>3 DEF Inv, StartInv, Starters, QuietThreads
  <2>5. RegistryInv'
    BY <2>2, <2>3 DEF Inv, RegistryInv, QuietThreads
  <2>6. MonitorInv'
    BY <2>2, <2>3 DEF Inv, MonitorInv, QuietThreads
  <2>7. DeathInv'
    BY <2>2, <2>3 DEF Inv, DeathInv, QuietThreads
  <2>8. ObeyedInv'
    BY <2>2, <2>3 DEF Inv, ObeyedInv, QuietThreads
  <2> QED BY <2>4, <2>5, <2>6, <2>7, <2>8 DEF Inv
<1>12. ASSUME NEW t \in Killers, KillAsk(t) PROVE Inv'
  <2>1. t \in Threads /\ t # "mon" /\ (t = "hang" => pc["hang"] # "off")
    BY <1>12, Distinct DEF Killers, KillAsk, Inv, MonitorInv
  <2>2. UNCHANGED <<vmState, poisoned, bridge, callback, registered, owned, obeyed, told, stopped>>
    BY <1>12 DEF KillAsk
  <2>3. CASE Goto(t, "k_wait") /\ rx' = rx /\ (proc' = proc \/ SigKill)
    <3>1. QuietThreads
      BY <2>1, <2>3, QuietGoto DEF Labels, Starters
    <3>2. proc' = proc \/ (proc = "running" /\ proc' = "zombie")
      BY <2>3 DEF SigKill
    <3>3. StartInv'
      BY <2>2, <2>3, <3>1, <3>2 DEF Inv, StartInv, Starters, QuietThreads
    <3>4. RegistryInv'
      BY <2>2, <2>3, <3>1, <3>2 DEF Inv, RegistryInv, QuietThreads
    <3>5. MonitorInv'
      BY <2>2, <2>3, <3>1, <3>2 DEF Inv, MonitorInv, QuietThreads
    <3>6. DeathInv'
      BY <2>2, <2>3, <3>1, <3>2 DEF Inv, DeathInv, QuietThreads
    <3>7. ObeyedInv'
      BY <2>2, <2>3, <3>1, <3>2 DEF Inv, ObeyedInv, QuietThreads, MonitorInv
    <3> QED BY <3>3, <3>4, <3>5, <3>6, <3>7 DEF Inv
  <2>4. CASE KillRefused /\ rx' = "closed" /\ KillEnds(t)
    <3>1. Moves(t, IF t \in Clients THEN {"idle", "k_enter"} ELSE {"done"})
      BY <2>4, KillEndsMoves
    <3>2. QuietThreads
      BY <2>1, <3>1, QuietMove DEF Labels, Starters
    <3>3. ~obeyed /\ proc' = proc
      BY <2>4 DEF KillRefused
    <3>4. StartInv'
      BY <2>2, <3>2, <3>3 DEF Inv, StartInv, Starters, QuietThreads
    <3>5. RegistryInv'
      BY <2>2, <3>2, <3>3 DEF Inv, RegistryInv, QuietThreads
    <3>6. MonitorInv'
      BY <2>2, <3>2, <3>3 DEF Inv, MonitorInv, QuietThreads
    <3>7. DeathInv'
      BY <2>2, <3>2, <3>3 DEF Inv, DeathInv, QuietThreads
    <3>8. ObeyedInv'
      BY <2>2, <3>2, <3>3 DEF Inv, ObeyedInv, QuietThreads
    <3> QED BY <3>4, <3>5, <3>6, <3>7, <3>8 DEF Inv
  <2> QED BY <1>12, <2>3, <2>4 DEF KillAsk
<1>13. ASSUME NEW t \in Killers, KillAwaited(t) PROVE Inv'
  <2>1. t \in Threads /\ t # "mon" /\ (t = "hang" => pc["hang"] # "off")
    BY <1>13, Distinct DEF Killers, KillAwaited, Inv, MonitorInv
  <2>2. UNCHANGED <<vmState, poisoned, bridge, callback, registered, owned, proc, obeyed, told,
                    stopped>>
    BY <1>13 DEF KillAwaited
  <2>3. CASE Goto(t, "k_join") /\ rx' = rx
    <3>1. QuietThreads
      BY <2>1, <2>3, QuietGoto DEF Labels, Starters
    <3> QED BY <2>2, <2>3, <3>1, QuietStep DEF QuietData
  <2>4. CASE poisoned /\ Panic(t)
    <3>1. Moves(t, {"panicked"})
      BY <1>13, <2>1, <2>4, PanicMoves DEF KillAwaited
    <3>2. QuietThreads
      BY <2>1, <3>1, QuietMove DEF Labels, Starters
    <3>3. StartInv'
      BY <2>2, <2>4, <3>2 DEF Inv, StartInv, Starters, QuietThreads
    <3>4. RegistryInv'
      BY <2>2, <2>4, <3>2 DEF Inv, RegistryInv, QuietThreads
    <3>5. MonitorInv'
      BY <2>2, <2>4, <3>2 DEF Inv, MonitorInv, QuietThreads
    <3>6. DeathInv'
      BY <2>2, <2>4, <3>2 DEF Inv, DeathInv, QuietThreads
    <3>7. ObeyedInv'
      BY <2>2, <2>4, <3>2 DEF Inv, ObeyedInv, QuietThreads
    <3> QED BY <3>3, <3>4, <3>5, <3>6, <3>7 DEF Inv
  <2> QED BY <1>13, <2>3, <2>4 DEF KillAwaited
<1>14. ASSUME NEW t \in Killers, KillTimedOut(t) PROVE Inv'
  <2>1. t \in Threads /\ t # "mon" /\ (t = "hang" => pc["hang"] # "off")
    BY <1>14, Distinct DEF Killers, KillTimedOut, Inv, MonitorInv
  <2>2. UNCHANGED <<vmState, bridge, callback, registered, owned, obeyed, told, stopped>>
    BY <1>14 DEF KillTimedOut
  <2>3. CASE SigKill /\ Goto(t, "k_join") /\ UNCHANGED <<rx, poisoned>>
    <3>1. QuietThreads
      BY <2>1, <2>3, QuietGoto DEF Labels, Starters
    <3>2. proc' = proc \/ (proc = "running" /\ proc' = "zombie")
      BY <2>3 DEF SigKill
    <3>3. StartInv'
      BY <2>2, <2>3, <3>1, <3>2 DEF Inv, StartInv, Starters, QuietThreads
    <3>4. RegistryInv'
      BY <2>2, <2>3, <3>1, <3>2 DEF Inv, RegistryInv, QuietThreads
    <3>5. MonitorInv'
      BY <2>2, <2>3, <3>1, <3>2 DEF Inv, MonitorInv, QuietThreads
    <3>6. DeathInv'
      BY <2>2, <2>3, <3>1, <3>2 DEF Inv, DeathInv, QuietThreads
    <3>7. ObeyedInv'
      BY <2>2, <2>3, <3>1, <3>2 DEF Inv, ObeyedInv, QuietThreads, MonitorInv
    <3> QED BY <3>3, <3>4, <3>5, <3>6, <3>7 DEF Inv
  <2>4. CASE KillRefused /\ rx' = "closed" /\ poisoned' = TRUE /\ Panic(t)
    <3>1. Moves(t, {"panicked"})
      BY <1>14, <2>1, <2>4, PanicMoves DEF KillTimedOut
    <3>2. QuietThreads
      BY <2>1, <3>1, QuietMove DEF Labels, Starters
    <3>3. ~obeyed /\ proc' = proc
      BY <2>4 DEF KillRefused
    <3>4. StartInv'
      BY <2>2, <2>4, <3>2, <3>3 DEF Inv, StartInv, Starters, QuietThreads
    <3>5. RegistryInv'
      BY <2>2, <2>4, <3>2, <3>3 DEF Inv, RegistryInv, QuietThreads
    <3>6. MonitorInv'
      BY <2>2, <2>4, <3>2, <3>3 DEF Inv, MonitorInv, QuietThreads
    <3>7. DeathInv'
      BY <2>2, <2>4, <3>2, <3>3 DEF Inv, DeathInv, QuietThreads
    <3>8. ObeyedInv'
      BY <2>2, <2>4, <3>2, <3>3 DEF Inv, ObeyedInv, QuietThreads
    <3> QED BY <3>4, <3>5, <3>6, <3>7, <3>8 DEF Inv
  <2> QED BY <1>14, <2>3, <2>4, ZenonT(60) DEF KillTimedOut
<1>15. ASSUME NEW t \in Killers, KillJoin(t) PROVE Inv'
  <2>1. t \in Threads /\ t # "mon" /\ (t = "hang" => pc["hang"] # "off")
    BY <1>15, Distinct DEF Killers, KillJoin, Inv, MonitorInv
  <2>2. /\ UNCHANGED <<vmState, poisoned, bridge, callback, registered, owned, proc, obeyed, told>>
        /\ proc = "reaped"
    BY <1>15 DEF KillJoin, Inv, MonitorInv
  <2>3. QuietThreads
    <3>1. CASE KillEnds(t)
      <4>1. Moves(t, IF t \in Clients THEN {"idle", "k_enter"} ELSE {"done"})
        BY <3>1, KillEndsMoves
      <4> QED BY <2>1, <4>1, QuietMove DEF Labels, Starters
    <3>2. CASE Panic(t)
      <4>1. Moves(t, {"panicked"})
        BY <1>15, <2>1, <3>2, PanicMoves DEF KillJoin
      <4> QED BY <2>1, <4>1, QuietMove DEF Labels, Starters
    <3> QED BY <1>15, <3>1, <3>2 DEF KillJoin
  <2>4. StartInv'
    BY <2>2, <2>3 DEF Inv, StartInv, Starters, QuietThreads
  <2>5. RegistryInv'
    BY <2>2, <2>3 DEF Inv, RegistryInv, QuietThreads
  <2>6. MonitorInv'
    BY <2>2, <2>3 DEF Inv, MonitorInv, QuietThreads
  <2>7. DeathInv'
    BY <2>2, <2>3 DEF Inv, DeathInv, QuietThreads
  <2>8. ObeyedInv'
    BY <2>2, <2>3 DEF Inv, ObeyedInv, QuietThreads
  <2> QED BY <2>4, <2>5, <2>6, <2>7, <2>8 DEF Inv
<1>16. ASSUME NEW t \in Killers, KillSend(t) PROVE Inv'
  <2>1. t \in Threads /\ t # "mon" /\ (t = "hang" => pc["hang"] # "off")
    BY <1>16, Distinct DEF Killers, KillSend, Inv, MonitorInv
  <2>2. /\ UNCHANGED <<vmState, rx, poisoned, bridge, callback, registered, owned, proc, obeyed,
                       told>>
        /\ rx = "closed" /\ stopped' = TRUE
    BY <1>16 DEF KillSend
  <2>3. QuietThreads
    <3>1. Moves(t, IF t \in Clients THEN {"idle", "k_enter"} ELSE {"done"})
      BY <1>16, KillEndsMoves DEF KillSend
    <3> QED BY <2>1, <3>1, QuietMove DEF Labels, Starters
  <2>4. StartInv'
    BY <2>2, <2>3 DEF Inv, StartInv, Starters, QuietThreads
  <2>5. RegistryInv'
    BY <2>2, <2>3 DEF Inv, RegistryInv, QuietThreads
  <2>6. MonitorInv'
    BY <2>2, <2>3 DEF Inv, MonitorInv, QuietThreads
  <2>7. DeathInv'
    BY <2>2, <2>3 DEF Inv, DeathInv, QuietThreads
  <2>8. ObeyedInv'
    BY <2>2, <2>3 DEF Inv, ObeyedInv, QuietThreads
  <2> QED BY <2>4, <2>5, <2>6, <2>7, <2>8 DEF Inv
<1>17. CASE MonitorWait
  <2>1. /\ pc'["mon"] \in {"m_measure", "m_reap"} /\ pc["mon"] = "m_wait"
        /\ \A u \in Threads : u # "mon" => pc'[u] = pc[u]
    BY <1>17, GotoPlaces, Distinct DEF MonitorWait
  <2>2. /\ proc \in {"zombie", "reaped"} /\ UNCHANGED proc
        /\ UNCHANGED <<vmState, rx, poisoned, bridge, callback, registered, owned, obeyed, told,
                       stopped>>
    BY <1>17 DEF MonitorWait
  <2>3. StartInv'
    BY <2>1, <2>2, Distinct DEF Inv, StartInv, Starters, MonitorInv
  <2>4. RegistryInv'
    BY <2>1, <2>2, Distinct DEF Inv, RegistryInv
  <2>5. MonitorInv'
    BY <2>1, <2>2, Distinct DEF Inv, MonitorInv
  <2>6. DeathInv'
    BY <2>1, <2>2, Distinct DEF Inv, DeathInv
  <2>7. ObeyedInv'
    BY <2>1, <2>2, Distinct DEF Inv, ObeyedInv, MonitorInv
  <2> QED BY <2>3, <2>4, <2>5, <2>6, <2>7 DEF Inv
<1>18. CASE MonitorMeasure
  <2>1. /\ pc'["mon"] = "m_reap" /\ pc["mon"] = "m_measure"
        /\ \A u \in Threads : u # "mon" => pc'[u] = pc[u]
    BY <1>18, GotoPlaces, Distinct DEF MonitorMeasure
  <2>2. /\ UNCHANGED proc
        /\ UNCHANGED <<vmState, rx, poisoned, bridge, callback, registered, owned, obeyed, told,
                       stopped>>
    BY <1>18 DEF MonitorMeasure
  <2>3. StartInv'
    BY <2>1, <2>2, Distinct DEF Inv, StartInv, Starters, MonitorInv
  <2>4. RegistryInv'
    BY <2>1, <2>2, Distinct DEF Inv, RegistryInv
  <2>5. MonitorInv'
    BY <2>1, <2>2, Distinct DEF Inv, MonitorInv
  <2>6. DeathInv'
    BY <2>1, <2>2, Distinct DEF Inv, DeathInv
  <2>7. ObeyedInv'
    BY <2>1, <2>2, Distinct DEF Inv, ObeyedInv, MonitorInv
  <2> QED BY <2>3, <2>4, <2>5, <2>6, <2>7 DEF Inv
<1>19. CASE MonitorReap
  <2>1. /\ pc'["mon"] = "m_dead" /\ pc["mon"] = "m_reap"
        /\ \A u \in Threads : u # "mon" => pc'[u] = pc[u]
    BY <1>19, GotoPlaces, Distinct DEF MonitorReap
  <2>2. /\ proc' = "reaped"
        /\ UNCHANGED <<vmState, rx, poisoned, bridge, callback, registered, owned, obeyed, told,
                       stopped>>
    BY <1>19 DEF MonitorReap
  <2>3. StartInv'
    BY <2>1, <2>2, Distinct DEF Inv, StartInv, Starters, MonitorInv
  <2>4. RegistryInv'
    BY <2>1, <2>2, Distinct DEF Inv, RegistryInv
  <2>5. MonitorInv'
    BY <2>1, <2>2, Distinct DEF Inv, MonitorInv
  <2>6. DeathInv'
    BY <2>1, <2>2, Distinct DEF Inv, DeathInv
  <2>7. ObeyedInv'
    BY <2>1, <2>2, Distinct DEF Inv, ObeyedInv, MonitorInv
  <2> QED BY <2>3, <2>4, <2>5, <2>6, <2>7 DEF Inv
<1>20. CASE MonitorDead
  <2>1. /\ UNCHANGED <<rx, poisoned, bridge, callback, registered, owned, proc, obeyed, told,
                       stopped>>
        /\ pc["mon"] = "m_dead"
    BY <1>20 DEF MonitorDead
  <2>2. CASE poisoned /\ Panic("mon") /\ UNCHANGED vmState
    <3>1. pc'["mon"] = "m_defer" /\ \A u \in Threads : u # "mon" => pc'[u] = pc[u]
      BY <2>1, <2>2, GotoPlaces, Distinct DEF Panic
    <3>2. StartInv'
      BY <2>1, <2>2, <3>1, Distinct DEF Inv, StartInv, Starters
    <3>3. RegistryInv'
      BY <2>1, <2>2, <3>1, Distinct DEF Inv, RegistryInv
    <3>4. MonitorInv'
      BY <2>1, <2>2, <3>1, Distinct DEF Inv, MonitorInv
    <3>5. DeathInv'
      BY <2>1, <2>2, <3>1, Distinct DEF Inv, DeathInv
    <3>6. ObeyedInv'
      BY <2>1, <2>2, <3>1, Distinct DEF Inv, ObeyedInv
    <3> QED BY <3>2, <3>3, <3>4, <3>5, <3>6 DEF Inv
  <2>3. CASE vmState' = "Dead" /\ Goto("mon", "m_died")
    <3>1. pc'["mon"] = "m_died" /\ \A u \in Threads : u # "mon" => pc'[u] = pc[u]
      BY <2>3, GotoPlaces, Distinct
    <3>2. proc = "reaped" /\ vmState # "Dead" /\ told = 0 /\ (registered => owned)
      BY <2>1 DEF Inv, MonitorInv, DeathInv, RegistryInv, TypeOK
    <3>3. StartInv'
      BY <2>1, <2>3, <3>1, <3>2, Distinct DEF Inv, StartInv, Starters
    <3>4. RegistryInv'
      BY <2>1, <2>3, <3>1, <3>2, Distinct DEF Inv, RegistryInv
    <3>5. MonitorInv'
      BY <2>1, <2>3, <3>1, <3>2, Distinct DEF Inv, MonitorInv
    <3>6. DeathInv'
      BY <2>1, <2>3, <3>1, <3>2, Distinct DEF Inv, DeathInv
    <3>7. ObeyedInv'
      BY <2>1, <2>3, <3>1, <3>2, Distinct DEF Inv, ObeyedInv
    <3> QED BY <3>3, <3>4, <3>5, <3>6, <3>7 DEF Inv
  <2> QED BY <1>20, <2>2, <2>3 DEF MonitorDead
<1>21. CASE MonitorDied
  <2>1. /\ pc'["mon"] = "m_metric" /\ pc["mon"] = "m_died"
        /\ \A u \in Threads : u # "mon" => pc'[u] = pc[u]
    BY <1>21, GotoPlaces, Distinct DEF MonitorDied
  <2>2. /\ bridge' = FALSE /\ callback' = FALSE /\ told' = told + 1
        /\ UNCHANGED <<vmState, rx, poisoned, registered, owned, proc, obeyed, stopped>>
    BY <1>21 DEF MonitorDied
  <2>3. told = 0 /\ vmState = "Dead"
    BY <2>1 DEF Inv, MonitorInv, DeathInv, TypeOK
  <2>4. StartInv'
    BY <2>1, <2>2, <2>3, Distinct DEF Inv, StartInv, Starters
  <2>5. RegistryInv'
    BY <2>1, <2>2, <2>3, Distinct DEF Inv, RegistryInv
  <2>6. MonitorInv'
    BY <2>1, <2>2, <2>3, Distinct DEF Inv, MonitorInv
  <2>7. DeathInv'
    BY <2>1, <2>2, <2>3, Distinct DEF Inv, DeathInv
  <2>8. ObeyedInv'
    BY <2>1, <2>2, <2>3, Distinct DEF Inv, ObeyedInv
  <2> QED BY <2>4, <2>5, <2>6, <2>7, <2>8 DEF Inv
<1>22. CASE MonitorMetric
  <2>1. /\ pc'["mon"] = "m_shut" /\ pc["mon"] = "m_metric"
        /\ \A u \in Threads : u # "mon" => pc'[u] = pc[u]
    BY <1>22, GotoPlaces, Distinct DEF MonitorMetric
  <2>2. /\ UNCHANGED proc
        /\ UNCHANGED <<vmState, rx, poisoned, bridge, callback, registered, owned, obeyed, told,
                       stopped>>
    BY <1>22 DEF MonitorMetric
  <2>3. StartInv'
    BY <2>1, <2>2, Distinct DEF Inv, StartInv, Starters, MonitorInv
  <2>4. RegistryInv'
    BY <2>1, <2>2, Distinct DEF Inv, RegistryInv
  <2>5. MonitorInv'
    BY <2>1, <2>2, Distinct DEF Inv, MonitorInv
  <2>6. DeathInv'
    BY <2>1, <2>2, Distinct DEF Inv, DeathInv
  <2>7. ObeyedInv'
    BY <2>1, <2>2, Distinct DEF Inv, ObeyedInv, MonitorInv
  <2> QED BY <2>3, <2>4, <2>5, <2>6, <2>7 DEF Inv
<1>23. CASE MonitorShut
  <2>1. /\ pc'["mon"] = "m_defer" /\ pc["mon"] = "m_shut"
        /\ \A u \in Threads : u # "mon" => pc'[u] = pc[u]
    BY <1>23, GotoPlaces, Distinct DEF MonitorShut
  <2>2. /\ UNCHANGED proc
        /\ UNCHANGED <<vmState, rx, poisoned, bridge, callback, registered, owned, obeyed, told,
                       stopped>>
    BY <1>23 DEF MonitorShut
  <2>3. StartInv'
    BY <2>1, <2>2, Distinct DEF Inv, StartInv, Starters, MonitorInv
  <2>4. RegistryInv'
    BY <2>1, <2>2, Distinct DEF Inv, RegistryInv
  <2>5. MonitorInv'
    BY <2>1, <2>2, Distinct DEF Inv, MonitorInv
  <2>6. DeathInv'
    BY <2>1, <2>2, Distinct DEF Inv, DeathInv
  <2>7. ObeyedInv'
    BY <2>1, <2>2, Distinct DEF Inv, ObeyedInv, MonitorInv
  <2> QED BY <2>3, <2>4, <2>5, <2>6, <2>7 DEF Inv
<1>24. CASE MonitorDefer
  <2>1. /\ pc["mon"] = "m_defer" /\ pc'["mon"] \in {"k_enter", "done", "panicked"}
        /\ \A u \in Threads : u # "mon" => pc'[u] = pc[u]
    <3>1. CASE LastRef("mon", handle \/ owned')
      BY <1>24, <3>1, GotoPlaces, Distinct DEF MonitorDefer
    <3>2. CASE ~LastRef("mon", handle \/ owned')
      BY <1>24, <3>2, GotoPlaces, Distinct DEF MonitorDefer
    <3> QED BY <3>1, <3>2
  <2>2. proc = "reaped" /\ (registered => owned) /\ (owned => registered)
    BY <2>1 DEF Inv, MonitorInv, RegistryInv
  <2>3. /\ registered' = FALSE /\ owned' = FALSE
        /\ UNCHANGED <<vmState, rx, poisoned, bridge, callback, proc, obeyed, told, stopped>>
    BY <1>24, <2>2 DEF MonitorDefer, TypeOK
  <2>4. StartInv'
    BY <2>1, <2>2, <2>3, Distinct DEF Inv, StartInv, Starters
  <2>5. RegistryInv'
    BY <2>1, <2>2, <2>3, Distinct DEF Inv, RegistryInv
  <2>6. MonitorInv'
    BY <2>1, <2>2, <2>3, Distinct DEF Inv, MonitorInv
  <2>7. DeathInv'
    BY <2>1, <2>2, <2>3, Distinct DEF Inv, DeathInv
  <2>8. ObeyedInv'
    BY <2>1, <2>2, <2>3, Distinct DEF Inv, ObeyedInv
  <2> QED BY <2>4, <2>5, <2>6, <2>7, <2>8 DEF Inv
<1>25. CASE HangupStarted
  <2>1. /\ pc["hang"] = "h_wait" /\ pc'["hang"] # "off"
        /\ \A u \in Threads : u # "hang" => pc'[u] = pc[u]
    BY <1>25, GotoPlaces, Distinct DEF HangupStarted
  <2>2. UNCHANGED <<vmState, rx, poisoned, bridge, callback, registered, owned, obeyed, told,
                    stopped>>
    BY <1>25 DEF HangupStarted
  <2>3. /\ proc # "none" /\ proc' # "none" /\ (proc' = "running" => proc = "running")
        /\ (proc = "reaped" => proc' = "reaped")
    BY <1>25, <2>1 DEF HangupStarted, Inv, MonitorInv
  <2>4. StartInv'
    BY <2>1, <2>2, <2>3, Distinct DEF Inv, StartInv, Starters
  <2>5. RegistryInv'
    BY <2>1, <2>2, <2>3, Distinct DEF Inv, RegistryInv
  <2>6. MonitorInv'
    BY <2>1, <2>2, <2>3, Distinct DEF Inv, MonitorInv
  <2>7. DeathInv'
    BY <2>1, <2>2, <2>3, Distinct DEF Inv, DeathInv
  <2>8. ObeyedInv'
    BY <2>1, <2>2, <2>3, Distinct DEF Inv, ObeyedInv
  <2> QED BY <2>4, <2>5, <2>6, <2>7, <2>8 DEF Inv
<1>26. CASE HangupTimedOut
  <2>1. QuietThreads
    BY <1>26, QuietGoto, Distinct DEF HangupTimedOut, Labels, Starters
  <2>2. QuietData
    BY <1>26 DEF HangupTimedOut, QuietData
  <2> QED BY <2>1, <2>2, QuietStep
<1>27. CASE HangupTry
  <2>1. /\ pc["hang"] = "h_try" /\ pc'["hang"] # "off"
        /\ \A u \in Threads : u # "hang" => pc'[u] = pc[u]
    BY <1>27, GotoPlaces, Distinct DEF HangupTry
  <2>2. UNCHANGED <<vmState, rx, poisoned, bridge, callback, registered, owned, obeyed, told,
                    stopped>>
    BY <1>27 DEF HangupTry
  <2>3. /\ proc # "none" /\ proc' # "none" /\ (proc' = "running" => proc = "running")
        /\ (proc = "reaped" => proc' = "reaped")
    BY <1>27, <2>1 DEF HangupTry, Inv, MonitorInv
  <2>4. StartInv'
    BY <2>1, <2>2, <2>3, Distinct DEF Inv, StartInv, Starters
  <2>5. RegistryInv'
    BY <2>1, <2>2, <2>3, Distinct DEF Inv, RegistryInv
  <2>6. MonitorInv'
    BY <2>1, <2>2, <2>3, Distinct DEF Inv, MonitorInv
  <2>7. DeathInv'
    BY <2>1, <2>2, <2>3, Distinct DEF Inv, DeathInv
  <2>8. ObeyedInv'
    BY <2>1, <2>2, <2>3, Distinct DEF Inv, ObeyedInv
  <2> QED BY <2>4, <2>5, <2>6, <2>7, <2>8 DEF Inv
<1>28. CASE HangupUpdate
  <2>1. QuietThreads
    BY <1>28, QuietGoto, Distinct DEF HangupUpdate, Labels, Starters
  <2>2. QuietData
    BY <1>28 DEF HangupUpdate, QuietData
  <2> QED BY <2>1, <2>2, QuietStep
<1>29. CASE ServerJoined
  <2>1. QuietThreads
    BY <1>29, QuietGoto, Distinct DEF ServerJoined, Labels, Starters
  <2>2. QuietData
    BY <1>29 DEF ServerJoined, QuietData
  <2> QED BY <2>1, <2>2, QuietStep
<1>30. CASE GuestExits
  <2>1. /\ proc = "running" /\ proc' = "zombie"
        /\ UNCHANGED <<vmState, rx, poisoned, bridge, callback, registered, owned, pc, obeyed, told,
                       stopped>>
    BY <1>30 DEF GuestExits
  <2>2. StartInv'
    BY <2>1 DEF Inv, StartInv, Starters
  <2>3. RegistryInv'
    BY <2>1 DEF Inv, RegistryInv
  <2>4. MonitorInv'
    BY <2>1 DEF Inv, MonitorInv
  <2>5. DeathInv'
    BY <2>1 DEF Inv, DeathInv
  <2>6. ObeyedInv'
    BY <2>1 DEF Inv, ObeyedInv, MonitorInv
  <2> QED BY <2>2, <2>3, <2>4, <2>5, <2>6 DEF Inv
<1>31. ASSUME NEW g \in Guests, NotifyStarted(g) PROVE Inv'
  <2>1. QuietThreads
    BY <1>31, QuietGoto, Distinct DEF NotifyStarted, Labels, Starters
  <2>2. QuietData
    BY <1>31 DEF NotifyStarted, QuietData
  <2> QED BY <2>1, <2>2, QuietStep
<1>32. ASSUME NEW g \in Guests, StartedUpdate(g) PROVE Inv'
  <2>1. QuietThreads
    BY <1>32, QuietGoto, Distinct DEF StartedUpdate, Labels, Starters
  <2>2. QuietData
    BY <1>32 DEF StartedUpdate, QuietData
  <2> QED BY <2>1, <2>2, QuietStep
<1>33. ASSUME NEW g \in Guests, StartedMetric(g) PROVE Inv'
  <2>1. QuietThreads
    BY <1>33, QuietGoto, Distinct DEF StartedMetric, Labels, Starters
  <2>2. QuietData
    BY <1>33 DEF StartedMetric, QuietData
  <2> QED BY <2>1, <2>2, QuietStep
<1>34. ASSUME NEW g \in Guests, NotifyReady(g) PROVE Inv'
  <2>1. QuietThreads /\ QuietData
    BY <1>34 DEF NotifyReady, QuietThreads, QuietData
  <2> QED BY <2>1, QuietStep
<1>35. ASSUME NEW g \in Guests, RegisterAgent(g) PROVE Inv'
  <2>1. QuietThreads /\ QuietData
    BY <1>35 DEF RegisterAgent, QuietThreads, QuietData
  <2> QED BY <2>1, QuietStep
<1>36. ASSUME NEW g \in Guests, NotifyFinished(g) PROVE Inv'
  <2>1. QuietThreads
    BY <1>36, QuietGoto, Distinct DEF NotifyFinished, Labels, Starters
  <2>2. QuietData
    BY <1>36 DEF NotifyFinished, QuietData
  <2> QED BY <2>1, <2>2, QuietStep
<1>37. ASSUME NEW g \in Guests, FinishedState(g) PROVE Inv'
  <2>1. QuietData
    BY <1>37 DEF FinishedState, QuietData
  <2>2. CASE Panic(g)
    <3>1. Moves(g, {"panicked"})
      BY <1>37, <2>2, PanicMoves, Distinct DEF FinishedState
    <3>2. QuietThreads
      BY <3>1, QuietMove, Distinct DEF Labels, Starters
    <3> QED BY <2>1, <3>2, QuietStep
  <2>3. CASE Goto(g, IF vmState = "Running" THEN "f_measure" ELSE "f_update")
    <3>1. QuietThreads
      BY <2>3, QuietGoto, Distinct DEF Labels, Starters
    <3> QED BY <2>1, <3>1, QuietStep
  <2> QED BY <1>37, <2>2, <2>3 DEF FinishedState
<1>38. ASSUME NEW g \in Guests, FinishedMeasure(g) PROVE Inv'
  <2>1. QuietThreads
    BY <1>38, QuietGoto, Distinct DEF FinishedMeasure, Labels, Starters
  <2>2. QuietData
    BY <1>38 DEF FinishedMeasure, QuietData
  <2> QED BY <2>1, <2>2, QuietStep
<1>39. ASSUME NEW g \in Guests, FinishedUpdate(g) PROVE Inv'
  <2>1. QuietThreads
    BY <1>39, QuietGoto, Distinct DEF FinishedUpdate, Labels, Starters
  <2>2. QuietData
    BY <1>39 DEF FinishedUpdate, QuietData
  <2> QED BY <2>1, <2>2, QuietStep
<1>40. CASE UNCHANGED vars
  BY <1>40, QuietStep DEF vars, QuietThreads, QuietData
<1> QED
  BY <1>1, <1>2, <1>3, <1>4, <1>5, <1>6, <1>7, <1>8, <1>9, <1>10, <1>11, <1>12, <1>13, <1>14,
     <1>15, <1>16, <1>17, <1>18, <1>19, <1>20, <1>21, <1>22, <1>23, <1>24, <1>25, <1>26, <1>27,
     <1>28, <1>29, <1>30, <1>31, <1>32, <1>33, <1>34, <1>35, <1>36, <1>37, <1>38, <1>39, <1>40
  DEF Next, Call, Start, Kill, Report, Notify, Monitor, HangupMonitor, Killers
-----------------------------------------------------------------------------
(* What virtmgr promises *)

\* The inductive invariant holds of every behaviour of virtmgr with one VM.
LEMMA Invariance == Spec => []IInv
<1>1. Init => IInv
  <2> SUFFICES ASSUME Init PROVE IInv
    OBVIOUS
  <2>1. InstanceType
    <3>1. payload \in Starting .. Hangup
      BY DEF Init, Starting, Hangup
    <3> QED BY <3>1, Zenon DEF Init, InstanceType
  <2>2. RegistryType
    BY Zenon DEF Init, RegistryType
  <2>3. ProcessType
    BY ZenonT(60) DEF Init, ProcessType, Labels
  <2>4. TypeOK
    BY <2>1, <2>2, <2>3, TypeParts
  <2>5. Inv
    BY Distinct DEF Init, Inv, StartInv, RegistryInv, MonitorInv, DeathInv, ObeyedInv, Starters,
       Threads
  <2> QED BY <2>4, <2>5 DEF Inv, IInv
<1>2. IInv /\ [Next]_vars => IInv'
  BY TypeStep, InvStep DEF IInv, Inv
<1> QED BY <1>1, <1>2, PTL DEF Spec

\* Whatever the threads of virtmgr do in whatever order: nothing that refers to the instance
\* outlives the death the clients were told of, the exit monitor never waits for itself, a
\* running guest is owned and watched, and as long as SIGKILL is obeyed a stop that answered
\* with success has seen the exit of crosvm.
THEOREM DeathStaysFinal == Spec => []DeathIsFinal
<1>1. IInv => DeathIsFinal
  BY DEF IInv, DeathIsFinal, NothingOutlivesDeath, MonitorNeverWaits, GuestIsOwned,
         StopMeansExited, RegistryInv, MonitorInv, DeathInv, ObeyedInv
<1> QED BY <1>1, Invariance, PTL

\* What the promise speaks of, left alone, is a stutter of the promise.
LEMMA PromiseStutters ==
  ASSUME UNCHANGED <<proc, owned, told, stopped>>
  PROVE  UNCHANGED Promise!vars
BY DEF Promise!vars

\* As long as SIGKILL is not refused, a step of any thread is a step of the promise or leaves
\* it alone.
LEMMA PromiseStep ==
  ASSUME IInv, obeyed, [Next]_vars
  PROVE  [Promise!Next]_(Promise!vars)
<1> USE DEF instance, registry, history
<1> USE DEF Promise!vars, Promise!Next, Promise!Own, Promise!Launch, Promise!End, Promise!Tell,
Promise!Release, Promise!Stop
<1>1. ASSUME NEW c \in Clients, StartVm(c) PROVE [Promise!Next]_(Promise!vars)
  <2>1. proc = "none"
    BY <1>1 DEF StartVm, IInv, RegistryInv, MonitorInv
  <2> QED BY <1>1, <2>1, Zenon DEF StartVm
<1>2. ASSUME NEW c \in Clients, StartMetric(c) PROVE [Promise!Next]_(Promise!vars)
  BY <1>2, PromiseStutters DEF StartMetric
<1>3. ASSUME NEW c \in Clients, StartState(c) PROVE [Promise!Next]_(Promise!vars)
  <2>1. owned /\ proc = "none"
    BY <1>3 DEF StartState, IInv, StartInv, Starters
  <2>2. UNCHANGED <<owned, told, stopped>> /\ proc' \in {"none", "running"}
    BY <1>3, <2>1 DEF StartState
  <2> QED BY <2>1, <2>2
<1>4. ASSUME NEW c \in Clients, StartUndo(c) PROVE [Promise!Next]_(Promise!vars)
  <2>1. owned /\ registered /\ proc = "none"
    BY <1>4 DEF StartUndo, IInv, StartInv, Starters
  <2>2. owned' = FALSE /\ UNCHANGED <<proc, told, stopped>>
    BY <1>4, <2>1, Zenon DEF StartUndo
  <2> QED BY <2>1, <2>2, Zenon
<1>5. ASSUME NEW c \in Clients, StopVm(c) PROVE [Promise!Next]_(Promise!vars)
  BY <1>5, PromiseStutters DEF StopVm
<1>6. ASSUME NEW c \in Clients, StartBridge(c) PROVE [Promise!Next]_(Promise!vars)
  BY <1>6, PromiseStutters DEF StartBridge
<1>7. ASSUME NEW c \in Clients, RegisterCallback(c) PROVE [Promise!Next]_(Promise!vars)
  BY <1>7, PromiseStutters DEF RegisterCallback
<1>8. ASSUME NEW c \in Clients, DropHandle(c) PROVE [Promise!Next]_(Promise!vars)
  BY <1>8, PromiseStutters DEF DropHandle
<1>9. ASSUME NEW c \in Clients, CallPanics(c) PROVE [Promise!Next]_(Promise!vars)
  BY <1>9, PromiseStutters DEF CallPanics
<1>10. ASSUME NEW t \in Killers, KillEnter(t) PROVE [Promise!Next]_(Promise!vars)
  BY <1>10, PromiseStutters DEF KillEnter
<1>11. ASSUME NEW t \in Killers, KillMeasure(t) PROVE [Promise!Next]_(Promise!vars)
  BY <1>11, PromiseStutters DEF KillMeasure
<1>12. ASSUME NEW t \in Killers, KillAsk(t) PROVE [Promise!Next]_(Promise!vars)
  <2>1. UNCHANGED proc \/ SigKill
    BY <1>12 DEF KillAsk, KillRefused
  <2>2. UNCHANGED <<owned, told, stopped>>
    BY <1>12 DEF KillAsk
  <2> QED BY <2>1, <2>2 DEF SigKill
<1>13. ASSUME NEW t \in Killers, KillAwaited(t) PROVE [Promise!Next]_(Promise!vars)
  BY <1>13, PromiseStutters DEF KillAwaited
<1>14. ASSUME NEW t \in Killers, KillTimedOut(t) PROVE [Promise!Next]_(Promise!vars)
  <2>1. UNCHANGED proc \/ SigKill
    BY <1>14 DEF KillTimedOut, KillRefused
  <2>2. UNCHANGED <<owned, told, stopped>>
    BY <1>14 DEF KillTimedOut
  <2> QED BY <2>1, <2>2 DEF SigKill
<1>15. ASSUME NEW t \in Killers, KillJoin(t) PROVE [Promise!Next]_(Promise!vars)
  <2>1. proc = "reaped"
    BY <1>15 DEF KillJoin, IInv, MonitorInv
  <2>2. UNCHANGED <<proc, owned, told>> /\ (stopped' = TRUE \/ UNCHANGED stopped)
    BY <1>15 DEF KillJoin
  <2> QED BY <2>1, <2>2
<1>16. ASSUME NEW t \in Killers, KillSend(t) PROVE [Promise!Next]_(Promise!vars)
  <2>1. proc = "reaped"
    BY <1>16 DEF KillSend, IInv, ObeyedInv
  <2>2. UNCHANGED <<proc, owned, told>> /\ stopped' = TRUE
    BY <1>16 DEF KillSend
  <2> QED BY <2>1, <2>2
<1>17. CASE MonitorWait
  BY <1>17, PromiseStutters DEF MonitorWait
<1>18. CASE MonitorMeasure
  BY <1>18, PromiseStutters DEF MonitorMeasure
<1>19. CASE MonitorReap
  <2>1. proc \in {"zombie", "reaped"}
    BY <1>19 DEF MonitorReap, IInv, TypeOK, MonitorInv
  <2>2. proc' = "reaped" /\ UNCHANGED <<owned, told, stopped>>
    BY <1>19 DEF MonitorReap
  <2> QED BY <2>1, <2>2
<1>20. CASE MonitorDead
  BY <1>20, PromiseStutters DEF MonitorDead
<1>21. CASE MonitorDied
  <2>1. proc = "reaped" /\ told = 0
    BY <1>21 DEF MonitorDied, IInv, TypeOK, MonitorInv, DeathInv
  <2>2. told' = told + 1 /\ UNCHANGED <<proc, owned, stopped>>
    BY <1>21 DEF MonitorDied
  <2> QED BY <2>1, <2>2
<1>22. CASE MonitorMetric
  BY <1>22, PromiseStutters DEF MonitorMetric
<1>23. CASE MonitorShut
  BY <1>23, PromiseStutters DEF MonitorShut
<1>24. CASE MonitorDefer
  <2>1. proc = "reaped" /\ (owned => registered)
    BY <1>24 DEF MonitorDefer, IInv, MonitorInv, RegistryInv
  <2>2. owned' = FALSE /\ UNCHANGED <<proc, told, stopped>>
    BY <1>24, <2>1, Zenon DEF MonitorDefer
  <2>3. CASE owned
    BY <2>1, <2>2, <2>3, Zenon
  <2>4. CASE ~owned
    BY <2>2, <2>4, Zenon DEF IInv, TypeOK
  <2> QED BY <2>3, <2>4, ZenonT(60)
<1>25. CASE HangupStarted
  <2>1. proc \in {"running", "zombie", "reaped"}
    BY <1>25 DEF HangupStarted, IInv, TypeOK, MonitorInv
  <2>2. UNCHANGED <<owned, told, stopped>> /\ proc' = IF proc = "running" THEN proc ELSE "reaped"
    BY <1>25 DEF HangupStarted
  <2> QED BY <2>1, <2>2
<1>26. CASE HangupTimedOut
  BY <1>26, PromiseStutters DEF HangupTimedOut
<1>27. CASE HangupTry
  <2>1. proc \in {"running", "zombie", "reaped"}
    BY <1>27 DEF HangupTry, IInv, TypeOK, MonitorInv
  <2>2. UNCHANGED <<owned, told, stopped>> /\ proc' = IF proc = "running" THEN proc ELSE "reaped"
    BY <1>27 DEF HangupTry
  <2> QED BY <2>1, <2>2
<1>28. CASE HangupUpdate
  BY <1>28, PromiseStutters DEF HangupUpdate
<1>29. CASE ServerJoined
  BY <1>29, PromiseStutters DEF ServerJoined
<1>30. CASE GuestExits
  BY <1>30 DEF GuestExits
<1>31. ASSUME NEW g \in Guests, NotifyStarted(g) PROVE [Promise!Next]_(Promise!vars)
  BY <1>31, PromiseStutters DEF NotifyStarted
<1>32. ASSUME NEW g \in Guests, StartedUpdate(g) PROVE [Promise!Next]_(Promise!vars)
  BY <1>32, PromiseStutters DEF StartedUpdate
<1>33. ASSUME NEW g \in Guests, StartedMetric(g) PROVE [Promise!Next]_(Promise!vars)
  BY <1>33, PromiseStutters DEF StartedMetric
<1>34. ASSUME NEW g \in Guests, NotifyReady(g) PROVE [Promise!Next]_(Promise!vars)
  BY <1>34, PromiseStutters DEF NotifyReady
<1>35. ASSUME NEW g \in Guests, RegisterAgent(g) PROVE [Promise!Next]_(Promise!vars)
  BY <1>35, PromiseStutters DEF RegisterAgent
<1>36. ASSUME NEW g \in Guests, NotifyFinished(g) PROVE [Promise!Next]_(Promise!vars)
  BY <1>36, PromiseStutters DEF NotifyFinished
<1>37. ASSUME NEW g \in Guests, FinishedState(g) PROVE [Promise!Next]_(Promise!vars)
  BY <1>37, PromiseStutters DEF FinishedState
<1>38. ASSUME NEW g \in Guests, FinishedMeasure(g) PROVE [Promise!Next]_(Promise!vars)
  BY <1>38, PromiseStutters DEF FinishedMeasure
<1>39. ASSUME NEW g \in Guests, FinishedUpdate(g) PROVE [Promise!Next]_(Promise!vars)
  BY <1>39, PromiseStutters DEF FinishedUpdate
<1>40. CASE UNCHANGED vars
  BY <1>40, PromiseStutters DEF vars
<1> QED
  BY <1>1, <1>2, <1>3, <1>4, <1>5, <1>6, <1>7, <1>8, <1>9, <1>10, <1>11, <1>12, <1>13, <1>14,
     <1>15, <1>16, <1>17, <1>18, <1>19, <1>20, <1>21, <1>22, <1>23, <1>24, <1>25, <1>26, <1>27,
     <1>28, <1>29, <1>30, <1>31, <1>32, <1>33, <1>34, <1>35, <1>36, <1>37, <1>38, <1>39, <1>40,
     ZenonT(60)
  DEF Next, Call, Start, Kill, Report, Notify, Monitor, HangupMonitor, Killers

\* As long as SIGKILL is obeyed, every step of virtmgr's threads is a step of the promise or
\* none at all: one launch under an owner, the owner gone only with the guest, the clients told
\* once and after the end, no success of a stop before the end.
THEOREM PromiseKept == Spec => ObeyedKeepsPromise
<1>1. Init => Promise!Init
  BY DEF Init, Promise!Init
<1>2. IInv /\ [Next]_vars => [obeyed => [Promise!Next]_(Promise!vars)]_vars
  BY PromiseStep
<1> QED BY <1>1, <1>2, Invariance, PTL DEF Spec, ObeyedKeepsPromise
=============================================================================
