-------------------------- MODULE SupervisorProofs --------------------------
(***************************************************************************)
(* The safety properties of Supervisor for any bound on the request ids,   *)
(* and the proof that it implements Lifetime.  The inductive invariant     *)
(* says for every place of the controller who called it (Callers), what it *)
(* has published (Published), what it knows of the messages (Messages) and *)
(* what it has proven about the session (Evidence).                        *)
(***************************************************************************)
EXTENDS Supervisor, TLAPS

\* The steps of cleanup_services, and the places of supervise that lie behind
\* the answer BYE.
Cleaning == pc \in {"cleanup", "csopen", "csterm", "cssignal", "cswait", "csfinish"}
AfterBye == pc \in {"waitguest", "guestexit", "snapshot"} \/ (ctx = "run" /\ Cleaning)
AfterExit == pc = "snapshot" \/ (ctx = "run" /\ Cleaning)

\* What the argument needs to know of the values.
Types ==
    /\ launcher \in {"none", "live", "ok", "failed"}
    /\ proc \in [Members -> {"none", "live"} \cup Exited]
    /\ fd \in {"none", "service", "stranger", "strangerGone"}
    /\ ctx \in {"run", "fail", "retain"}
    /\ kind \in {"none", "INFO", "REQ", "STOP"}
    /\ lastRequest \in Nat /\ stops \in Nat

\* Who called the method the controller is in.
Callers ==
    /\ pc \in {"start", "ready", "running", "loop", "stopping", "waitguest", "guestexit",
               "snapshot", "except"} => ctx = "run"
    /\ pc \in {"nap", "command", "leave"} => ctx = "retain"
    /\ pc = "report" => ctx = "fail"
    /\ pc = "finalize" => ctx # "run"
    /\ pc = "returned" => ctx # "retain"
    /\ pc \in {"rq", "await"} =>
           ctx # "fail" /\ kind # "none" /\ (ctx = "retain" => kind = "STOP")

\* What the attempt has published at each place.
Published ==
    /\ ctx # "run" => state = "UNKNOWN"
    /\ pc \in {"start", "ready", "running"} => state = "STARTING"
    /\ pc \in {"loop", "stopping"} => state = "RUNNING"
    /\ pc \in {"rq", "await"} /\ ctx = "run" =>
           /\ kind = "INFO" => state = "STARTING"
           /\ kind = "REQ" => state = "RUNNING"
           /\ kind = "STOP" => state = "STOPPING"
    /\ AfterBye => state = "STOPPING"
    /\ pc = "returned" => state \in {"STOPPED", "UNKNOWN"}
    /\ state = "STOPPED" => pc \in {"returned", "except", "exit"}

\* An owner that has started has a launcher.
Launched ==
    /\ started => launcher # "none"
    /\ pc = "start" => launcher = "none"
    /\ ctx = "run" /\ pc \notin {"start", "except", "exit"} => started

\* An unread reply is remembered, and STOP goes with sentStop.
Messages ==
    /\ unanswered => transportUnknown
    /\ pc \in {"running", "loop", "stopping"} \/ AfterBye => ~transportUnknown
    /\ stops <= 1
    /\ ~sentStop => stops = 0
    /\ pc = "rq" /\ kind = "STOP" => sentStop /\ stops = 0
    /\ pc = "await" /\ kind = "STOP" => sentStop /\ stops = 1
    /\ AfterBye => bye /\ stops = 1
    /\ kind = "REQ" => lastRequest > 0

\* What cleanup_services has seen before it signals and before the snapshot.  A
\* stranger is pinned only when the service is gone for good, so that the second
\* look at the identity fails.
Evidence ==
    /\ fd \in {"stranger", "strangerGone"} => proc["virtmgr"] = "reused"
    /\ Cleaning \/ (ctx = "run" /\ pc \notin {"snapshot", "except", "returned", "exit"}) =>
           ~ownerTerminal
    /\ pc = "csterm" => fd # "none"
    /\ pc = "cssignal" => fd = "service" /\ ~termed
    /\ pc \in {"csopen", "csterm", "cssignal"} \/ AfterExit =>
           proc["crosvm"] \in {"gone", "reused"}
    /\ AfterExit => clean
    /\ pc = "snapshot" => launcher = "ok" /\ ownerTerminal

\* The inductive invariant.
IInv ==
    /\ Types /\ Callers /\ Published /\ Launched /\ Messages /\ Evidence
    /\ TerminalOwnsNothing /\ StoppedIsProven /\ TaskResultIsAnswered

\* It holds before owner.start.
LEMMA Initially == Init => IInv
  BY DEF Init, IInv, Types, Callers, Published, Launched, Messages, Evidence,
     TerminalOwnsNothing, StoppedIsProven, TaskResultIsAnswered, AfterBye, AfterExit, Cleaning,
     SessionEmpty, Blocked, Members, Exited

\* Processes and payload do not disturb it.
LEMMA SessionKeeps == IInv /\ Session => IInv'
<1> SUFFICES ASSUME IInv, Session PROVE IInv'
  OBVIOUS
<1> USE DEF IInv, Types, Callers, Published, Launched, Messages, Evidence,
        TerminalOwnsNothing, StoppedIsProven, TaskResultIsAnswered, AfterBye, AfterExit, Cleaning,
        SessionEmpty, Blocked, Members, Exited, session, handles, owner, result, input, history
<1>0. UNCHANGED <<owner, result, input, history, pc, ctx, kind>>
  BY DEF Session
<1>1. ASSUME NEW p \in Members, Spawn(p) PROVE IInv'
  BY <1>0, <1>1, SMTT(30) DEF Spawn
<1>2. ASSUME NEW p \in Members, Exit(p) PROVE IInv'
  <2>1. /\ proc[p] = "live" /\ proc' = [proc EXCEPT ![p] = "zombie"]
        /\ UNCHANGED <<launcher, ready, wire, stopServed>>
    BY <1>2, Zenon DEF Exit
  <2>2. p # "crosvm" => clean' = clean
    BY <1>2, Zenon DEF Exit
  <2> QED BY <1>0, <2>1, <2>2, SMTT(30)
<1>3. ASSUME NEW p \in Members, Reap(p) PROVE IInv'
  BY <1>0, <1>3, SMTT(30) DEF Reap
<1>4. CASE LauncherEnds
  BY <1>0, <1>4, SMTT(30) DEF LauncherEnds
<1>5. CASE PayloadReady
  BY <1>0, <1>5, SMTT(30) DEF PayloadReady
<1>6. CASE PayloadServes
  BY <1>0, <1>6, SMTT(30) DEF PayloadServes
<1> QED BY <1>1, <1>2, <1>3, <1>4, <1>5, <1>6, Zenon DEF Session

\* Neither do supervise, the owner, the retention loop, an interrupt and the clock.
LEMMA Step == IInv /\ [Next]_vars => IInv'
<1> SUFFICES ASSUME IInv, [Next]_vars PROVE IInv'
  OBVIOUS
<1> USE DEF IInv, Types, Callers, Published, Launched, Messages, Evidence,
        TerminalOwnsNothing, StoppedIsProven, TaskResultIsAnswered, AfterBye, AfterExit, Cleaning,
        SessionEmpty, Blocked, Members, Exited, session, handles, owner, result, input, history
<1>1. CASE StartOwner
  BY <1>1, SMTT(30) DEF StartOwner
<1>2. CASE ReadyPoll
  BY <1>2, SMTT(30) DEF ReadyPoll, Observed
<1>3. CASE Running
  BY <1>3, SMTT(30) DEF Running
<1>4. CASE LoopRaises
  BY <1>4, SMTT(30) DEF LoopRaises, Observed
<1>5. CASE LoopDeadline
  BY <1>5, SMTT(30) DEF LoopDeadline, Observed
<1>6. CASE Stopping
  BY <1>6, SMTT(30) DEF Stopping
<1>7. CASE RequestRefused
  <2>1. transportUnknown => transportUnknown'
    BY <1>7, Zenon DEF RequestRefused
  <2>2. /\ pc = "rq" /\ pc' = Raised
        /\ UNCHANGED <<session, started, sentStop, handles, result, input, history, ctx, kind>>
    BY <1>7, Zenon DEF RequestRefused
  <2> QED BY <2>1, <2>2, SMTT(30) DEF Raised
<1>8. CASE Send
  BY <1>8, SMTT(30) DEF Send, Observed
<1>9. CASE LocalReply
  BY <1>9, SMTT(30) DEF LocalReply
<1>10. CASE ReceiveFails
  BY <1>10, SMTT(30) DEF ReceiveFails, Raised
<1>11. CASE ReceiveInfo
  BY <1>11, SMTT(30) DEF ReceiveInfo, Receive
<1>12. CASE ReceiveResponse
  BY <1>12, SMTT(30) DEF ReceiveResponse, Receive
<1>13. CASE ReceiveBye
  BY <1>13, SMTT(30) DEF ReceiveBye, Receive
<1>14. CASE WaitGuest
  BY <1>14, SMTT(30) DEF WaitGuest, Observed
<1>15. CASE GuestExit
  BY <1>15, SMTT(30) DEF GuestExit, Observed, GuestDone
<1>16. CASE Snapshot
  BY <1>16, SMTT(30) DEF Snapshot
<1>17. CASE Except
  BY <1>17, SMTT(30) DEF Except
<1>18. CASE Report
  BY <1>18, SMTT(30) DEF Report
<1>19. CASE CleanupBegin
  BY <1>19, SMTT(30) DEF CleanupBegin, Observed, GuestDone, Raised
<1>20. CASE CleanupTerm
  BY <1>20, SMTT(30) DEF CleanupTerm, Readable, Raised
<1>21. CASE CleanupWait
  BY <1>21, SMTT(30) DEF CleanupWait, Close, CloseFails, Closable, Raised
<1>22. CASE CleanupFinish
  BY <1>22, SMTT(30) DEF CleanupFinish, Close, CloseFails, Closable, Raised, AfterCleanup
<1>23. CASE FinalizeEmpty
  BY <1>23, SMTT(30) DEF FinalizeEmpty, Close, CloseFails, Closable, Raised, AfterTrue, AfterFalse
<1>24. CASE FinalizeOther
  BY <1>24, SMTT(30) DEF FinalizeOther, Observed, Raised, AfterTrue, AfterFalse
<1>25. CASE FinalizeRaises
  BY <1>25, SMTT(30) DEF FinalizeRaises, Raised
<1>26. CASE Return
  BY <1>26, SMTT(30) DEF Return
<1>27. CASE RetainCommand
  <2>1. \/ /\ ~sentStop /\ ~transportUnknown
           /\ sentStop' = TRUE /\ kind' = "STOP" /\ pc' = "rq"
        \/ pc' = "finalize" /\ UNCHANGED <<sentStop, kind>>
    BY <1>27, Zenon DEF RetainCommand
  <2>2. /\ pc = "command"
        /\ UNCHANGED <<session, started, owned, transportUnknown, handles, result,
                       history, ctx>>
    BY <1>27, Zenon DEF RetainCommand
  <2> QED BY <2>1, <2>2, SMTT(30)
<1>28. CASE Nap
  BY <1>28, SMTT(30) DEF Nap
<1>29. CASE Leave
  BY <1>29, SMTT(30) DEF Leave
<1>30. CASE LoopStop
  BY <1>30, SMTT(30) DEF LoopStop, Observed
<1>31. CASE LoopNotes
  BY <1>31, SMTT(30) DEF LoopNotes, Observed
<1>32. CASE InputFails
  BY <1>32, SMTT(30) DEF InputFails, Observed
<1>33. CASE Interrupt
  BY <1>33, SMTT(30) DEF Interrupt, Raised
<1>34. CASE DeadlinePasses
  BY <1>34, SMTT(30) DEF DeadlinePasses
<1>35. ASSUME NEW n \in 1 .. MaxRequest, LoopRequest(n) PROVE IInv'
  BY <1>35, MaxRequestAssumption, SMTT(30) DEF LoopRequest, Observed
<1>36. CASE Session
  BY <1>36, SessionKeeps
<1>37. CASE UNCHANGED vars
  BY <1>37 DEF vars
<1>38. CASE CleanupOpen
  BY <1>38, SMTT(30) DEF CleanupOpen, Raised
<1>39. CASE CleanupSignal
  <2>1. /\ pc = "cssignal" /\ pc' \in {"cswait", Raised}
        /\ UNCHANGED <<session, started, owned, sentStop, transportUnknown, fd, closeUnknown,
                       logClosed, ownerTerminal, result, input, history, ctx, kind>>
    BY <1>39, Zenon DEF CleanupSignal
  <2>2. ~ownerTerminal /\ state # "STOPPED"
    BY <2>1
  <2> QED BY <2>1, <2>2, SMTT(30) DEF Raised
<1>40. CASE StrangerExits
  BY <1>40, SMTT(30) DEF StrangerExits
<1> QED
  BY <1>1, <1>2, <1>3, <1>4, <1>5, <1>6, <1>7, <1>8, <1>9, <1>10, <1>11, <1>12, <1>13,
     <1>14, <1>15, <1>16, <1>17, <1>18, <1>19, <1>20, <1>21, <1>22, <1>23, <1>24, <1>25,
     <1>26, <1>27, <1>28, <1>29, <1>30, <1>31, <1>32, <1>33, <1>34, <1>35, <1>36, <1>37,
     <1>38, <1>39, <1>40, ZenonT(60)
     DEF Next, Controller, Operator

\* So it holds for ever.
LEMMA Invariance == Spec => []IInv
  BY Initially, Step, PTL DEF Spec

\* STOPPED is the end of a proven sequence: whatever the session, the operator
\* and failing calls do, it is published only after one answered STOP, a clean
\* exit of the Guest, an empty session and closed handles.
THEOREM StoppedStaysProven == Spec => []StoppedIsProven
<1>1. IInv => StoppedIsProven
  BY DEF IInv
<1> QED BY <1>1, Invariance, PTL

\* A terminal owner has an empty session and nothing open or in doubt.
THEOREM TerminalStaysEmpty == Spec => []TerminalOwnsNothing
<1>1. IInv => TerminalOwnsNothing
  BY DEF IInv
<1> QED BY <1>1, Invariance, PTL

\* STOP is sent at most once, by supervise or by the retention loop.
THEOREM StopIsSentOnce == Spec => []StopSentOnce
<1>1. IInv => StopSentOnce
  BY DEF IInv, Messages, StopSentOnce
<1> QED BY <1>1, Invariance, PTL

\* A task result belongs to the last request, and that one was answered.
THEOREM TaskIsAnswered == Spec => []TaskResultIsAnswered
<1>1. IInv => TaskResultIsAnswered
  BY DEF IInv
<1> QED BY <1>1, Invariance, PTL

-----------------------------------------------------------------------------
Quiet == unanswered => sent' = sent

\* Nothing is sent after a message whose reply was not read.
THEOREM NothingAfterUnanswered == Spec => SilentAfterUnanswered
<1>1. IInv /\ [Next]_vars => [Quiet]_vars
  <2> SUFFICES ASSUME IInv, Next PROVE Quiet
    OBVIOUS
  <2>1. CASE Send
    BY <2>1 DEF Send, IInv, Messages, Quiet
  <2>2. sent' = sent \/ Send
    BY Zenon DEF Next, Controller, Operator, Session, DeadlinePasses, Interrupt, StartOwner,
       ReadyPoll, Running, LoopRaises, LoopDeadline, Stopping, RequestRefused,
        LocalReply, ReceiveFails, ReceiveInfo, ReceiveResponse, ReceiveBye,
        WaitGuest, GuestExit, Snapshot, Except, Report, CleanupBegin, CleanupOpen, CleanupTerm, CleanupSignal, StrangerExits,
        CleanupWait, CleanupFinish, FinalizeEmpty, FinalizeOther, FinalizeRaises,
        Return, RetainCommand, Nap, Leave, LoopStop, LoopNotes, InputFails,
        LoopRequest, Receive, history, handles, owner
  <2> QED BY <2>1, <2>2 DEF Quiet
<1> QED BY <1>1, Invariance, PTL DEF Spec, SilentAfterUnanswered, Quiet

-----------------------------------------------------------------------------
Idle ==
    termed' # termed =>
        /\ ~termed /\ fd = "service"
        /\ proc["crosvm"] \in {"gone", "reused"}

\* The one signal goes to a service that has no Guest any more, on a handle that
\* pins that service, wherever its PID has gone meanwhile.
THEOREM OnlyIdleServiceSignalled == Spec => SignalOnlyIdleService
<1>1. IInv /\ [Next]_vars => [Idle]_vars
  <2> SUFFICES ASSUME IInv, Next PROVE Idle
    OBVIOUS
  <2>1. CASE CleanupSignal
    BY <2>1 DEF CleanupSignal, IInv, Evidence, Idle
  <2>2. termed' = termed \/ CleanupSignal
    BY Zenon DEF Next, Controller, Operator, Session, DeadlinePasses, Interrupt, StartOwner,
       ReadyPoll, Running, LoopRaises, LoopDeadline, Stopping, RequestRefused,
        Send, LocalReply, ReceiveFails, ReceiveInfo, ReceiveResponse, ReceiveBye,
        WaitGuest, GuestExit, Snapshot, Except, Report, CleanupBegin, CleanupOpen, CleanupTerm, StrangerExits, CleanupWait,
        CleanupFinish, FinalizeEmpty, FinalizeOther, FinalizeRaises, Return,
        RetainCommand, Nap, Leave, LoopStop, LoopNotes, InputFails, LoopRequest,
        Receive, history, handles, owner
  <2> QED BY <2>1, <2>2 DEF Idle
<1> QED BY <1>1, Invariance, PTL DEF Spec, SignalOnlyIdleService, Idle

-----------------------------------------------------------------------------
(* The refinement.  What the launched processes do is Launch and End, what  *)
(* supervise publishes is Advance and Fail, and the end of run is Release.  *)

\* A step that leaves the processes alone leaves the session of Lifetime alone.
LEMMA SameView ==
    UNCHANGED <<launcher, proc>> => SessionView' = SessionView
  BY DEF SessionView, SessionEmpty, Members

\* A session that has ended stays so.
LEMMA EndedStays ==
    ASSUME IInv, Session
    PROVE  /\ UNCHANGED <<state, pc>>
           /\ launcher = "none" => launcher' = "none"
           /\ launcher' = "none" => launcher = "none"
           /\ SessionEmpty => SessionEmpty'
<1> USE DEF IInv, Types, SessionEmpty, Members, Exited
<1>0. UNCHANGED <<state, pc>>
  BY DEF Session, result
<1>3. launcher' = launcher \/ (launcher = "live" /\ launcher' \in {"ok", "failed"})
  BY Zenon DEF Session, Spawn, Exit, Reap, LauncherEnds, PayloadReady, PayloadServes
<1>1. ASSUME NEW p \in Members, Spawn(p) \/ Exit(p) \/ Reap(p), SessionEmpty PROVE SessionEmpty'
  <2>1. ~Spawn(p) /\ ~Exit(p)
    BY <1>1, ZenonT(60) DEF Spawn, Exit
  <2> QED BY <1>1, <2>1, SMTT(30) DEF Reap
<1>2. ASSUME LauncherEnds \/ PayloadReady \/ PayloadServes, SessionEmpty PROVE SessionEmpty'
  BY <1>2, SMTT(30) DEF LauncherEnds, PayloadReady, PayloadServes
<1>4. SessionEmpty => SessionEmpty'
  BY <1>1, <1>2, Zenon DEF Session
<1> QED BY <1>0, <1>3, <1>4

\* Steps that publish nothing and do not end the controller.
LEMMA OtherSteps ==
    ASSUME IInv, Next,
           ~(StartOwner \/ Running \/ Stopping \/ Snapshot \/ Except \/ Return \/ Leave
             \/ Interrupt \/ Session)
    PROVE  \/ UNCHANGED <<launcher, proc, started, state>> /\ pc # "exit" /\ pc' # "exit"
           \/ UNCHANGED <<launcher, proc, started, state, pc>>
<1> DEFINE Same == UNCHANGED <<launcher, proc, started, state>>
           Goes == Same /\ pc # "exit" /\ pc' # "exit"
<1> USE DEF session, owner, result
<1>1. RequestRefused => Goes
  <2>1. RequestRefused => Same /\ pc = "rq" /\ pc' = Raised
    BY Zenon DEF RequestRefused
  <2> QED BY <2>1 DEF Raised, IInv, Types
<1>2. RetainCommand => Goes
  <2>1. RetainCommand => Same /\ pc = "command" /\ pc' \in {"rq", "finalize"}
    BY Zenon DEF RetainCommand
  <2> QED BY <2>1
<1>3. DeadlinePasses => Same /\ UNCHANGED pc
  BY DEF DeadlinePasses
<1>4. ReadyPoll \/ LoopRaises \/ LoopDeadline \/ Send \/ LocalReply \/ Report \/ Nap => Goes
  BY SMTT(30) DEF ReadyPoll, LoopRaises, LoopDeadline, Send, LocalReply, Report, Nap
<1>5. ReceiveFails \/ ReceiveInfo \/ ReceiveResponse \/ ReceiveBye => Goes
  BY SMTT(30) DEF ReceiveFails, ReceiveInfo, ReceiveResponse, ReceiveBye, Receive,
     Raised, IInv, Types
<1>6. WaitGuest \/ GuestExit => Goes
  BY SMTT(30) DEF WaitGuest, GuestExit
<1>7. CleanupBegin \/ CleanupOpen \/ CleanupTerm \/ CleanupWait \/ CleanupFinish => Goes
  BY SMTT(30) DEF CleanupBegin, CleanupOpen, CleanupTerm, CleanupWait, CleanupFinish, Raised,
     AfterCleanup, IInv, Types
<1>8. FinalizeEmpty \/ FinalizeOther \/ FinalizeRaises => Goes
  BY SMTT(30) DEF FinalizeEmpty, FinalizeOther, FinalizeRaises, Raised, AfterTrue,
     AfterFalse, IInv, Types
<1>9. LoopStop \/ LoopNotes \/ InputFails => Goes
  BY SMTT(30) DEF LoopStop, LoopNotes, InputFails
<1>10. \A n \in 1 .. MaxRequest : LoopRequest(n) => Goes
  BY DEF LoopRequest
<1>11. CleanupSignal => Goes
  <2>1. CleanupSignal => Same /\ pc = "cssignal" /\ pc' \in {"cswait", Raised}
    BY Zenon DEF CleanupSignal
  <2> QED BY <2>1 DEF Raised, IInv, Types
<1>12. StrangerExits => Same /\ UNCHANGED pc
  BY DEF StrangerExits
<1> QED
  BY <1>1, <1>2, <1>3, <1>4, <1>5, <1>6, <1>7, <1>8, <1>9, <1>10, <1>11, <1>12
     DEF Next, Controller, Operator

\* supervise, its owner and the retention loop implement the life of an attempt
\* that the claim protocol builds on: STOPPED only for an ended session, UNKNOWN
\* final, one launch, and a release only of what is decided.
THEOREM SupervisorImplementsLifetime == Spec => ImplementsLifetime
<1>1. Init => L!Init
  BY DEF Init, L!Init, SessionView
<1>2. IInv /\ [Next]_vars => [L!Next]_(L!vars)
  <2> SUFFICES ASSUME IInv, [Next]_vars PROVE L!Next \/ UNCHANGED L!vars
    OBVIOUS
  <2> USE DEF L!Next, L!vars
  <2>1. CASE StartOwner
    BY <2>1, SMTT(30) DEF StartOwner, L!Launch, SessionView, SessionEmpty, IInv, Published,
       Launched, result
  <2>2. CASE Session
    BY <2>2, EndedStays, SMTT(30) DEF L!End, SessionView
  <2>3. CASE Running
    BY <2>3, SameView, SMTT(30) DEF Running, L!Advance, SessionView, IInv, Callers, Published,
       Launched, session, owner
  <2>4. CASE Stopping
    BY <2>4, SameView, SMTT(30) DEF Stopping, L!Advance, IInv, Published, session
  <2>5. CASE Snapshot
    <3>1. SessionView = "ended"
      BY <2>5 DEF Snapshot, SessionView, IInv, Callers, Launched, Evidence, TerminalOwnsNothing
    <3> QED
      BY <2>5, <3>1, SameView, SMTT(30) DEF Snapshot, L!Advance, IInv, Published,
         AfterBye, session,
         owner
  <2>6. CASE Except
    BY <2>6, SameView, SMTT(30) DEF Except, L!Fail, session, owner
  <2>7. CASE Return
    BY <2>7, SameView, SMTT(30) DEF Return, L!Release, IInv, Published, session, owner, result
  <2>8. CASE Leave
    BY <2>8, SameView, SMTT(30) DEF Leave, L!Release, IInv, Callers, Published, session,
       owner, result
  <2>9. CASE Interrupt
    BY <2>9, SameView, SMTT(30) DEF Interrupt, L!Fail, Raised, IInv, Types, session, owner
  <2>10. CASE UNCHANGED vars
    BY <2>10, SameView DEF vars, session, owner, result
  <2>11. CASE Next /\ ~(StartOwner \/ Running \/ Stopping \/ Snapshot \/ Except \/ Return
                       \/ Leave \/ Interrupt \/ Session)
    BY <2>11, OtherSteps, SameView
  <2> QED BY <2>1, <2>2, <2>3, <2>4, <2>5, <2>6, <2>7, <2>8, <2>9, <2>10, <2>11
<1> QED BY <1>1, <1>2, Invariance, PTL DEF Spec, ImplementsLifetime, L!Spec
=============================================================================
