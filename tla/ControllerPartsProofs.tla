------------------------ MODULE ControllerPartsProofs ------------------------
(***************************************************************************)
(* Proofs about the owners a controller starts a VM under: BoundOwner for  *)
(* any set of members and any budget, OwnedJob for any children.           *)
(***************************************************************************)
EXTENDS ControllerParts, TLAPS

\* A leaf may take longer than the default.
USE SMTT(60), ZenonT(60)

-----------------------------------------------------------------------------
(* The fault-injection owner. *)

USE DEF session, handles, budget, history, vars

\* The inductive invariant holds when the fault owner is created.
LEMMA InvInit == Init => IInv
<1> SUFFICES ASSUME Init PROVE IInv
  OBVIOUS
<1> USE DEF Init
<1>1. TypeOK
  <2>1. proc \in [Members -> {"live", "zombie", "gone", "other"}]
    OBVIOUS
  <2>2. calls \in 0 .. MaxCalls
    BY MaxCallsAssumption
  <2>3. QED
    BY <2>1, <2>2, Zenon DEF TypeOK
<1>2. PinInv
  BY DEF PinInv
<1>3. PlaceInv
  BY DEF PlaceInv
<1>4. OnceInv
  BY DEF OnceInv
<1>5. QED
  BY <1>1, <1>2, <1>3, <1>4 DEF IInv

\* What happens in the session leaves the owner alone and cannot revive it: a
\* process that exited stays so and an empty session stays empty.
LEMMA SessionStep ==
  ASSUME IInv, Session
  PROVE  IInv'
<1> USE DEF IInv
<1>1. TypeOK'
  <2>1. /\ proc' \in [Members -> {"live", "zombie", "gone", "other"}]
        /\ stranger' \in BOOLEAN
    BY Zenon DEF TypeOK, Session, Exit, Reap, Fork, StrangerExits
  <2>2. QED
    BY <2>1 DEF TypeOK, Session
<1>2. PinInv'
  BY DEF TypeOK, PinInv, Session, Exit, Reap, Fork, StrangerExits
<1>3. SessionEmpty => SessionEmpty'
  BY DEF TypeOK, SessionEmpty, Session, Exit, Reap, Fork, StrangerExits, Occupied
<1>4. PlaceInv'
  BY <1>3 DEF PlaceInv, Session
<1>5. OnceInv'
  BY DEF OnceInv, Session
<1>6. QED
  BY <1>1, <1>2, <1>4, <1>5

\* Every step of the owner and of the clock preserves the invariant.
LEMMA InvNext == IInv /\ [Next]_vars => IInv'
<1> SUFFICES ASSUME IInv, [Next]_vars
             PROVE  IInv'
  OBVIOUS
<1> USE DEF IInv, TypeOK, PinInv, PlaceInv, OnceInv
<1>1. CASE InitialInventory
  BY <1>1 DEF InitialInventory, SessionEmpty
<1>2. ASSUME NEW m \in Members, BindOpen(m)
      PROVE  IInv'
  BY <1>2 DEF BindOpen, SessionEmpty
<1>3. CASE BindCheck
  BY <1>3, ZenonT(60) DEF BindCheck, AllPresent, Seen, SessionEmpty
<1>4. CASE BindFails
  BY <1>4 DEF BindFails, SessionEmpty
<1>5. CASE Terminate
  BY <1>5, ZenonT(60) DEF Terminate, SessionEmpty
<1>6. CASE Validate
  <2>1. TypeOK'
    BY <1>6, ZenonT(60) DEF Validate, Doubt, Seen, SessionEmpty
  <2>2. PinInv'
    BY <1>6 DEF Validate, Doubt, Seen, SessionEmpty
  <2>3. PlaceInv'
    BY <1>6 DEF Validate, Doubt, Seen, SessionEmpty
  <2>4. OnceInv'
    BY <1>6 DEF Validate, Doubt, Seen, SessionEmpty
  <2>5. QED
    BY <2>1, <2>2, <2>3, <2>4
<1>7. CASE FirstCheck
  <2>1. TypeOK'
    BY <1>7, Zenon DEF FirstCheck, Doubt, SessionEmpty
  <2>2. PinInv'
    BY <1>7 DEF FirstCheck, Doubt, SessionEmpty
  <2>3. PlaceInv'
    BY <1>7 DEF FirstCheck, Doubt, SessionEmpty
  <2>4. OnceInv'
    BY <1>7 DEF FirstCheck, Doubt, SessionEmpty
  <2>5. QED
    BY <2>1, <2>2, <2>3, <2>4
<1>8. ASSUME NEW m \in Members, TermPass(m)
      PROVE  IInv'
  <2>1. TypeOK'
    <3>1. terms' \in [Members -> Nat]
      BY <1>8 DEF TermPass
    <3>2. pc' \in {"obs", "val", "retained"} /\ blocked' \in BOOLEAN
      BY <1>8, Zenon DEF TermPass, Doubt
    <3>3. QED
      BY <1>8, <3>1, <3>2 DEF TermPass
  <2>2. PinInv'
    BY <1>8 DEF TermPass, Doubt, SessionEmpty
  <2>3. PlaceInv'
    BY <1>8 DEF TermPass, Doubt, SessionEmpty
  <2>4. OnceInv'
    BY <1>8 DEF TermPass, Doubt, SessionEmpty
  <2>5. QED
    BY <2>1, <2>2, <2>3, <2>4
<1>9. CASE TermPassEnds
  <2>1. TypeOK'
    BY <1>9, Zenon DEF TermPassEnds, Doubt, SessionEmpty
  <2>2. PinInv'
    BY <1>9 DEF TermPassEnds, Doubt, SessionEmpty
  <2>3. PlaceInv'
    BY <1>9 DEF TermPassEnds, Doubt, SessionEmpty
  <2>4. OnceInv'
    BY <1>9 DEF TermPassEnds, Doubt, SessionEmpty
  <2>5. QED
    BY <2>1, <2>2, <2>3, <2>4
<1>10. CASE ObserveLoop
  <2>1. TypeOK'
    BY <1>10, Zenon DEF ObserveLoop, Doubt, SessionEmpty
  <2>2. PinInv'
    BY <1>10 DEF ObserveLoop, Doubt, SessionEmpty
  <2>3. PlaceInv'
    BY <1>10 DEF ObserveLoop, Doubt, SessionEmpty
  <2>4. OnceInv'
    BY <1>10 DEF ObserveLoop, Doubt, SessionEmpty
  <2>5. QED
    BY <2>1, <2>2, <2>3, <2>4
<1>11. CASE Look
  <2>1. TypeOK'
    BY <1>11, Zenon DEF Look, Doubt, Seen, SessionEmpty
  <2>2. PinInv'
    BY <1>11 DEF Look, Doubt, Seen, SessionEmpty
  <2>3. PlaceInv'
    BY <1>11 DEF Look, Doubt, Seen, SessionEmpty
  <2>4. OnceInv'
    BY <1>11 DEF Look, Doubt, Seen, SessionEmpty
  <2>5. QED
    BY <2>1, <2>2, <2>3, <2>4
<1>12. CASE LookExit
  <2>1. TypeOK'
    BY <1>12, Zenon DEF LookExit, Doubt, Again, SessionEmpty
  <2>2. PinInv'
    BY <1>12 DEF LookExit, Doubt, Again, SessionEmpty
  <2>3. PlaceInv'
    BY <1>12 DEF LookExit, Doubt, Again, SessionEmpty
  <2>4. OnceInv'
    BY <1>12 DEF LookExit, Doubt, Again, SessionEmpty
  <2>5. QED
    BY <2>1, <2>2, <2>3, <2>4
<1>13. CASE ReleaseLog
  BY <1>13, ZenonT(60) DEF ReleaseLog, SessionEmpty
<1>14. CASE SnapshotStorage
  BY <1>14 DEF SnapshotStorage, SessionEmpty
<1>15. ASSUME NEW m \in Members, Close(m)
       PROVE  IInv'
  BY <1>15 DEF Close, SessionEmpty
<1>16. CASE CloseInterrupted
  BY <1>16 DEF CloseInterrupted, SessionEmpty
<1>17. CASE Reaped
  BY <1>17 DEF Reaped, SessionEmpty
<1>18. CASE Observe
  BY <1>18, MaxCallsAssumption DEF Observe, SessionEmpty
<1>19. CASE Session
  BY <1>19, SessionStep
<1>20. CASE Late
  BY <1>20 DEF Late, SessionEmpty
<1>21. CASE Expire
  BY <1>21 DEF Expire, SessionEmpty
<1>22. CASE UNCHANGED vars
  BY <1>22 DEF SessionEmpty
<1>23. QED
  BY <1>1, <1>2, <1>3, <1>4, <1>5, <1>6, <1>7, <1>8, <1>9, <1>10, <1>11, <1>12, <1>13, <1>14,
     <1>15, <1>16, <1>17, <1>18, <1>19, <1>20, <1>21, <1>22, ZenonT(60) DEF Next, Owner

-----------------------------------------------------------------------------

\* Everything the owner's place says about the session, the handles, the
\* signals and the closes holds in every state of every run.
THEOREM Inductive == Spec => []IInv
  BY InvInit, InvNext, PTL DEF Spec

\* REAPED proves an empty session, a closed log and closed handles, for any
\* family of processes and any number of observations.
THEOREM ReapedMeansReleased == Spec => []ReapedIsProven
<1>1. IInv => ReapedIsProven
  BY DEF IInv, TypeOK, PinInv, PlaceInv, ReapedIsProven
<1>2. QED
  BY <1>1, Inductive, PTL

\* No handle of an armed owner pins a process that took over the PID.
THEOREM ArmedPinsOwn == Spec => []HandlesPinOwn
<1>1. IInv => HandlesPinOwn
  BY Zenon DEF IInv, PinInv, HandlesPinOwn
<1>2. QED
  BY <1>1, Inductive, PTL

\* TERM and close are each called at most once for every member.
THEOREM NothingTwice == Spec => [](TermSentOnce /\ ClosedOnce)
<1>1. IInv => TermSentOnce /\ ClosedOnce
  BY DEF IInv, OnceInv, TermSentOnce, ClosedOnce
<1>2. QED
  BY <1>1, Inductive, PTL

\* A doubtful observation ends all signals, closes and claims of REAPED.
THEOREM DoubtStays == Spec => DoubtIsFinal
<1>1. IInv /\ [Next]_vars =>
        [blocked => blocked' /\ terms' = terms /\ closes' = closes /\ resource' = resource]_vars
  BY Zenon DEF IInv, PlaceInv, Next, Owner, InitialInventory, BindOpen, BindCheck, BindFails, Terminate,
         Validate, FirstCheck, TermPass, TermPassEnds, ObserveLoop, Look, LookExit, ReleaseLog,
         SnapshotStorage, Close, CloseInterrupted, Reaped, Observe, Session, Late, Expire
<1>2. QED
  BY <1>1, Inductive, PTL DEF Spec, DoubtIsFinal

\* A signal only ever reaches a member of the last inventory through a handle
\* of its own process.
THEOREM SignalsArePinned == Spec => SignalIsPinned
<1>1. IInv /\ [Next]_vars =>
        [\A m \in Members : terms'[m] # terms[m] =>
            m \in fds /\ pin[m] = "own" /\ m \in snap /\ attempted /\ ~blocked]_vars
  <2> SUFFICES ASSUME IInv, [Next]_vars, NEW m \in Members, terms'[m] # terms[m]
               PROVE  m \in fds /\ pin[m] = "own" /\ m \in snap /\ attempted /\ ~blocked
    OBVIOUS
  <2>1. PICK n \in Members : TermPass(n)
    BY Zenon DEF Next, Owner, InitialInventory, BindOpen, BindCheck, BindFails, Terminate,
           Validate, FirstCheck, TermPassEnds, ObserveLoop, Look, LookExit, ReleaseLog,
           SnapshotStorage, Close, CloseInterrupted, Reaped, Observe, Session, Late, Expire
  <2>2. n = m /\ ~Exited(m)
    BY <2>1 DEF TermPass, IInv, TypeOK
  <2>3. QED
    BY <2>1, <2>2 DEF TermPass, Pending, Exited, IInv, TypeOK, PinInv, PlaceInv, OnceInv
<1>2. QED
  BY <1>1, Inductive, PTL DEF Spec, SignalIsPinned

\* The owner is safe for any family of processes and any budget of observations:
\* REAPED is proven, handles pin their own process, nothing is done twice.
THEOREM OwnerStaysSafe == Spec => []OwnerSafe
<1>1. IInv => TypeOK
  BY DEF IInv
<1>2. QED
  BY <1>1, Inductive, ReapedMeansReleased, ArmedPinsOwn, NothingTwice, PTL DEF OwnerSafe

\* No step signals a process it has not pinned, and none acts after a doubt.
THEOREM OwnerStepsSafely == Spec => OwnerSteps
  BY SignalsArePinned, DoubtStays, PTL DEF OwnerSteps

-----------------------------------------------------------------------------
(* The Job of a Windows owner: started inside it, terminated once, and        *)
(* released only when it is known to be empty.                                *)

HIDE DEF session, handles, budget, history, vars

\* Where the launch of the first process may be interrupted, and the places before a kill.
Launching == {"create", "identify", "assign", "resume"}
Early == Launching \cup {"job", "stdio", "run"}

\* How far the launch has come with the first process: it runs only inside the Job.
RootInv ==
    /\ jobPc \in {"job", "create"} => jobProc["root"] = "none" /\ fam = {}
    /\ jobProc["root"] # "none" \/ jobPc \in {"identify", "assign", "resume"} =>
          "create_attempted" \in fam
    /\ "create_failed" \in fam => jobProc["root"] = "none" /\ jobPc \notin Launching
    /\ jobPc = "resume" \/ "resume_attempted" \in fam => "root" \in inJob
    /\ jobPc \in {"run", "poll"} => "resume_attempted" \in fam
    /\ jobProc["root"] = "running" => "root" \in inJob

\* What it starts is born inside the Job.
ChildrenInv ==
    \A c \in Children : /\ jobProc[c] # "none" => c \in inJob
                        /\ jobProc[c] # "suspended"

\* The Job is closed by the last close alone, and no close kills.
HandlesInv ==
    /\ jobPc \in Launching => "job" \in jobHandles
    /\ inJob # {} => "job" \in jobHandles \/ own.terminal
    /\ ~killed

\* The two calls that terminate are made once, and not before the launch is over.
CallsInv ==
    /\ jobCalls["terminate"] <= 1 /\ jobCalls["abort"] <= 1
    /\ "job_terminate_attempted" \notin fam => jobCalls["terminate"] = 0
    /\ jobPc \in Early => "job_terminate_attempted" \notin fam
    /\ jobPc \notin {"abort", "retained", "released"} => jobCalls["abort"] = 0

\* What the owner says of its session: a terminal one has lost its processes and handles.
TerminalInv ==
    /\ own.terminal => /\ Job!Gone /\ jobHandles = {} /\ "closed" \in fam
                       /\ jobPc \in {"retained", "released"}
    /\ "closed" \in fam => own.terminal
    /\ own.reaped => own.terminal /\ ~own.hard /\ jobPc = "released"
    /\ "observed_error" \in fam => own.hard

\* The inductive invariant of the owner of a Job.
JobIInv == Job!TypeOK /\ RootInv /\ ChildrenInv /\ HandlesInv /\ CallsInv /\ TerminalInv

Statuses == {"none", "suspended", "running", "dying", "exited"}

\* The names of the processes, of the thread and of the Job differ.
LEMMA RootIsAProcess ==
  /\ "root" \in Job!Procs /\ Children \subseteq Job!Procs
  /\ "job" \notin Job!Procs /\ "thread" \notin Job!Procs /\ "root" \notin Children
BY ChildrenAssumption DEF Job!Procs

\* A termination starts no process and wakes none.
LEMMA TerminatedProcs ==
  ASSUME Job!TypeOK, NEW ps, jobProc' = Job!Terminated(ps)
  PROVE  /\ jobProc' \in [Job!Procs -> Statuses]
         /\ \A p \in Job!Procs : /\ (jobProc'[p] = "none" <=> jobProc[p] = "none")
                                 /\ jobProc'[p] = "running" => jobProc[p] = "running"
                                 /\ jobProc'[p] = "suspended" => jobProc[p] = "suspended"
BY DEF Job!TypeOK, Job!Terminated, Job!Alive, Statuses

\* TerminateJobObject on a job that no one has terminated.
LEMMA TerminateStep ==
  ASSUME JobIInv, NEW flags \in SUBSET {"forced_cleanup_requested"}, Job!TerminateJob(flags),
         jobPc \in {"run", "failed"}, "resume_attempted" \in fam,
         "job_terminate_attempted" \notin fam
  PROVE  JobIInv'
<1>1. /\ jobProc' \in [Job!Procs -> Statuses]
      /\ \A p \in Job!Procs : /\ (jobProc'[p] = "none" <=> jobProc[p] = "none")
                              /\ jobProc'[p] = "running" => jobProc[p] = "running"
                              /\ jobProc'[p] = "suspended" => jobProc[p] = "suspended"
  BY TerminatedProcs DEF Job!TerminateJob, JobIInv, Job!TypeOK, Statuses
<1>2. jobCalls["terminate"] = 0
  BY DEF JobIInv, CallsInv
<1>3. jobCalls' = [jobCalls EXCEPT !["terminate"] = 1]
  BY <1>2 DEF Job!TerminateJob
<1>4. /\ fam' = fam \cup {"job_terminate_attempted"} \cup flags
      /\ (own' = own \/ own' = [own EXCEPT !.hard = TRUE])
      /\ jobPc' \in {"poll", "retained", "failed"}
      /\ UNCHANGED <<inJob, job, jobHandles, killed>>
  BY DEF Job!TerminateJob, Job!Unconfirmed
<1>5. ~own.terminal /\ ~own.reaped
  BY DEF JobIInv, TerminalInv
<1>6. Job!TypeOK'
  <2>1. fam' \subseteq Job!Flags
    BY <1>4 DEF JobIInv, Job!TypeOK, Job!Flags
  <2>2. own' \in [terminal : BOOLEAN, hard : BOOLEAN, log : {"open", "clean", "unclean"},
                  reaped : BOOLEAN]
    BY <1>4, ZenonT(60) DEF JobIInv, Job!TypeOK
  <2>3. jobCalls' \in [{"terminate", "abort"} -> 0..2]
    BY <1>3 DEF JobIInv, Job!TypeOK
  <2> QED BY <1>1, <1>4, <2>1, <2>3, ZenonT(60) DEF JobIInv, Job!TypeOK, Statuses
<1>7. RootInv'
  BY <1>1, <1>4, RootIsAProcess DEF JobIInv, RootInv, Launching
<1>8. ChildrenInv'
  BY <1>1, <1>4, RootIsAProcess DEF JobIInv, ChildrenInv
<1>9. HandlesInv'
  BY <1>4, <1>5 DEF JobIInv, HandlesInv, Launching
<1>10. CallsInv'
  BY <1>3, <1>4 DEF JobIInv, CallsInv, Launching, Early
<1>11. TerminalInv'
  BY <1>4 DEF JobIInv, TerminalInv, Job!TypeOK
<1> QED BY <1>6, <1>7, <1>8, <1>9, <1>10, <1>11 DEF JobIInv

\* The last close: what it closes has no live process behind it.
LEMMA CloseStep ==
  ASSUME JobIInv, Job!Empty, "resume_attempted" \in fam \/ Job!CreationKnown, jobPc \notin Early,
         jobPc # "released",
         Job!CloseAll(TRUE), own' \in Job!Logged(own), jobPc' = "retained"
  PROVE  JobIInv'
<1>1. Job!Gone
  <2> SUFFICES ASSUME NEW p \in Job!Procs, Job!Alive(p) PROVE FALSE
    BY DEF Job!Gone
  <2>1. p \in inJob => FALSE
    BY DEF Job!Empty, Job!JobMembers
  <2>2. CASE p \in Children
    BY <2>1, <2>2 DEF JobIInv, ChildrenInv, Job!Alive
  <2>3. CASE p = "root"
    <3>1. "root" \notin inJob /\ "resume_attempted" \notin fam /\ Job!CreationKnown
      BY <2>1, <2>3 DEF JobIInv, RootInv
    <3>2. "root" \notin jobHandles
      BY <2>3 DEF Job!Empty
    <3>3. jobProc["root"] # "none"
      BY <2>3 DEF Job!Alive
    <3>4. "create_failed" \in fam
      BY <3>1, <3>2, <3>3 DEF JobIInv, RootInv, Job!CreationKnown, Job!NoRoot
    <3> QED BY <3>3, <3>4 DEF JobIInv, RootInv
  <2> QED BY <2>2, <2>3 DEF Job!Procs
<1>2. jobProc' = jobProc
  BY <1>1 DEF Job!CloseAll, Job!Terminated, Job!Gone, JobIInv, Job!TypeOK
<1>3. Job!JobMembers = {}
  BY DEF Job!Empty
<1>4. /\ jobHandles' = {} /\ fam' = fam \cup {"terminal_close_attempted", "closed"}
      /\ killed' = killed
      /\ job' \in {job, "gone"} /\ UNCHANGED <<inJob, jobCalls>>
  BY <1>3 DEF Job!CloseAll, JobIInv, Job!TypeOK
<1>5. /\ own' \in [terminal : BOOLEAN, hard : BOOLEAN, log : {"open", "clean", "unclean"},
                   reaped : BOOLEAN]
      /\ own'.terminal /\ own'.hard = own.hard /\ own'.reaped = own.reaped /\ ~own.reaped
  <2>1. PICK l \in {"clean", "unclean"} : own' = [own EXCEPT !.terminal = TRUE, !.log = l]
    BY DEF Job!Logged
  <2>2. ~own.reaped
    BY DEF JobIInv, TerminalInv
  <2> QED BY <2>1, <2>2, Zenon DEF JobIInv, Job!TypeOK
<1>6. Job!TypeOK'
  <2>1. fam' \subseteq Job!Flags
    BY <1>4 DEF JobIInv, Job!TypeOK, Job!Flags
  <2>2. own' \in [terminal : BOOLEAN, hard : BOOLEAN, log : {"open", "clean", "unclean"},
                  reaped : BOOLEAN]
    BY <1>5
  <2>3. jobCalls' \in [{"terminate", "abort"} -> 0..2]
    BY <1>4 DEF JobIInv, Job!TypeOK
  <2> QED BY <1>2, <1>4, <2>1, <2>2 DEF JobIInv, Job!TypeOK
<1>7. RootInv'
  BY <1>2, <1>4 DEF JobIInv, RootInv, Launching
<1>8. ChildrenInv'
  BY <1>2, <1>4 DEF JobIInv, ChildrenInv
<1>9. HandlesInv'
  BY <1>4, <1>5 DEF JobIInv, HandlesInv, Launching
<1>10. CallsInv'
  BY <1>4 DEF JobIInv, CallsInv, Launching, Early
<1>11. TerminalInv'
  BY <1>1, <1>2, <1>4, <1>5 DEF JobIInv, TerminalInv, Job!Gone, Job!Alive
<1> QED BY <1>6, <1>7, <1>8, <1>9, <1>10, <1>11 DEF JobIInv

\* A step that only adds a hard error.
LEMMA HardStep ==
  ASSUME JobIInv, jobPc # "released", ~own.terminal,
         own' = [own EXCEPT !.hard = TRUE] \/ own' = own,
         UNCHANGED <<jobProc, inJob, job, killed, fam, jobCalls>>,
         jobHandles' \subseteq jobHandles, "job" \in jobHandles => "job" \in jobHandles',
         jobPc' \in {"failed", "retained"}, jobPc' = "failed" => jobCalls["abort"] = 0
  PROVE  JobIInv'
<1>1. ~own.reaped
  BY DEF JobIInv, TerminalInv
<1>2. Job!TypeOK'
  BY Zenon DEF Job!TypeOK, JobIInv
<1>3. RootInv'
  BY DEF JobIInv, RootInv, Launching
<1>4. ChildrenInv'
  BY DEF JobIInv, ChildrenInv
<1>5. HandlesInv'
  BY DEF JobIInv, HandlesInv, Launching
<1>6. CallsInv'
  BY DEF JobIInv, CallsInv, Launching, Early
<1>7. TerminalInv'
  BY DEF Job!TypeOK, JobIInv, TerminalInv
<1> QED BY <1>2, <1>3, <1>4, <1>5, <1>6, <1>7 DEF JobIInv

\* A close that fails may have closed handles of processes and of the thread, not the Job's.
LEMMA CloseFails ==
  ASSUME JobIInv, Job!CloseAll(FALSE), own' = [own EXCEPT !.hard = TRUE], jobPc # "released",
         ~own.terminal, jobPc \notin Early,
         jobPc' \in {"failed", "retained"}, jobPc' = "failed" => jobCalls["abort"] = 0
  PROVE  JobIInv'
<1>1. jobHandles' \subseteq jobHandles /\ ("job" \in jobHandles => "job" \in jobHandles')
  <2>1. PICK ps \in (SUBSET (jobHandles \cap Job!Procs)) \cup {Job!Procs \cup {"thread"}} :
          jobHandles' = jobHandles \ ps
    BY DEF Job!CloseAll
  <2>2. CASE ps \subseteq jobHandles \cap Job!Procs
    BY <2>1, RootIsAProcess
  <2>3. CASE ps = Job!Procs \cup {"thread"}
    BY <2>1, RootIsAProcess
  <2> QED BY <2>2, <2>3
<1>2. /\ fam' = fam \cup {"terminal_close_attempted"}
      /\ UNCHANGED <<jobProc, inJob, job, jobCalls>> /\ killed' = killed
  BY DEF Job!CloseAll, JobIInv, Job!TypeOK
<1>3. ~own.reaped
  BY DEF JobIInv, TerminalInv
<1>4. Job!TypeOK'
  <2>1. fam' \subseteq Job!Flags
    BY <1>2 DEF JobIInv, Job!TypeOK, Job!Flags
  <2>2. own' \in [terminal : BOOLEAN, hard : BOOLEAN, log : {"open", "clean", "unclean"},
                  reaped : BOOLEAN]
    BY Zenon DEF JobIInv, Job!TypeOK
  <2>3. jobCalls' \in [{"terminate", "abort"} -> 0..2]
    BY <1>2 DEF JobIInv, Job!TypeOK
  <2> QED BY <1>1, <1>2, <2>1, Zenon DEF JobIInv, Job!TypeOK
<1>5. RootInv'
  BY <1>2 DEF JobIInv, RootInv, Launching
<1>6. ChildrenInv'
  BY <1>2 DEF JobIInv, ChildrenInv
<1>7. HandlesInv'
  BY <1>1, <1>2 DEF JobIInv, HandlesInv, Launching
<1>8. CallsInv'
  BY <1>2 DEF JobIInv, CallsInv, Launching, Early
<1>9. TerminalInv'
  BY <1>2 DEF JobIInv, TerminalInv
<1> QED BY <1>4, <1>5, <1>6, <1>7, <1>8, <1>9 DEF JobIInv

\* Every step of the processes and of the owner, failing calls included, keeps the invariant.
LEMMA JobIInvStep == JobIInv /\ [Job!Next]_Job!vars => JobIInv'
<1> SUFFICES ASSUME JobIInv, [Job!Next]_Job!vars PROVE JobIInv'
  OBVIOUS
<1> USE DEF Job!osVars
<1>1. ASSUME NEW p \in Job!Procs, NEW c \in Children, Job!Spawn(p, c) PROVE JobIInv'
  <2>1. p \in inJob /\ jobProc' = [jobProc EXCEPT ![c] = "running"] /\ inJob' = inJob \cup {c}
        /\ jobProc[p] = "running" /\ jobProc[c] = "none"
        /\ UNCHANGED <<job, jobHandles, fam, own, jobPc, jobCalls, killed>>
    BY <1>1 DEF Job!Spawn, JobIInv, RootInv, ChildrenInv, Job!Procs
  <2>2. Job!TypeOK'
    BY <2>1, RootIsAProcess DEF Job!TypeOK, JobIInv
  <2>3. RootInv'
    BY <2>1, RootIsAProcess DEF JobIInv, RootInv
  <2>4. ChildrenInv'
    BY <2>1 DEF JobIInv, ChildrenInv
  <2>5. HandlesInv'
    BY <2>1 DEF JobIInv, HandlesInv
  <2>6. CallsInv'
    BY <2>1 DEF JobIInv, CallsInv
  <2>7. TerminalInv'
    BY <2>1 DEF JobIInv, TerminalInv, Job!Gone, Job!Alive
  <2> QED BY <2>2, <2>3, <2>4, <2>5, <2>6, <2>7 DEF JobIInv
<1>2. ASSUME NEW p \in Job!Procs, Job!Exit(p) PROVE JobIInv'
  <2>1. Job!TypeOK'
    BY <1>2 DEF Job!Exit, Job!TypeOK, JobIInv
  <2>2. RootInv'
    BY <1>2 DEF Job!Exit, JobIInv, RootInv
  <2>3. ChildrenInv'
    BY <1>2 DEF Job!Exit, JobIInv, ChildrenInv
  <2>4. HandlesInv'
    BY <1>2 DEF Job!Exit, JobIInv, HandlesInv
  <2>5. CallsInv'
    BY <1>2 DEF Job!Exit, JobIInv, CallsInv
  <2>6. TerminalInv'
    BY <1>2 DEF Job!Exit, JobIInv, TerminalInv, Job!Gone, Job!Alive
  <2> QED BY <2>1, <2>2, <2>3, <2>4, <2>5, <2>6 DEF JobIInv
<1>3. CASE Job!CreateJob
  <2>1. Job!TypeOK'
    BY <1>3 DEF Job!CreateJob, Job!TypeOK, Job!Raise, JobIInv
  <2>2. RootInv'
    BY <1>3 DEF Job!CreateJob, Job!Raise, JobIInv, RootInv
  <2>3. ChildrenInv'
    BY <1>3 DEF Job!CreateJob, JobIInv, ChildrenInv
  <2>4. HandlesInv'
    BY <1>3 DEF Job!CreateJob, Job!Raise, JobIInv, HandlesInv, Launching
  <2>5. CallsInv'
    BY <1>3 DEF Job!CreateJob, JobIInv, CallsInv, Early
  <2>6. TerminalInv'
    BY <1>3 DEF Job!CreateJob, JobIInv, TerminalInv
  <2> QED BY <2>1, <2>2, <2>3, <2>4, <2>5, <2>6 DEF JobIInv
<1>4. CASE Job!CreateProcess
  <2>1. Job!TypeOK'
    BY <1>4, RootIsAProcess, ZenonT(60) DEF Job!CreateProcess, Job!TypeOK, Job!Raise, JobIInv, Job!Flags
  <2>2. RootInv'
    BY <1>4 DEF Job!CreateProcess, Job!TypeOK, Job!Raise, JobIInv, RootInv, Launching
  <2>3. ChildrenInv'
    BY <1>4, RootIsAProcess DEF Job!CreateProcess, Job!TypeOK, JobIInv, ChildrenInv
  <2>4. HandlesInv'
    BY <1>4 DEF Job!CreateProcess, JobIInv, HandlesInv, Launching
  <2>5. CallsInv'
    BY <1>4 DEF Job!CreateProcess, JobIInv, CallsInv, Launching, Early
  <2>6. TerminalInv'
    BY <1>4 DEF Job!CreateProcess, JobIInv, TerminalInv
  <2> QED BY <2>1, <2>2, <2>3, <2>4, <2>5, <2>6 DEF JobIInv
<1>5. CASE Job!Identify
  <2>1. Job!TypeOK'
    BY <1>5 DEF Job!Identify, Job!TypeOK, JobIInv
  <2>2. RootInv'
    BY <1>5 DEF Job!Identify, JobIInv, RootInv, Launching
  <2>3. ChildrenInv'
    BY <1>5 DEF Job!Identify, JobIInv, ChildrenInv
  <2>4. HandlesInv'
    BY <1>5 DEF Job!Identify, JobIInv, HandlesInv, Launching
  <2>5. CallsInv'
    BY <1>5 DEF Job!Identify, JobIInv, CallsInv, Launching, Early
  <2>6. TerminalInv'
    BY <1>5 DEF Job!Identify, JobIInv, TerminalInv
  <2> QED BY <2>1, <2>2, <2>3, <2>4, <2>5, <2>6 DEF JobIInv
<1>6. CASE Job!Assign
  <2>1. Job!TypeOK'
    BY <1>6, RootIsAProcess, ZenonT(60) DEF Job!Assign, Job!TypeOK, Job!Raise, JobIInv, Job!Flags
  <2>2. RootInv'
    BY <1>6 DEF Job!Assign, Job!Raise, JobIInv, RootInv, Launching
  <2>3. ChildrenInv'
    BY <1>6 DEF Job!Assign, JobIInv, ChildrenInv
  <2>4. HandlesInv'
    BY <1>6 DEF Job!Assign, JobIInv, HandlesInv, Launching
  <2>5. CallsInv'
    BY <1>6 DEF Job!Assign, JobIInv, CallsInv, Launching, Early
  <2>6. TerminalInv'
    BY <1>6 DEF Job!Assign, JobIInv, TerminalInv
  <2> QED BY <2>1, <2>2, <2>3, <2>4, <2>5, <2>6 DEF JobIInv
<1>7. CASE Job!Resume
  <2>1. Job!TypeOK'
    BY <1>7 DEF Job!Resume, Job!TypeOK, Job!Raise, JobIInv, Job!Flags
  <2>2. RootInv'
    BY <1>7 DEF Job!Resume, Job!Raise, JobIInv, RootInv, Launching
  <2>3. ChildrenInv'
    BY <1>7, RootIsAProcess DEF Job!Resume, Job!TypeOK, JobIInv, ChildrenInv
  <2>4. HandlesInv'
    BY <1>7 DEF Job!Resume, JobIInv, HandlesInv, Launching
  <2>5. CallsInv'
    BY <1>7 DEF Job!Resume, JobIInv, CallsInv, Launching, Early
  <2>6. TerminalInv'
    BY <1>7 DEF Job!Resume, JobIInv, TerminalInv
  <2> QED BY <2>1, <2>2, <2>3, <2>4, <2>5, <2>6 DEF JobIInv
<1>8. CASE Job!CloseStdio
  <2>1. Job!TypeOK'
    BY <1>8, ZenonT(60) DEF Job!CloseStdio, Job!TypeOK, JobIInv, Job!Flags
  <2>2. RootInv'
    BY <1>8 DEF Job!CloseStdio, Job!Launched, JobIInv, RootInv, Launching
  <2>3. ChildrenInv'
    BY <1>8 DEF Job!CloseStdio, JobIInv, ChildrenInv
  <2>4. HandlesInv'
    BY <1>8 DEF Job!CloseStdio, JobIInv, HandlesInv, Launching
  <2>5. CallsInv'
    BY <1>8 DEF Job!CloseStdio, JobIInv, CallsInv, Early
  <2>6. TerminalInv'
    BY <1>8 DEF Job!CloseStdio, JobIInv, TerminalInv
  <2> QED BY <2>1, <2>2, <2>3, <2>4, <2>5, <2>6 DEF JobIInv
<1>9. CASE Job!Observe
  <2>1. Job!TypeOK'
    BY <1>9, Zenon DEF Job!Observe, Job!TypeOK, Job!JobMembers, JobIInv, Job!Flags
  <2>2. RootInv'
    BY <1>9 DEF Job!Observe, JobIInv, RootInv, Launching
  <2>3. ChildrenInv'
    BY <1>9 DEF Job!Observe, JobIInv, ChildrenInv
  <2>4. HandlesInv'
    BY <1>9 DEF Job!Observe, Job!TypeOK, JobIInv, HandlesInv, Launching
  <2>5. CallsInv'
    BY <1>9 DEF Job!Observe, JobIInv, CallsInv, Early
  <2>6. TerminalInv'
    BY <1>9 DEF Job!Observe, Job!TypeOK, JobIInv, TerminalInv
  <2> QED BY <2>1, <2>2, <2>3, <2>4, <2>5, <2>6 DEF JobIInv
<1>10. CASE Job!GiveUp
  <2>1. Job!TypeOK'
    BY <1>10 DEF Job!GiveUp, Job!TypeOK, JobIInv
  <2>2. RootInv'
    BY <1>10 DEF Job!GiveUp, JobIInv, RootInv, Launching
  <2>3. ChildrenInv'
    BY <1>10 DEF Job!GiveUp, JobIInv, ChildrenInv
  <2>4. HandlesInv'
    BY <1>10 DEF Job!GiveUp, JobIInv, HandlesInv, Launching
  <2>5. CallsInv'
    BY <1>10 DEF Job!GiveUp, JobIInv, CallsInv, Early
  <2>6. TerminalInv'
    BY <1>10 DEF Job!GiveUp, JobIInv, TerminalInv
  <2> QED BY <2>1, <2>2, <2>3, <2>4, <2>5, <2>6 DEF JobIInv
<1>11. CASE Job!CleanupServices
  BY <1>11, TerminateStep DEF Job!CleanupServices, JobIInv, RootInv, CallsInv, Early
<1>12. CASE Job!FailureCleanup
  <2>1. CASE Job!MayTerminate /\ Job!TerminateJob({"forced_cleanup_requested"})
    BY <1>12, <2>1, TerminateStep DEF Job!FailureCleanup, Job!MayTerminate
  <2>2. CASE /\ own' = [own EXCEPT !.hard = TRUE] \/ own' = own
             /\ jobPc' = "retained" /\ UNCHANGED <<Job!osVars, jobHandles, fam, jobCalls>>
    BY <1>12, <2>2, HardStep DEF Job!FailureCleanup, JobIInv, TerminalInv
  <2> QED BY <1>12, <2>1, <2>2 DEF Job!FailureCleanup
<1>13. CASE Job!Poll
  <2>1. /\ jobPc \notin Early /\ jobPc # "released" /\ ~own.terminal
        /\ jobCalls["abort"] = 0 /\ "resume_attempted" \in fam
        /\ Job!Unconfirmed(fam) \in {"failed", "retained"}
    BY <1>13 DEF Job!Poll, JobIInv, RootInv, CallsInv, TerminalInv, Early, Launching,
       Job!Unconfirmed
  <2>2. CASE Job!CloseTerminal("retained", Job!Unconfirmed(fam))
    BY <2>1, <2>2, CloseStep, CloseFails, Zenon DEF Job!CloseTerminal
  <2>3. CASE /\ own' = [own EXCEPT !.hard = TRUE] \/ own' = own
             /\ jobPc' = Job!Unconfirmed(fam) /\ UNCHANGED <<Job!osVars, jobHandles, fam, jobCalls>>
    BY <2>1, <2>3, HardStep
  <2> QED BY <1>13, <2>2, <2>3 DEF Job!Poll
<1>14. CASE Job!Abort
  <2>1. /\ jobPc = "failed" /\ ~own.terminal /\ ~own.reaped /\ jobCalls["abort"] = 0
        /\ "resume_attempted" \notin fam
    BY <1>14 DEF Job!Abort, JobIInv, CallsInv, TerminalInv
  <2>2. CASE /\ fam' = fam \cup {"abort_attempted"} /\ jobCalls' = [jobCalls EXCEPT !["abort"] = 1]
             /\ (jobProc' = jobProc \/ jobProc' = Job!Terminated({"root"}))
             /\ (own' = own \/ own' = [own EXCEPT !.hard = TRUE])
             /\ jobPc' \in {"abort", "retained"}
    <3>1. /\ jobProc' \in [Job!Procs -> Statuses]
          /\ \A p \in Job!Procs : /\ (jobProc'[p] = "none" <=> jobProc[p] = "none")
                                  /\ jobProc'[p] = "running" => jobProc[p] = "running"
                                  /\ jobProc'[p] = "suspended" => jobProc[p] = "suspended"
      BY <2>2, TerminatedProcs DEF JobIInv, Job!TypeOK, Statuses
    <3>2. UNCHANGED <<inJob, job, jobHandles, killed>>
      BY <1>14 DEF Job!Abort
    <3>3. Job!TypeOK'
      <4>1. fam' \subseteq Job!Flags
        BY <2>2 DEF JobIInv, Job!TypeOK, Job!Flags
      <4>2. own' \in [terminal : BOOLEAN, hard : BOOLEAN, log : {"open", "clean", "unclean"},
                      reaped : BOOLEAN]
        BY <2>2, Zenon DEF JobIInv, Job!TypeOK
      <4>3. jobCalls' \in [{"terminate", "abort"} -> 0..2]
        BY <2>2 DEF JobIInv, Job!TypeOK
      <4> QED BY <2>2, <3>1, <3>2, <4>1, <4>3, Zenon DEF JobIInv, Job!TypeOK, Statuses
    <3>4. RootInv'
      BY <2>2, <3>1, <3>2, RootIsAProcess DEF JobIInv, RootInv, Launching
    <3>5. ChildrenInv'
      BY <3>1, <3>2, RootIsAProcess DEF JobIInv, ChildrenInv
    <3>6. HandlesInv'
      BY <2>1, <2>2, <3>2 DEF JobIInv, HandlesInv, Launching
    <3>7. CallsInv'
      BY <2>2 DEF JobIInv, CallsInv, Launching, Early
    <3>8. TerminalInv'
      BY <2>1, <2>2 DEF JobIInv, TerminalInv, Job!TypeOK
    <3> QED BY <3>3, <3>4, <3>5, <3>6, <3>7, <3>8 DEF JobIInv
  <2>3. CASE /\ own' = [own EXCEPT !.hard = TRUE] \/ own' = own
             /\ jobPc' \in {"abort", "retained"} /\ UNCHANGED <<jobProc, fam, jobCalls>>
    <3>1. UNCHANGED <<inJob, job, jobHandles, killed>>
      BY <1>14 DEF Job!Abort
    <3>2. Job!TypeOK'
      BY <2>3, <3>1, Zenon DEF Job!TypeOK, JobIInv
    <3>3. RootInv'
      BY <2>3, <3>1 DEF JobIInv, RootInv, Launching
    <3>4. ChildrenInv'
      BY <2>3, <3>1 DEF JobIInv, ChildrenInv
    <3>5. HandlesInv'
      BY <2>1, <2>3, <3>1 DEF JobIInv, HandlesInv, Launching
    <3>6. CallsInv'
      BY <2>3 DEF JobIInv, CallsInv, Launching, Early
    <3>7. TerminalInv'
      BY <2>1, <2>3 DEF Job!TypeOK, JobIInv, TerminalInv
    <3> QED BY <3>2, <3>3, <3>4, <3>5, <3>6, <3>7 DEF JobIInv
  <2> QED BY <1>14, <2>1, <2>2, <2>3 DEF Job!Abort
<1>15. CASE Job!FinishFailedStart
  <2>1. jobPc = "abort" /\ jobPc \notin Early /\ ~own.terminal
    BY <1>15 DEF Job!FinishFailedStart, JobIInv, TerminalInv, Early, Launching
  <2>2. CASE Job!CloseFailed
    BY <2>1, <2>2, CloseStep, CloseFails, Zenon DEF Job!CloseFailed, Job!Closable
  <2>3. CASE /\ jobPc' = "retained" /\ own' = [own EXCEPT !.hard = TRUE]
             /\ UNCHANGED <<Job!osVars, jobHandles, fam, jobCalls>>
    BY <2>1, <2>3, HardStep
  <2> QED BY <1>15, <2>2, <2>3 DEF Job!FinishFailedStart
<1>16. CASE Job!Finalize
  <2>1. jobPc = "retained" /\ jobPc \notin Early /\ ~own.terminal
    BY <1>16 DEF Job!Finalize, Early, Launching
  <2>2. CASE "resume_attempted" \in fam /\ Job!CloseTerminal("retained", "retained")
    BY <2>1, <2>2, CloseStep, CloseFails, Zenon DEF Job!CloseTerminal
  <2>3. CASE Job!CloseFailed
    BY <2>1, <2>3, CloseStep, CloseFails, Zenon DEF Job!CloseFailed, Job!Closable
  <2>4. CASE /\ own' = [own EXCEPT !.hard = TRUE]
             /\ UNCHANGED <<Job!osVars, jobHandles, fam, jobCalls, jobPc>>
    BY <2>1, <2>4, HardStep
  <2> QED BY <1>16, <2>2, <2>3, <2>4 DEF Job!Finalize
<1>17. CASE Job!Release
  <2>1. Job!TypeOK'
    BY <1>17, Zenon DEF Job!Release, Job!TypeOK, JobIInv
  <2>2. RootInv'
    BY <1>17 DEF Job!Release, JobIInv, RootInv, Launching
  <2>3. ChildrenInv'
    BY <1>17 DEF Job!Release, JobIInv, ChildrenInv
  <2>4. HandlesInv'
    BY <1>17 DEF Job!Release, JobIInv, HandlesInv, Launching
  <2>5. CallsInv'
    BY <1>17 DEF Job!Release, JobIInv, CallsInv, Launching, Early
  <2>6. TerminalInv'
    BY <1>17 DEF Job!Release, Job!Reaped, Job!TypeOK, JobIInv, TerminalInv, Job!Gone, Job!Alive
  <2> QED BY <2>1, <2>2, <2>3, <2>4, <2>5, <2>6 DEF JobIInv
<1>18. CASE UNCHANGED Job!vars
  <2>1. Job!TypeOK'
    BY <1>18 DEF Job!vars, Job!TypeOK, JobIInv
  <2>2. RootInv'
    BY <1>18 DEF Job!vars, JobIInv, RootInv
  <2>3. ChildrenInv'
    BY <1>18 DEF Job!vars, JobIInv, ChildrenInv
  <2>4. HandlesInv'
    BY <1>18 DEF Job!vars, JobIInv, HandlesInv
  <2>5. CallsInv'
    BY <1>18 DEF Job!vars, JobIInv, CallsInv
  <2>6. TerminalInv'
    BY <1>18 DEF Job!vars, JobIInv, TerminalInv, Job!Gone, Job!Alive
  <2> QED BY <2>1, <2>2, <2>3, <2>4, <2>5, <2>6 DEF JobIInv
<1> QED BY <1>1, <1>2, <1>3, <1>4, <1>5, <1>6, <1>7, <1>8, <1>9, <1>10, <1>11, <1>12, <1>13, <1>14,
           <1>15, <1>16, <1>17, <1>18 DEF Job!Next, Job!Controller, Job!Idle

\* OwnedJob (the Windows owner), with any processes and any failing calls: what it started
\* runs inside the Job, is terminated once, can be reached while it lives, is dead when the
\* owner says so, and is killed by no close of a handle.
THEOREM JobStaysOwned == Job!Spec => []JobIsOwned
<1>1. Job!Init => JobIInv
  <2> SUFFICES ASSUME Job!Init PROVE JobIInv
    OBVIOUS
  <2>1. Job!TypeOK
    <3>1. jobCalls \in [{"terminate", "abort"} -> 0..2]
      BY DEF Job!Init
    <3>2. own \in [terminal : BOOLEAN, hard : BOOLEAN, log : {"open", "clean", "unclean"},
                   reaped : BOOLEAN]
      BY DEF Job!Init
    <3> QED BY <3>1, Zenon DEF Job!Init, Job!TypeOK
  <2>2. RootInv
    BY RootIsAProcess DEF Job!Init, RootInv
  <2>3. ChildrenInv
    BY RootIsAProcess DEF Job!Init, ChildrenInv
  <2>4. HandlesInv
    BY DEF Job!Init, HandlesInv, Launching
  <2>5. CallsInv
    BY DEF Job!Init, CallsInv
  <2>6. TerminalInv
    BY DEF Job!Init, TerminalInv
  <2> QED BY <2>1, <2>2, <2>3, <2>4, <2>5, <2>6 DEF JobIInv
<1>2. JobIInv => JobIsOwned
  <2> SUFFICES ASSUME JobIInv PROVE JobIsOwned
    OBVIOUS
  <2>1. Job!RunsInJob
    BY DEF JobIInv, RootInv, ChildrenInv, Job!RunsInJob, Job!Procs
  <2>2. Job!TerminalIsDead
    BY DEF JobIInv, TerminalInv, Job!TerminalIsDead
  <2>3. Job!RequestedOnce /\ Job!CloseKillsNobody
    BY DEF JobIInv, CallsInv, HandlesInv, Job!RequestedOnce, Job!CloseKillsNobody
  <2>4. Job!LiveIsHeld
    <3>1. Job!JobMembers # {} => "job" \in jobHandles
      <4> SUFFICES ASSUME NEW p \in inJob, Job!Alive(p) PROVE "job" \in jobHandles
        BY DEF Job!JobMembers
      <4>1. ~own.terminal
        BY DEF JobIInv, Job!TypeOK, TerminalInv, Job!Gone
      <4> QED BY <4>1 DEF JobIInv, HandlesInv
    <3>2. jobProc["root"] = "suspended" => "create_failed" \notin fam
      BY DEF JobIInv, RootInv
    <3>3. jobProc["root"] = "suspended" => "closed" \notin fam
      BY RootIsAProcess DEF JobIInv, TerminalInv, Job!Gone, Job!Alive
    <3> QED BY <3>1, <3>2, <3>3 DEF Job!LiveIsHeld
  <2> QED BY <2>1, <2>2, <2>3, <2>4 DEF JobIInv, JobIsOwned, Job!JobIsOwned
<1> QED BY <1>1, <1>2, JobIInvStep, PTL DEF Job!Spec
=============================================================================
