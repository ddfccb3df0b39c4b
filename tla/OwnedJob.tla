------------------------------ MODULE OwnedJob ------------------------------
(* The Windows owner: OwnedFamily and finish_test_job (vendor/owned_job.py)   *)
(* with the methods of WindowsOwner that use them (native.py). The controller *)
(* creates a Job that dies with its last handle, a suspended root process,    *)
(* puts the one into the other and resumes it; any of the calls may fail, and *)
(* the controller cleans up through the handles it got, at most once, and     *)
(* keeps them where the outcome is unknown. Processes start, exit and die on  *)
(* their own between any two calls.                                           *)
EXTENDS Integers

CONSTANTS
    Children,       \* what the root may start; they are in its Job
    Guests,         \* the children that are crosvm
    MayFail         \* calls may fail

Procs == Children \cup {"root"}

VARIABLES
    proc,       \* "none", "suspended", "running", "dying" or "exited"
    inJob,      \* the processes assigned to the Job
    job,        \* the Job object: "none", "open", "gone"
    handles,    \* what OwnedFamily holds: "root", "thread", "job", and members
    fam,        \* the flags of OwnedFamily
    own,        \* WindowsOwner: terminal, hard (cleanup_hard_error), log
    pc,         \* where the controller is
    calls,      \* how often each irrevocable call has been made
    killed      \* some CloseHandle killed a live process

vars == <<proc, inJob, job, handles, fam, own, pc, calls, killed>>
osVars == <<proc, inJob, job, killed>>

Flags == {"create_attempted", "create_failed", "assigned", "resume_attempted",
          "abort_attempted", "job_terminate_attempted", "terminal_close_attempted",
          "closed", "inherited", "observed_error", "forced_cleanup_requested"}

TypeOK ==
    /\ proc \in [Procs -> {"none", "suspended", "running", "dying", "exited"}]
    /\ inJob \subseteq Procs /\ job \in {"none", "open", "gone"}
    /\ handles \subseteq Procs \cup {"thread", "job"}
    /\ fam \subseteq Flags
    /\ own \in [terminal : BOOLEAN, hard : BOOLEAN, log : {"open", "clean", "unclean"},
                reaped : BOOLEAN]
    /\ pc \in {"job", "create", "identify", "assign", "resume", "stdio", "run",
               "failed", "abort", "poll", "retained", "released"}
    /\ calls \in [{"terminate", "abort"} -> 0..2]
    /\ killed \in BOOLEAN

Init ==
    /\ proc = [p \in Procs |-> "none"]
    /\ inJob = {} /\ job = "none" /\ handles = {} /\ fam = {}
    /\ own = [terminal |-> FALSE, hard |-> FALSE, log |-> "open", reaped |-> FALSE]
    /\ pc = "job"
    /\ calls = [c \in {"terminate", "abort"} |-> 0]
    /\ killed = FALSE

Alive(p) == proc[p] \in {"suspended", "running", "dying"}
JobMembers == {p \in inJob : Alive(p)}
Gone == \A p \in Procs : ~Alive(p)

-----------------------------------------------------------------------------
(* The operating system and the launched processes.                          *)

Spawn(p, c) ==
    /\ proc[p] = "running" /\ c \in Children /\ proc[c] = "none"
    /\ proc' = [proc EXCEPT ![c] = "running"]
    /\ inJob' = IF p \in inJob THEN inJob \cup {c} ELSE inJob
    /\ UNCHANGED <<job, handles, fam, own, pc, calls, killed>>

Exit(p) ==
    /\ proc[p] \in {"running", "dying"}
    /\ proc' = [proc EXCEPT ![p] = "exited"]
    /\ UNCHANGED <<inJob, job, handles, fam, own, pc, calls, killed>>

\* A process that has been terminated starts nothing more.
Terminated(ps) == [p \in Procs |-> IF p \in ps /\ Alive(p) THEN "dying" ELSE proc[p]]

-----------------------------------------------------------------------------
(* spawn_reviewed. An exception leads to "stdio": the finally clause.        *)

Raise == pc' = "stdio"

CreateJob ==
    /\ pc = "job"
    /\ \/ job' = "open" /\ handles' = {"job"} /\ pc' = "create"
       \/ MayFail /\ Raise /\ UNCHANGED <<job, handles>>
       \/ MayFail /\ job' = "open" /\ handles' = {"job"} /\ Raise
    /\ UNCHANGED <<proc, inJob, fam, own, calls, killed>>

\* CreateProcess fails, succeeds, or an interrupt takes its handles away.
CreateProcess ==
    /\ pc = "create"
    /\ \/ /\ proc' = [proc EXCEPT !["root"] = "suspended"]
          /\ handles' = handles \cup {"root", "thread"}
          /\ fam' = fam \cup {"create_attempted"} /\ pc' = "identify"
       \/ /\ MayFail
          /\ fam' = fam \cup {"create_attempted", "create_failed"} /\ Raise
          /\ UNCHANGED <<proc, handles>>
       \/ /\ MayFail
          /\ proc' \in {proc, [proc EXCEPT !["root"] = "suspended"]}
          /\ fam' = fam \cup {"create_attempted"} /\ Raise
          /\ UNCHANGED handles
    /\ UNCHANGED <<inJob, job, own, calls, killed>>

Identify ==
    /\ pc = "identify"
    /\ pc' \in {"assign"} \cup IF MayFail THEN {"stdio"} ELSE {}
    /\ UNCHANGED <<proc, inJob, job, handles, fam, own, calls, killed>>

\* AssignProcessToJobObject and _require_member: "no unjobbed fallback".
Assign ==
    /\ pc = "assign"
    /\ \/ inJob' = inJob \cup {"root"} /\ fam' = fam \cup {"assigned"} /\ pc' = "resume"
       \/ MayFail /\ Raise /\ UNCHANGED <<inJob, fam>>
       \/ MayFail /\ inJob' = inJob \cup {"root"} /\ fam' = fam \cup {"assigned"} /\ Raise
    /\ UNCHANGED <<proc, job, handles, own, calls, killed>>

\* ResumeThread; an unexpected count leaves the root suspended or running.
Resume ==
    /\ pc = "resume"
    /\ fam' = fam \cup {"resume_attempted"}
    /\ \/ proc' = [proc EXCEPT !["root"] = "running"]
       \/ MayFail /\ UNCHANGED proc
    /\ Raise
    /\ UNCHANGED <<inJob, job, handles, own, calls, killed>>

Launched == "resume_attempted" \in fam /\ proc["root"] # "suspended"

\* The finally clause: the duplicated standard handles are closed.
CloseStdio ==
    /\ pc = "stdio"
    /\ \/ /\ pc' \in (IF Launched THEN {"run"} ELSE {}) \cup (IF MayFail \/ ~Launched THEN {"failed"} ELSE {})
          /\ UNCHANGED fam
       \/ MayFail /\ fam' = fam \cup {"inherited"} /\ pc' = "failed"
    /\ UNCHANGED <<proc, inJob, job, handles, own, calls, killed>>

-----------------------------------------------------------------------------
(* The running session: observe, and the two ways into finish_test_job.      *)

\* observe_members opens a handle for every member it has not got; a failure is
\* remembered, and stays a hard error.
Observe ==
    /\ pc = "run"
    /\ \/ handles' = handles \cup JobMembers /\ UNCHANGED <<fam, own, pc>>
       \/ /\ MayFail
          /\ fam' = fam \cup {"observed_error"} /\ own' = [own EXCEPT !.hard = TRUE]
          /\ pc' = "failed" /\ UNCHANGED handles
    /\ UNCHANGED <<proc, inJob, job, calls, killed>>

\* supervise gives the session up.
GiveUp ==
    /\ pc = "run" /\ pc' = "failed"
    /\ UNCHANGED <<proc, inJob, job, handles, fam, own, calls, killed>>

\* Where the controller is when the Job's end is not confirmed: supervise calls
\* failure_cleanup after cleanup_services, and retains the owner after that.
Unconfirmed(f) == IF "forced_cleanup_requested" \in f THEN "retained" ELSE "failed"

\* TerminateJobObject, once: a call that fails may have had its effect.
TerminateJob(flags) ==
    /\ fam' = fam \cup {"job_terminate_attempted"} \cup flags
    /\ calls' = [calls EXCEPT !["terminate"] = IF @ < 2 THEN @ + 1 ELSE @]
    /\ \/ proc' = Terminated(inJob) /\ pc' = "poll" /\ UNCHANGED own
       \/ /\ MayFail /\ proc' \in {Terminated(inJob), proc}
          /\ own' = [own EXCEPT !.hard = TRUE] /\ pc' = Unconfirmed(fam')
    /\ UNCHANGED <<inJob, job, handles, killed>>

\* cleanup_services: guest_done (Observe has got the Guests' handles and they
\* have exited), and the root has exited by itself.
CleanupServices ==
    /\ pc = "run" /\ proc["root"] = "exited"
    /\ Guests \subseteq handles /\ \A g \in Guests : proc[g] = "exited"
    /\ TerminateJob({})

MayTerminate == "job_terminate_attempted" \notin fam

\* _failure_cleanup after Resume: a fault test that does not authorise the cleanup
\* raises before it and keeps the owner.
FailureCleanup ==
    /\ pc = "failed" /\ "resume_attempted" \in fam
    /\ \/ MayTerminate /\ TerminateJob({"forced_cleanup_requested"})
       \/ /\ MayTerminate /\ MayFail
          /\ own' = [own EXCEPT !.hard = TRUE] /\ pc' = "retained"
          /\ UNCHANGED <<osVars, handles, fam, calls>>
       \/ ~MayTerminate /\ pc' = "retained" /\ UNCHANGED <<osVars, handles, fam, own, calls>>

\* Mutant: the Job's list of processes is not looked at.
EmptyByHandles == \A p \in handles \cap Procs : ~Alive(p)

\* The Job is empty and every handle held is of a process that has exited.
\* Once true this stays true, for nobody is left to start a process: the several
\* queries are one step here.
Empty == JobMembers = {} /\ \A p \in handles \cap Procs : ~Alive(p)

\* The handles are closed one by one, the processes' before the thread's and the
\* Job's; closing the Job's kills what is in it. The first failure is the last call.
CloseAll(ok) ==
    /\ handles' \in IF ok THEN {{}}
                    ELSE {handles \ ps : ps \in (SUBSET (handles \cap Procs)) \cup {Procs \cup {"thread"}}}
    /\ fam' = fam \cup {"terminal_close_attempted"} \cup IF ok THEN {"closed"} ELSE {}
    /\ job' = IF ok /\ job = "open" THEN "gone" ELSE job
    /\ proc' = IF ok THEN Terminated(inJob) ELSE proc
    /\ killed' = (killed \/ (ok /\ JobMembers # {}))
    /\ UNCHANGED <<inJob, calls>>

\* finish_logs: PipeLog's verdict, whatever it is.
Logged(o) == {[o EXCEPT !.terminal = TRUE, !.log = l] : l \in {"clean", "unclean"}}

\* close_terminal, then the owner is terminal.
CloseTerminal(confirmed, unconfirmed) ==
    /\ "terminal_close_attempted" \notin fam /\ "inherited" \notin fam /\ Empty
    /\ \/ CloseAll(TRUE) /\ own' \in Logged(own) /\ pc' = confirmed
       \/ MayFail /\ CloseAll(FALSE) /\ own' = [own EXCEPT !.hard = TRUE] /\ pc' = unconfirmed

\* One round of finish_test_job's loop, and its deadline.
Poll ==
    /\ pc = "poll"
    /\ \/ CloseTerminal("retained", Unconfirmed(fam))
       \/ /\ Empty /\ "inherited" \in fam      \* TERMINATED_CLOSE_FAILED
          /\ own' = [own EXCEPT !.hard = TRUE] /\ pc' = Unconfirmed(fam)
          /\ UNCHANGED <<osVars, handles, fam, calls>>
       \/ /\ pc' = Unconfirmed(fam)                  \* CLEANUP_UNKNOWN_DEADLINE
          /\ UNCHANGED <<osVars, handles, fam, own, calls>>
       \/ /\ MayFail                           \* CLEANUP_UNKNOWN_QUERY, _MEMBER
          /\ own' = [own EXCEPT !.hard = TRUE] /\ pc' = Unconfirmed(fam)
          /\ UNCHANGED <<osVars, handles, fam, calls>>

-----------------------------------------------------------------------------
(* finish_failed_start, abort_created_suspended and close_failed_terminal.   *)

\* Nothing was created: there is no root to abort.
NoRoot == "root" \notin handles

Abort ==
    /\ pc = "failed" /\ "resume_attempted" \notin fam
    /\ \/ /\ ~NoRoot /\ proc["root"] = "suspended"
          /\ fam' = fam \cup {"abort_attempted"}
          /\ calls' = [calls EXCEPT !["abort"] = IF @ < 2 THEN @ + 1 ELSE @]
          /\ \/ proc' = Terminated({"root"}) /\ pc' = "abort" /\ UNCHANGED own
             \/ MayFail /\ own' = [own EXCEPT !.hard = TRUE] /\ pc' = "retained"
                /\ proc' \in {proc, Terminated({"root"})}
       \/ /\ NoRoot
          /\ pc' = "abort" /\ UNCHANGED <<proc, fam, calls, own>>
       \/ /\ MayFail /\ ~NoRoot                 \* the wait before it fails
          /\ own' = [own EXCEPT !.hard = TRUE] /\ pc' = "retained"
          /\ UNCHANGED <<proc, fam, calls>>
    /\ UNCHANGED <<inJob, job, handles, killed>>

\* "creation outcome unknown without handle; retain".
CreationKnown ==
    "create_attempted" \in fam /\ NoRoot => "create_failed" \in fam

Closable == "inherited" \notin fam /\ CreationKnown /\ Empty

CloseFailed ==
    /\ "terminal_close_attempted" \notin fam /\ Closable
    /\ \/ CloseAll(TRUE) /\ own' \in Logged(own) /\ pc' = "retained"
       \/ MayFail /\ CloseAll(FALSE) /\ own' = [own EXCEPT !.hard = TRUE] /\ pc' = "retained"

FinishFailedStart ==
    /\ pc = "abort"
    /\ \/ CloseFailed
       \/ /\ MayFail \/ ~Closable
          /\ pc' = "retained" /\ own' = [own EXCEPT !.hard = TRUE]
          /\ UNCHANGED <<osVars, handles, fam, calls>>

-----------------------------------------------------------------------------
(* finalize_if_terminal and controller_release_ready, while retained.        *)

Closing == "terminal_close_attempted" \in fam /\ "closed" \notin fam

\* Once a round; an exception is remembered as a hard error and the next round
\* tries again. A failed start is finished only if its root was aborted or never
\* was; a root that is not dead yet is such an exception, a live Job is not.
Finalize ==
    /\ pc = "retained" /\ ~own.terminal /\ ~Closing
    /\ \/ "resume_attempted" \in fam /\ CloseTerminal("retained", "retained")
       \/ /\ "resume_attempted" \notin fam /\ ("abort_attempted" \in fam \/ NoRoot)
          /\ CloseFailed
       \/ /\ \/ MayFail
             \/ "resume_attempted" \in fam /\ Empty /\ "inherited" \in fam
             \/ "resume_attempted" \notin fam /\ ("abort_attempted" \in fam \/ NoRoot) /\ ~Closable
          /\ own' = [own EXCEPT !.hard = TRUE]
          /\ UNCHANGED <<osVars, handles, fam, calls, pc>>

\* terminal_resource_receipt and _failure_cleanup: what may be called REAPED.
Reaped == own.terminal /\ "closed" \in fam /\ own.log = "clean" /\ ~own.hard

\* controller_release_ready: the log's reader has ended, cleanly or not. The
\* snapshot of the storage that goes with REAPED may fail.
Release ==
    /\ pc = "retained" /\ own.terminal
    /\ \E snapshot \in BOOLEAN : own' = [own EXCEPT !.reaped = Reaped /\ snapshot]
    /\ pc' = "released"
    /\ UNCHANGED <<osVars, handles, fam, calls>>

\* Nothing to do: the retention loop goes round, or the controller has left.
Idle == pc \in {"retained", "released"} /\ UNCHANGED vars

Controller ==
    \/ CreateJob \/ CreateProcess \/ Identify \/ Assign \/ Resume \/ CloseStdio
    \/ Observe \/ GiveUp \/ CleanupServices \/ FailureCleanup \/ Poll
    \/ Abort \/ FinishFailedStart \/ Finalize \/ Release

Next ==
    \/ Controller \/ Idle
    \/ \E p \in Procs, c \in Children : Spawn(p, c)
    \/ \E p \in Procs : Exit(p)

Spec == Init /\ [][Next]_vars

\* The controller goes on, and what has been terminated exits.
Fairness ==
    /\ WF_vars(Controller /\ pc # "run")
    /\ \A p \in Procs : WF_vars(proc[p] = "dying" /\ Exit(p))
FairSpec == Spec /\ Fairness

-----------------------------------------------------------------------------
\* The root never runs outside the Job, so whatever it starts is in it too and
\* one termination reaches all ("no unjobbed fallback").
RunsInJob ==
    \A p \in Procs : proc[p] = "running" => p \in inJob

\* A terminal owner owns nothing that lives, whichever call failed on the way;
\* and REAPED is said only of a session without a single unexplained failure.
TerminalIsDead ==
    /\ own.terminal => Gone /\ handles = {} /\ "closed" \in fam
    /\ own.reaped => Gone /\ ~own.hard /\ "observed_error" \notin fam

\* Termination is requested at most once each way: a request with an unknown
\* outcome is never repeated.
RequestedOnce ==
    calls["terminate"] <= 1 /\ calls["abort"] <= 1

\* The Job dies with its last handle: closing that handle never kills anyone,
\* it is only done to a Job that is empty.
CloseKillsNobody == ~killed

\* A process that may live is reachable through a handle: a root that was
\* created is held, or its creation is on record as unknown and nothing closes.
LiveIsHeld ==
    /\ JobMembers # {} => "job" \in handles
    /\ proc["root"] = "suspended" /\ "root" \notin inJob =>
           "root" \in handles \/ ("create_failed" \notin fam /\ "closed" \notin fam)

\* A session without failed calls ends: once the controller has given up, the
\* processes die, the handles are closed and the controller is released.
SessionEnds ==
    pc = "failed" ~> pc = "released"

\* The Job owner keeps hold of what it started: it runs inside the Job, may be
\* terminated once, is reachable while it lives, is dead when the owner says so, and
\* no close kills it.
JobIsOwned ==
    TypeOK /\ RunsInJob /\ TerminalIsDead /\ RequestedOnce /\ CloseKillsNobody /\ LiveIsHeld
=============================================================================
