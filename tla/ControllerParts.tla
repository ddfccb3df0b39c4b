--------------------------- MODULE ControllerParts ---------------------------
(***************************************************************************)
(* Two owners of processes side by side: the fault-injection owner         *)
(* (BoundOwner) and the owner of a Windows Job, whose calls may fail.      *)
(***************************************************************************)
EXTENDS BoundOwner

CONSTANTS Children, Guests      \* what the first process of a Job may start

ASSUME ChildrenAssumption == Children \cap {"root", "thread", "job"} = {}

VARIABLES jobProc, inJob, job, jobHandles, fam, own, jobPc, jobCalls, killed

Job == INSTANCE OwnedJob WITH
    MayFail <- TRUE, proc <- jobProc, handles <- jobHandles, pc <- jobPc, calls <- jobCalls

\* OwnedJob: what the Windows owner started runs inside the Job, is terminated once, is
\* reachable while it lives, dead when the owner says so, and killed by no close.
JobIsOwned == Job!JobIsOwned
=============================================================================
