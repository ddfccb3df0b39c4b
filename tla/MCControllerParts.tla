-------------------------- MODULE MCControllerParts --------------------------
(***************************************************************************)
(* The parts of a controller that run beside supervise, for TLC: the       *)
(* fault-injection owner, the owner of a Windows Job, the pipe log, the    *)
(* reader of commands and the judgement of an answer.  They share nothing, *)
(* so a behaviour runs one of them, and the others rest where they start.  *)
(***************************************************************************)
EXTENDS ControllerParts, LogThread, InputThread

VARIABLES
    part,                       \* the part that runs
    command, answer, outcome    \* VectorAdd

\* Without failing calls of the system.
CalmJob == INSTANCE OwnedJob WITH
    MayFail <- FALSE, proc <- jobProc, handles <- jobHandles, pc <- jobPc, calls <- jobCalls
Vadd == INSTANCE VectorAdd WITH Bits <- 2, Top <- 4, MaxN <- 1

jobVars == <<jobProc, inJob, job, jobHandles, fam, own, jobPc, jobCalls, killed>>
logVars == <<written, pipe, child, parent, file, logReader, data, log, logTodo, receipt>>
inputVars == <<typed, closed, line, off, reader, held, queue, taken, phase>>
vaddVars == <<command, answer, outcome>>

PartsInit ==
    /\ part \in {"owner", "job", "calm job", "log", "input", "long input", "vadd"}
    /\ Init /\ Job!Init /\ Log!Init /\ Input!Init /\ Vadd!Init
    /\ part # "owner" => proc = [m \in Members |-> "live"] /\ ~stranger
    /\ part # "vadd" => command = CHOOSE c \in Vadd!Commands : TRUE

\* The operator types up to n lines of up to len characters.
Lines(n, len) == Len(typed') <= n /\ \A i \in DOMAIN typed' : typed'[i].len <= len

\* An owner, an input and a judgement come to an end; the others never get stuck.
PartsNext ==
    /\ UNCHANGED part
    /\ \/ part = "owner" /\ Next /\ UNCHANGED <<jobVars, logVars, inputVars, vaddVars>>
       \/ part = "calm job" /\ CalmJob!Next /\ UNCHANGED <<vars, logVars, inputVars, vaddVars>>
       \/ part = "job" /\ Job!Next /\ UNCHANGED <<vars, logVars, inputVars, vaddVars>>
       \/ part = "log" /\ Log!Next /\ UNCHANGED <<vars, jobVars, inputVars, vaddVars>>
       \/ /\ \/ part = "input" /\ Input!Next /\ Lines(3, 2)
             \/ part = "long input" /\ Input!Next /\ Lines(2, 5)
          /\ UNCHANGED <<vars, jobVars, logVars, vaddVars>>
       \/ part = "vadd" /\ Vadd!Next /\ UNCHANGED <<vars, jobVars, logVars, inputVars>>
       \/ /\ part \in {"owner", "input", "long input", "vadd"}
          /\ UNCHANGED <<vars, jobVars, logVars, inputVars, vaddVars>>

\* The fairness of each part, while it runs.
PartsFairness ==
    /\ WF_vars(part = "owner" /\ Owner) /\ WF_vars(part = "owner" /\ Late)
    /\ WF_jobVars(part = "calm job" /\ CalmJob!Controller /\ jobPc # "run")
    /\ \A p \in Job!Procs :
           WF_jobVars(part = "calm job" /\ jobProc[p] = "dying" /\ CalmJob!Exit(p))
    /\ WF_logVars(part = "log" /\ Log!Reader) /\ WF_logVars(part = "log" /\ Log!Controller)
    /\ WF_inputVars(part = "input" /\ Input!Reader)
    /\ WF_inputVars(part = "input" /\ Input!Take)
    /\ WF_inputVars(part = "input" /\ Input!Proceed)
    /\ WF_inputVars(part = "input" /\ Input!TakeRetained)

PartsSpec ==
    /\ PartsInit /\ [][PartsNext]_<<part, vars, jobVars, logVars, inputVars, vaddVars>>
    /\ PartsFairness

-----------------------------------------------------------------------------
\* VectorAdd: an answer is SUCCESS exactly when an adder of that width would have
\* produced it, and FAILED only if it is an answer to this command.
AnswerIsJudged == Vadd!AnswerIsJudged

\* What must end ends, without failing calls: the cleanup and the observations of the
\* bound owner; a session of the Job owner that was given up, late deaths included; the
\* writes of processes to the log, and the controller's wait for it; and a run whose
\* input is closed behind a backlog of commands.
ControllerSettles ==
    /\ part = "owner" => Settles
    /\ part = "calm job" => CalmJob!SessionEnds
    /\ part = "log" => Log!PipeDrains /\ Log!LogIsReleased
    /\ part = "input" => Input!EofEndsRun
=============================================================================
