------------------------------ MODULE Supervisor ------------------------------
(***************************************************************************)
(* One attempt of one instance: lifecycle.supervise driving a PosixOwner,  *)
(* and the retention loop of runtime.run that follows a failure.           *)
(*                                                                         *)
(* The controller is one sequential thread; around it run the launcher it  *)
(* started, the VM service (virtmgr) and the Guest (crosvm) of the same    *)
(* session, and the operator's standard input.  Every wait may end in a    *)
(* timeout, every observation and every note may raise.                    *)
(*                                                                         *)
(* The fault-injection profile (request_fault_test) is not in this module. *)
(***************************************************************************)
EXTENDS Naturals

CONSTANT MaxRequest     \* bound on the request ids the operator uses

ASSUME MaxRequestAssumption == MaxRequest \in Nat

VARIABLES
    \* the session, outside the controller
    launcher,           \* the launcher child: its life and exit status
    proc,               \* proc[p]: what the PID of p stands for
    ready,              \* the trace says that the payload is ready
    wire,               \* the message sent to the payload, if any
    stopServed,         \* the payload has carried out STOP
    clean,              \* exit 0 and SHUTDOWN are recorded for the Guest
    \* the owner
    started, owned, sentStop, transportUnknown,
    fd,                 \* the process that the service's handle pins, if it is open
    termed, signalUnknown, closeUnknown, logClosed, ownerTerminal,
    \* supervise and run
    pc, ctx, kind, state, resource, lastRequest, task, bye, deadline, eof,
    \* history
    sent,               \* messages sent to the payload
    stops,              \* STOP messages among them
    unanswered,         \* a message was sent and its complete reply never read
    answered            \* the last request whose complete reply was read

session == <<launcher, proc, ready, wire, stopServed, clean>>
handles == <<fd, termed, signalUnknown, closeUnknown, logClosed, ownerTerminal>>
owner == <<started, owned, sentStop, transportUnknown, handles>>
result == <<state, resource, lastRequest, task, bye>>
input == <<deadline, eof>>
history == <<sent, stops, unanswered, answered>>
vars == <<session, owner, result, input, history, pc, ctx, kind>>

Members == {"virtmgr", "crosvm"}
Exited == {"zombie", "gone", "reused"}

\* The values the state of the attempt and of its owner may take.
TypeOK ==
    /\ launcher \in {"none", "live", "ok", "failed"}
    /\ proc \in [Members -> {"none", "live"} \cup Exited]
    /\ ready \in BOOLEAN /\ stopServed \in BOOLEAN /\ clean \in BOOLEAN
    /\ wire \in {"idle", "sent", "replied", "lost"}
    /\ started \in BOOLEAN /\ owned \subseteq Members
    /\ sentStop \in BOOLEAN /\ transportUnknown \in BOOLEAN
    /\ fd \in {"none", "service", "stranger", "strangerGone"} /\ termed \in BOOLEAN
    /\ signalUnknown \in BOOLEAN /\ closeUnknown \in BOOLEAN
    /\ logClosed \in BOOLEAN /\ ownerTerminal \in BOOLEAN
    /\ pc \in {"start", "ready", "rq", "await", "running", "loop", "stopping", "waitguest",
               "guestexit", "cleanup", "csopen", "csterm", "cssignal", "cswait", "csfinish",
               "snapshot", "except", "finalize", "report", "returned", "command", "nap", "leave", "exit"}
    /\ ctx \in {"run", "fail", "retain"}
    /\ kind \in {"none", "INFO", "REQ", "STOP"}
    /\ state \in {"STARTING", "RUNNING", "STOPPING", "STOPPED", "UNKNOWN"}
    /\ resource \in {"UNKNOWN", "LIVE", "REAPED"}
    /\ lastRequest \in 0 .. MaxRequest /\ answered \in 0 .. MaxRequest
    /\ task \in {"NOT_REQUESTED", "UNKNOWN", "SUCCESS", "FAILED"}
    /\ bye \in BOOLEAN /\ deadline \in BOOLEAN /\ eof \in BOOLEAN
    /\ sent \in Nat /\ stops \in Nat /\ unanswered \in BOOLEAN

Init ==
    /\ launcher = "none" /\ proc = [p \in Members |-> "none"]
    /\ ready = FALSE /\ wire = "idle" /\ stopServed = FALSE /\ clean = FALSE
    /\ started = FALSE /\ owned = {} /\ sentStop = FALSE /\ transportUnknown = FALSE
    /\ fd = "none" /\ termed = FALSE /\ signalUnknown = FALSE /\ closeUnknown = FALSE
    /\ logClosed = FALSE /\ ownerTerminal = FALSE
    /\ pc = "start" /\ ctx = "run" /\ kind = "none"
    /\ state = "STARTING" /\ resource = "UNKNOWN" /\ lastRequest = 0
    /\ task = "NOT_REQUESTED" /\ bye = FALSE /\ deadline = FALSE /\ eof = FALSE
    /\ sent = 0 /\ stops = 0 /\ unanswered = FALSE /\ answered = 0

-----------------------------------------------------------------------------
(* Observation *)

\* PosixOwner.observe: a live service of this session, and a live Guest whose
\* actual parent is that owned service, are recorded once and never dropped.
Observed ==
    owned \cup (IF proc["virtmgr"] = "live"
                THEN {p \in Members : proc[p] = "live"} ELSE {})

\* guest_done raises when the launcher failed or the Guest's PID is another
\* process by now; an exit in progress still counts as alive.
GuestLookupRaises ==
    launcher = "failed" \/ ("crosvm" \in Observed /\ proc["crosvm"] = "reused")
GuestDone ==
    ~GuestLookupRaises /\ "crosvm" \in Observed /\ proc["crosvm"] = "gone"
GuestAlive == ~GuestLookupRaises /\ ~GuestDone

SessionEmpty ==
    /\ launcher \in {"ok", "failed"}
    /\ \A p \in Members : proc[p] \in {"none", "gone", "reused"}

\* Where an exception goes: to supervise's failure path, past its guarded
\* cleanup, or to the handler of the retention loop.
Raised == CASE ctx = "run" -> "except" [] ctx = "fail" -> "report" [] ctx = "retain" -> "nap"

-----------------------------------------------------------------------------
(* lifecycle.supervise *)

\* owner.start: the CID is taken, the log or the launcher cannot be created, or
\* the launcher runs in a session of its own; an interrupt may come before the
\* owner notes that it has started.
StartOwner ==
    /\ pc = "start"
    /\ \/ launcher' = "live" /\ started' = TRUE /\ pc' \in {"ready", "except"}
       \/ launcher' = "live" /\ pc' = "except" /\ UNCHANGED started
       \/ pc' = "except" /\ UNCHANGED <<launcher, started>>
    /\ UNCHANGED <<proc, ready, wire, stopServed, clean, owned, sentStop, transportUnknown,
                   handles, result, input, history, ctx, kind>>

\* Mutant: the startup loop has no deadline.
ReadyPollForever ==
    /\ pc = "ready"
    /\ owned' = Observed
    /\ \/ launcher = "failed" /\ pc' = "except" /\ UNCHANGED kind
       \/ /\ launcher # "failed" /\ "crosvm" \in Observed /\ ready
          /\ pc' \in {"rq", "except"} /\ kind' = "INFO"
    /\ UNCHANGED <<session, started, sentStop, transportUnknown, handles, result, input,
                   history, ctx>>

\* owner.ready up to its INFO request; the identity may fail to bind.
ReadyPoll ==
    /\ pc = "ready"
    /\ owned' = Observed
    /\ \/ launcher = "failed" /\ pc' = "except" /\ UNCHANGED kind
       \/ /\ launcher # "failed" /\ "crosvm" \in Observed /\ ready
          /\ pc' \in {"rq", "except"} /\ kind' = "INFO"
       \/ /\ launcher # "failed" /\ ~("crosvm" \in Observed /\ ready)
          /\ pc' = IF deadline THEN "except" ELSE "ready"
          /\ UNCHANGED kind
    /\ UNCHANGED <<session, started, sentStop, transportUnknown, handles, result, input,
                   history, ctx>>

Running ==
    /\ pc = "running"
    /\ state' = "RUNNING" /\ resource' = "LIVE"
    /\ pc' \in {"loop", "except"}
    /\ UNCHANGED <<session, owner, lastRequest, task, bye, input, history, ctx, kind>>

\* The Guest ended on its own, or cannot be looked up.
LoopRaises ==
    /\ pc = "loop" /\ ~GuestAlive
    /\ owned' = Observed
    /\ pc' = "except"
    /\ UNCHANGED <<session, started, sentStop, transportUnknown, handles, result, input,
                   history, ctx, kind>>

\* The deadline comes before any queued command.
LoopDeadline ==
    /\ pc = "loop" /\ GuestAlive /\ deadline
    /\ owned' = Observed
    /\ pc' = "stopping"
    /\ UNCHANGED <<session, started, sentStop, transportUnknown, handles, result, input,
                   history, ctx, kind>>

\* stop, or the end of the input.
LoopStop ==
    /\ pc = "loop" /\ GuestAlive /\ ~deadline /\ ~eof
    /\ owned' = Observed
    /\ eof' \in BOOLEAN /\ pc' = "stopping"
    /\ UNCHANGED <<session, started, sentStop, transportUnknown, handles, result, deadline,
                   history, ctx, kind>>

\* status and refused commands only write a note.
LoopNotes ==
    /\ pc = "loop" /\ GuestAlive /\ ~deadline /\ ~eof
    /\ owned' = Observed
    /\ pc' \in {"loop", "except"}
    /\ UNCHANGED <<session, started, sentStop, transportUnknown, handles, result, input,
                   history, ctx, kind>>

InputFails ==
    /\ pc = "loop" /\ GuestAlive /\ ~deadline /\ ~eof
    /\ owned' = Observed
    /\ eof' = TRUE /\ pc' = "except"
    /\ UNCHANGED <<session, started, sentStop, transportUnknown, handles, result, deadline,
                   history, ctx, kind>>

\* Mutant: the task result of the previous request stays until the next answer.
LoopRequestKeepsTask(n) ==
    /\ pc = "loop" /\ GuestAlive /\ ~deadline /\ ~eof
    /\ n > lastRequest
    /\ owned' = Observed
    /\ lastRequest' = n /\ kind' = "REQ"
    /\ pc' = "rq" /\ transportUnknown' = FALSE
    /\ UNCHANGED <<session, started, sentStop, handles, state, resource, task, bye, input,
                   history, ctx>>

\* A request with a fresh id.  Its outcome is unknown from the moment it is
\* accepted until its whole response has been read and noted.
LoopRequest(n) ==
    /\ pc = "loop" /\ GuestAlive /\ ~deadline /\ ~eof
    /\ n > lastRequest
    /\ owned' = Observed
    /\ lastRequest' = n /\ task' = "UNKNOWN" /\ kind' = "REQ"
    /\ \/ pc' = "rq" /\ transportUnknown' = FALSE
       \/ pc' = "except" /\ transportUnknown' = TRUE
    /\ UNCHANGED <<session, started, sentStop, handles, state, resource, bye, input,
                   history, ctx>>

Stopping ==
    /\ pc = "stopping"
    /\ state' = "STOPPING"
    /\ \/ ~sentStop /\ sentStop' = TRUE /\ kind' = "STOP" /\ pc' = "rq"
       \/ pc' = "except" /\ UNCHANGED <<sentStop, kind>>
    /\ UNCHANGED <<session, started, owned, transportUnknown, handles, resource, lastRequest,
                   task, bye, input, history, ctx>>

-----------------------------------------------------------------------------
(* NativeOwner.request *)

\* Nothing was sent: an earlier outcome is unknown, no Guest is owned, the
\* connection is refused.  supervise marks its own requests unknown all the same.
RequestRefused ==
    /\ pc = "rq"
    /\ owned' = IF transportUnknown THEN owned ELSE Observed
    /\ transportUnknown' = (transportUnknown \/ kind = "REQ")
    /\ pc' = Raised
    /\ UNCHANGED <<session, started, sentStop, handles, result, input, history, ctx, kind>>

\* Mutant: transport_unknown is left to the caller.
SendKnown ==
    /\ pc = "rq" /\ ~transportUnknown
    /\ launcher # "failed" /\ "crosvm" \in Observed
    /\ owned' = Observed
    /\ wire' \in IF proc["crosvm"] = "live" THEN {"sent", "lost"} ELSE {"lost"}
    /\ sent' = sent + 1 /\ unanswered' = TRUE
    /\ stops' = IF kind = "STOP" THEN stops + 1 ELSE stops
    /\ pc' = "await"
    /\ UNCHANGED <<launcher, proc, ready, stopServed, clean, started, sentStop, handles,
                   transportUnknown, result, input, answered, ctx, kind>>

\* transport_unknown is set before the first byte is sent.
Send ==
    /\ pc = "rq" /\ ~transportUnknown
    /\ launcher # "failed" /\ "crosvm" \in Observed
    /\ owned' = Observed
    /\ transportUnknown' = TRUE
    /\ wire' \in IF proc["crosvm"] = "live" THEN {"sent", "lost"} ELSE {"lost"}
    /\ sent' = sent + 1 /\ unanswered' = TRUE
    /\ stops' = IF kind = "STOP" THEN stops + 1 ELSE stops
    /\ pc' = "await"
    /\ UNCHANGED <<launcher, proc, ready, stopServed, clean, started, sentStop, handles,
                   result, input, answered, ctx, kind>>

\* VADD without a GPU is answered locally.
LocalReply ==
    /\ pc = "rq" /\ kind = "REQ" /\ ~transportUnknown
    /\ answered' = lastRequest /\ task' = "FAILED"
    /\ \/ pc' = "loop" /\ UNCHANGED transportUnknown
       \/ pc' = "except" /\ transportUnknown' = TRUE
    /\ UNCHANGED <<session, started, owned, sentStop, handles, state, resource, lastRequest,
                   bye, input, sent, stops, unanswered, ctx, kind>>

\* Deadline, end of stream, too long, malformed: the outcome stays unknown.
ReceiveFails ==
    /\ pc = "await"
    /\ pc' = Raised
    /\ UNCHANGED <<session, owner, result, input, history, ctx, kind>>

\* One complete line.
Receive ==
    /\ pc = "await" /\ wire = "replied"
    /\ wire' = "idle" /\ unanswered' = FALSE

ReceiveInfo ==
    /\ Receive /\ kind = "INFO"
    /\ transportUnknown' = FALSE
    /\ pc' \in {"running", "except"}
    /\ UNCHANGED <<launcher, proc, ready, stopServed, clean, started, owned, sentStop,
                   handles, result, input, sent, stops, answered, ctx, kind>>

\* A response that cannot be validated raises, and so may the note that
\* reports a validated one.
ReceiveResponse ==
    /\ Receive /\ kind = "REQ"
    /\ answered' = lastRequest
    /\ task' \in {"SUCCESS", "FAILED", "UNKNOWN"}
    /\ \/ pc' = "loop" /\ transportUnknown' = FALSE
       \/ pc' = "except" /\ transportUnknown' = TRUE
    /\ UNCHANGED <<launcher, proc, ready, stopServed, clean, started, owned, sentStop, handles,
                   state, resource, lastRequest, bye, input, sent, stops, ctx, kind>>

\* supervise needs BYE; the retention loop keeps whatever came.
ReceiveBye ==
    /\ Receive /\ kind = "STOP"
    /\ transportUnknown' = FALSE
    /\ \/ ctx = "run" /\ bye' = TRUE /\ pc' = "waitguest"
       \/ ctx = "run" /\ bye' = FALSE /\ pc' = "except"
       \/ ctx = "retain" /\ UNCHANGED bye /\ pc' = "finalize"
    /\ UNCHANGED <<launcher, proc, ready, stopServed, clean, started, owned, sentStop, handles,
                   state, resource, lastRequest, task, input, sent, stops, answered, ctx, kind>>

-----------------------------------------------------------------------------
(* supervise after BYE *)

\* The Guest ends, or 30 seconds pass, or the lookup raises.
WaitGuest ==
    /\ pc = "waitguest"
    /\ owned' = Observed
    /\ pc' = IF GuestDone THEN "guestexit" ELSE "except"
    /\ UNCHANGED <<session, started, sentStop, transportUnknown, handles, result, input,
                   history, ctx, kind>>

\* Mutant: the absence of the process is taken for a natural exit.
GuestExitUnproven ==
    /\ pc = "guestexit"
    /\ owned' = Observed
    /\ pc' = IF GuestDone THEN "cleanup" ELSE "except"
    /\ UNCHANGED <<session, started, sentStop, transportUnknown, handles, result, input,
                   history, ctx, kind>>

GuestExit ==
    /\ pc = "guestexit"
    /\ owned' = Observed
    /\ \/ GuestDone /\ clean /\ pc' = "cleanup"
       \/ pc' = "except"
    /\ UNCHANGED <<session, started, sentStop, transportUnknown, handles, result, input,
                   history, ctx, kind>>

\* PosixOwner.snapshot needs the bound identity and no holder of the disks.
Snapshot ==
    /\ pc = "snapshot"
    /\ \/ /\ proc["crosvm"] \notin {"live", "zombie"}
          /\ state' = "STOPPED" /\ resource' = "REAPED"
          /\ pc' \in {"returned", "except"}
       \/ pc' = "except" /\ UNCHANGED <<state, resource>>
    /\ UNCHANGED <<session, owner, lastRequest, task, bye, input, history, ctx, kind>>

\* Mutant: a failure of a running attempt is not published.
ExceptKeepsRunning ==
    /\ pc = "except"
    /\ state' = IF state = "RUNNING" THEN state ELSE "UNKNOWN"
    /\ resource' = "UNKNOWN"
    /\ ctx' = "fail"
    /\ pc' = IF started THEN "finalize" ELSE "report"
    /\ UNCHANGED <<session, owner, lastRequest, task, bye, input, history, kind>>

\* The failure path: UNKNOWN, noted if it can be, then one guarded cleanup.
Except ==
    /\ pc = "except"
    /\ state' = "UNKNOWN" /\ resource' = "UNKNOWN"
    /\ ctx' = "fail"
    /\ pc' = IF started THEN "finalize" ELSE "report"
    /\ UNCHANGED <<session, owner, lastRequest, task, bye, input, history, kind>>

Report ==
    /\ pc = "report"
    /\ pc' = "returned"
    /\ UNCHANGED <<session, owner, result, input, history, ctx, kind>>

-----------------------------------------------------------------------------
(* PosixOwner.cleanup_services: one TERM to the idle service, on its pidfd *)

\* The Guest is done and the service is alive under the identity recorded.
CleanupBegin ==
    /\ pc = "cleanup"
    /\ owned' = Observed
    /\ \/ ~GuestDone /\ pc' = Raised
       \/ /\ GuestDone
          /\ "virtmgr" \in Observed /\ proc["virtmgr"] = "live" /\ ~signalUnknown
          /\ pc' = "csopen"
       \/ /\ GuestDone
          /\ "virtmgr" \in Observed /\ proc["virtmgr"] \in {"live", "zombie", "reused"}
          /\ pc' = Raised
       \/ /\ GuestDone
          /\ ~("virtmgr" \in Observed /\ proc["virtmgr"] # "gone")
          /\ pc' = "csfinish"
    /\ UNCHANGED <<session, started, sentStop, transportUnknown, handles, result, input,
                   history, ctx, kind>>

\* pidfd_open, once: it pins whatever process has the PID by now.
CleanupOpen ==
    /\ pc = "csopen"
    /\ \/ fd # "none" /\ pc' = "csterm" /\ UNCHANGED fd
       \/ /\ fd = "none" /\ proc["virtmgr"] # "gone"
          /\ fd' = IF proc["virtmgr"] = "reused" THEN "stranger" ELSE "service"
          /\ pc' = "csterm"
       \/ pc' = Raised /\ UNCHANGED fd
    /\ UNCHANGED <<session, started, owned, sentStop, transportUnknown, termed, signalUnknown,
                   closeUnknown, logClosed, ownerTerminal, result, input, history, ctx, kind>>

\* The process that the handle pins has exited.
Readable == fd = "strangerGone" \/ (fd = "service" /\ proc["virtmgr"] \in Exited)

\* Mutant: the identity is not checked again once the handle is open.
CleanupTermBlind ==
    /\ pc = "csterm"
    /\ pc' = IF Readable \/ termed THEN "cswait" ELSE "cssignal"
    /\ UNCHANGED <<session, owner, result, input, history, ctx, kind>>

\* A process that has not exited is signalled once, if the PID still has the
\* recorded identity now that the handle is open.
CleanupTerm ==
    /\ pc = "csterm"
    /\ IF Readable \/ termed
       THEN pc' = "cswait"
       ELSE \/ proc["virtmgr"] = "live" /\ pc' = "cssignal"
            \/ pc' = Raised
    /\ UNCHANGED <<session, owner, result, input, history, ctx, kind>>

\* The attempt is noted first; the signal may fail.
CleanupSignal ==
    /\ pc = "cssignal"
    /\ termed' = TRUE
    /\ \/ pc' = "cswait" /\ UNCHANGED signalUnknown
       \/ pc' = Raised /\ signalUnknown' \in {signalUnknown, TRUE}
    /\ UNCHANGED <<session, started, owned, sentStop, transportUnknown, fd, closeUnknown,
                   logClosed, ownerTerminal, result, input, history, ctx, kind>>

\* release_service_handles: nothing is closed while an outcome is unknown; a
\* handle whose process runs is kept; another is closed once, and a failed close
\* never repeated.
Blocked == signalUnknown \/ closeUnknown
Closable == ~Blocked /\ (fd = "none" \/ Readable)
Close == Closable /\ fd' = "none" /\ UNCHANGED closeUnknown
CloseFails == Closable /\ fd # "none" /\ closeUnknown' = TRUE /\ UNCHANGED fd

CleanupWait ==
    /\ pc = "cswait"
    /\ \/ Close /\ pc' = "csfinish"
       \/ CloseFails /\ pc' = Raised
       \/ ~Closable /\ pc' = Raised /\ UNCHANGED <<fd, closeUnknown>>
    /\ UNCHANGED <<session, started, owned, sentStop, transportUnknown, termed, signalUnknown,
                   logClosed, ownerTerminal, result, input, history, ctx, kind>>

AfterCleanup == CASE ctx = "run" -> "snapshot" [] ctx = "fail" -> "report" [] ctx = "retain" -> "leave"

\* Terminal before the receipt is written, which may raise.
CleanupFinish ==
    /\ pc = "csfinish"
    /\ \/ /\ launcher = "ok" /\ SessionEmpty
          /\ \/ /\ Close
                /\ logClosed' = TRUE /\ ownerTerminal' = TRUE
                /\ pc' \in {AfterCleanup, Raised}
             \/ /\ CloseFails
                /\ pc' = Raised /\ UNCHANGED <<logClosed, ownerTerminal>>
       \/ pc' = Raised /\ UNCHANGED <<fd, closeUnknown, logClosed, ownerTerminal>>
    /\ UNCHANGED <<session, started, owned, sentStop, transportUnknown, termed, signalUnknown,
                   result, input, history, ctx, kind>>

-----------------------------------------------------------------------------
(* PosixOwner.finalize_if_terminal *)

AfterTrue == IF ctx = "fail" THEN "report" ELSE "leave"
AfterFalse == IF ctx = "fail" THEN "report" ELSE "command"

\* Mutant: an empty session is terminal whatever became of the handles.
FinalizeEmptyUnchecked ==
    /\ pc = "finalize" /\ ~ownerTerminal /\ SessionEmpty
    /\ logClosed' = TRUE /\ ownerTerminal' = TRUE /\ pc' = AfterTrue
    /\ UNCHANGED <<session, started, owned, sentStop, transportUnknown, fd, closeUnknown,
                   termed, signalUnknown, result, input, history, ctx, kind>>

\* Mutant: only a launcher that succeeded lets the owner finish.
FinalizeEmptyNeedsOk ==
    /\ pc = "finalize" /\ ~ownerTerminal /\ SessionEmpty /\ launcher = "ok"
    /\ Close
    /\ logClosed' = TRUE /\ ownerTerminal' = TRUE /\ pc' = AfterTrue
    /\ UNCHANGED <<session, started, owned, sentStop, transportUnknown, termed, signalUnknown,
                   result, input, history, ctx, kind>>

\* No process of the session is left.  A handle whose process still runs makes
\* it return False, an unknown outcome makes it raise.
FinalizeEmpty ==
    /\ pc = "finalize" /\ ~ownerTerminal /\ SessionEmpty
    /\ \/ /\ Close
          /\ logClosed' = TRUE /\ ownerTerminal' = TRUE /\ pc' = AfterTrue
       \/ /\ CloseFails
          /\ pc' = Raised /\ UNCHANGED <<logClosed, ownerTerminal>>
       \/ /\ ~Closable
          /\ pc' = IF Blocked THEN Raised ELSE AfterFalse
          /\ UNCHANGED <<fd, closeUnknown, logClosed, ownerTerminal>>
    /\ UNCHANGED <<session, started, owned, sentStop, transportUnknown, termed, signalUnknown,
                   result, input, history, ctx, kind>>

\* Already terminal; or processes remain, and a finished Guest whose launcher
\* did not fail releases the idle service.
FinalizeOther ==
    /\ pc = "finalize"
    /\ \/ ownerTerminal /\ pc' = AfterTrue /\ UNCHANGED owned
       \/ /\ ~ownerTerminal /\ launcher # "none" /\ ~SessionEmpty
          /\ IF launcher = "failed"
             THEN pc' = AfterFalse /\ UNCHANGED owned
             ELSE /\ owned' = Observed
                  /\ pc' = IF GuestLookupRaises THEN Raised
                           ELSE IF GuestDone THEN "cleanup" ELSE AfterFalse
    /\ UNCHANGED <<session, started, sentStop, transportUnknown, handles, result, input,
                   history, ctx, kind>>

\* The process listing fails; without a child there is nothing to list for.
FinalizeRaises ==
    /\ pc = "finalize" /\ ~ownerTerminal
    /\ pc' = Raised
    /\ UNCHANGED <<session, owner, result, input, history, ctx, kind>>

-----------------------------------------------------------------------------
(* runtime.run after supervise *)

Return ==
    /\ pc = "returned"
    /\ \/ state = "UNKNOWN" /\ ~ownerTerminal /\ pc' = "finalize" /\ ctx' = "retain"
       \/ ~(state = "UNKNOWN" /\ ~ownerTerminal) /\ pc' = "exit" /\ UNCHANGED ctx
    /\ UNCHANGED <<session, owner, result, input, history, kind>>

\* Mutant: the retained controller forgets that STOP was sent.
RetainCommandAgain ==
    /\ pc = "command"
    /\ \/ /\ ~eof /\ ~transportUnknown
          /\ sentStop' = TRUE /\ kind' = "STOP" /\ pc' = "rq" /\ UNCHANGED eof
       \/ pc' = "finalize" /\ eof' \in {eof, TRUE} /\ UNCHANGED <<sentStop, kind>>
    /\ UNCHANGED <<session, started, owned, transportUnknown, handles, result, deadline,
                   history, ctx>>

\* The operator's stop, if nothing is outstanding; anything else is ignored.
RetainCommand ==
    /\ pc = "command"
    /\ \/ /\ ~eof /\ ~sentStop /\ ~transportUnknown
          /\ sentStop' = TRUE /\ kind' = "STOP" /\ pc' = "rq" /\ UNCHANGED eof
       \/ pc' = "finalize" /\ eof' \in {eof, TRUE} /\ UNCHANGED <<sentStop, kind>>
    /\ UNCHANGED <<session, started, owned, transportUnknown, handles, result, deadline,
                   history, ctx>>

\* The loop's handler sleeps a second.
Nap ==
    /\ pc = "nap"
    /\ pc' = "finalize"
    /\ UNCHANGED <<session, owner, result, input, history, ctx, kind>>

Leave ==
    /\ pc = "leave"
    /\ pc' = "exit"
    /\ UNCHANGED <<session, owner, result, input, history, ctx, kind>>

\* A keyboard interrupt.  supervise and the loop catch it; while their own
\* handlers run, and while the retention notice is printed, nothing does and
\* run's last handler records UNKNOWN and ends the controller.
Interrupt ==
    /\ \/ pc \in {"ready", "loop", "waitguest", "guestexit"} /\ pc' = "except"
       \/ pc \in {"cleanup", "csopen", "csterm", "cssignal", "cswait"} /\ pc' = Raised
       \/ pc = "command" /\ pc' = "nap"
       \/ pc \in {"except", "report", "returned", "nap", "leave"} /\ pc' = "exit"
    /\ state' = IF pc' = "exit" THEN "UNKNOWN" ELSE state
    /\ resource' = IF pc' = "exit" THEN "UNKNOWN" ELSE resource
    /\ UNCHANGED <<session, owner, lastRequest, task, bye, input, history, ctx, kind>>

-----------------------------------------------------------------------------
(* The session and the clock *)

Spawn(p) ==
    /\ launcher = "live" /\ proc[p] = "none"
    /\ p = "crosvm" => proc["virtmgr"] = "live"
    /\ proc' = [proc EXCEPT ![p] = "live"]
    /\ UNCHANGED <<launcher, ready, wire, stopServed, clean>>

\* A process exits, is reaped, and its PID is taken by a stranger.
Exit(p) ==
    /\ proc[p] = "live"
    /\ proc' = [proc EXCEPT ![p] = "zombie"]
    /\ clean' \in IF p = "crosvm" THEN {FALSE, stopServed} ELSE {clean}
    /\ UNCHANGED <<launcher, ready, wire, stopServed>>

Reap(p) ==
    /\ proc[p] \in {"zombie", "gone"}
    /\ proc' = [proc EXCEPT ![p] = IF @ = "zombie" THEN "gone" ELSE "reused"]
    /\ UNCHANGED <<launcher, ready, wire, stopServed, clean>>

\* vm_linux.sh returns the status of its vm client: a failure at any time, 0
\* once there has been a Guest, which may live on under the persistent service.
LauncherEnds ==
    /\ launcher = "live"
    /\ \/ launcher' = "failed"
       \/ launcher' = "ok" /\ proc["crosvm"] # "none"
    /\ UNCHANGED <<proc, ready, wire, stopServed, clean>>

PayloadReady ==
    /\ proc["crosvm"] = "live" /\ ~ready
    /\ ready' = TRUE
    /\ UNCHANGED <<launcher, proc, wire, stopServed, clean>>

PayloadServes ==
    /\ proc["crosvm"] = "live" /\ wire = "sent"
    /\ wire' \in {"replied", "lost"}
    /\ stopServed' = (stopServed \/ kind = "STOP")
    /\ UNCHANGED <<launcher, proc, ready, clean>>

Session ==
    /\ \/ \E p \in Members : Spawn(p) \/ Exit(p) \/ Reap(p)
       \/ LauncherEnds \/ PayloadReady \/ PayloadServes
    /\ UNCHANGED <<owner, result, input, history, pc, ctx, kind>>

\* A process that took the service's PID and is pinned by the handle exits.
StrangerExits ==
    /\ fd = "stranger"
    /\ fd' = "strangerGone"
    /\ UNCHANGED <<session, started, owned, sentStop, transportUnknown, termed, signalUnknown,
                   closeUnknown, logClosed, ownerTerminal, result, input, history, pc, ctx, kind>>

DeadlinePasses ==
    /\ ~deadline
    /\ deadline' = TRUE
    /\ UNCHANGED <<session, owner, result, eof, history, pc, ctx, kind>>

Operator ==
    LoopStop \/ LoopNotes \/ InputFails \/ \E n \in 1 .. MaxRequest : LoopRequest(n)

Controller ==
    \/ StartOwner \/ ReadyPoll \/ Running \/ LoopRaises \/ LoopDeadline
    \/ Stopping \/ RequestRefused \/ Send \/ LocalReply
    \/ ReceiveFails \/ ReceiveInfo \/ ReceiveResponse \/ ReceiveBye
    \/ WaitGuest \/ GuestExit \/ Snapshot \/ Except \/ Report
    \/ CleanupBegin \/ CleanupOpen \/ CleanupTerm \/ CleanupSignal
    \/ CleanupWait \/ CleanupFinish
    \/ FinalizeEmpty \/ FinalizeOther \/ FinalizeRaises
    \/ Return \/ RetainCommand \/ Nap \/ Leave

Next == Controller \/ Operator \/ Interrupt \/ Session \/ StrangerExits \/ DeadlinePasses

Spec == Init /\ [][Next]_vars

\* The controller keeps running, the deadline arrives, and a session that can be
\* listed again and again is listed successfully some day.  The operator need
\* not type anything.
FairSpec ==
    Spec /\ WF_vars(Controller) /\ WF_vars(DeadlinePasses) /\ SF_vars(FinalizeEmpty)

-----------------------------------------------------------------------------
(* Properties *)

\* STOPPED is published only when STOP went out once and was answered BYE, the
\* Guest ended by itself with exit 0, the service is gone, its handle and the
\* log are closed, no process of the session is left and no outcome is open.
StoppedIsProven ==
    state = "STOPPED" =>
        /\ stops = 1 /\ bye /\ clean
        /\ launcher = "ok" /\ SessionEmpty
        /\ ownerTerminal /\ fd = "none" /\ logClosed /\ ~Blocked
        /\ ~unanswered /\ ~transportUnknown

\* An owner is terminal only with an empty session, every handle and the log
\* closed, and no signal or close whose outcome is unknown.
TerminalOwnsNothing ==
    ownerTerminal => SessionEmpty /\ fd = "none" /\ logClosed /\ ~Blocked

\* STOP reaches the payload at most once, whether supervise or the operator of
\* a retained controller asks for it ("STOP must not be repeated").
StopSentOnce == stops <= 1

\* A task is reported successful or failed only if the complete response to
\* that very request was read.
TaskResultIsAnswered ==
    task \in {"SUCCESS", "FAILED"} => lastRequest > 0 /\ answered = lastRequest

\* Once a message was sent and its reply not read, nothing more is sent: no
\* retry, no next request, no STOP.
SilentAfterUnanswered == [][unanswered => sent' = sent]_vars

\* The only signal is sent once, when the Guest has ended, on a handle that
\* pins the service itself: never on one that pins a process which was given
\* the service's PID between the look at its identity and pidfd_open.
SignalOnlyIdleService ==
    [][termed' # termed =>
          /\ ~termed /\ fd = "service"
          /\ proc["crosvm"] \in {"gone", "reused"}]_vars

\* supervise implements the life of an attempt that the claim protocol relies
\* on.
SessionView == IF launcher = "none" THEN "none" ELSE IF SessionEmpty THEN "ended" ELSE "live"
L == INSTANCE Lifetime WITH session <- SessionView, released <- (pc = "exit")
ImplementsLifetime == L!Spec

\* supervise returns: every wait in it has a deadline.
SuperviseReturns == <>(ctx = "retain" \/ pc = "exit")

\* A retained controller is released once its session has ended, unless a
\* signal or a close has an unknown outcome or its handle pins a stranger that
\* runs; when that one exits, the controller is released as well.
RetainedIsReleased ==
    (ctx = "retain" /\ SessionEmpty) ~> (pc = "exit" \/ Blocked \/ fd = "stranger")

\* A launch that failed before any process existed finishes: "A failed or very
\* short-lived launch must be able to finish UNKNOWN without a VM."
FailedLaunchFinishes == (pc = "returned" /\ launcher = "none") ~> (pc = "exit")

\* The owner of a launched attempt is kept until it is terminal: "Retain this
\* exact owner until observation proves natural Guest termination; EOF/interrupt
\* is not that proof."
RetainedUntilTerminal ==
    pc = "exit" /\ ctx = "retain" /\ launcher # "none" => ownerTerminal

=============================================================================
