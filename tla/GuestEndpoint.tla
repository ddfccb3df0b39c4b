--------------------------- MODULE GuestEndpoint ---------------------------
(* How a macOS controller proves that virtmgr retired the guest's RPC         *)
(* socket: the socket's owner in virtmgr (Endpoint of guest_rpc_macos.rs),    *)
(* the lifecycle trace it writes (host_lifecycle_trace.rs), the controller's  *)
(* reader of that trace (endpoint_evidence.py) and the one-shot termination   *)
(* that waits for the proof (BoundInstance of audit_owner.py).                *)
(*                                                                            *)
(* The reader looks at a file the service is appending to and at a path that  *)
(* changes under it, so every look is a step of its own.                      *)
EXTENDS Naturals, Sequences

CONSTANTS
    MayReplace,     \* another process of the user may replace the socket path
    MayFail         \* a trace write may fail, a process may crash, 5 s may pass

VARIABLES
    guest,      \* the guest's crosvm process
    service,    \* the virtmgr process
    path,       \* what the socket's path names: nothing, the service's socket, another
    host,       \* where virtmgr is in the life of its Endpoint
    rows,       \* the endpoint records committed to the trace, each ended by a newline
    writing,    \* the record being appended, under the trace's mutex
    tail,       \* the file ends in a part of a record
    failed,     \* Trace::failed, sticky
    ctl,        \* where the controller is
    seen,       \* what events() returned: [rows, tail]
    original,   \* EndpointEvidence.original is set
    verdict,    \* the last answer of retired()
    signals,    \* the processes the controller has sent TERM, once each
    receipt,    \* receipt['guest_rpc_endpoint']['retired']
    taken       \* history: someone else's file has been at the path

vars == <<guest, service, path, host, rows, writing, tail, failed,
          ctl, seen, original, verdict, signals, receipt, taken>>
hostVars == <<path, host, rows, writing, tail, failed, taken>>
ctlVars == <<ctl, seen, original, verdict, signals, receipt>>

Records == {<<>>, <<"bound">>, <<"bound", "retired">>}
Nothing == [rows |-> <<>>, tail |-> FALSE]

TypeOK ==
    /\ guest \in {"none", "live", "ended"}
    /\ service \in {"live", "ended"}
    /\ path \in {"none", "own", "other"}
    /\ host \in {"new", "bound", "open", "serving", "drop", "remove", "removed", "gone"}
    /\ rows \in Records
    /\ writing \in {"none", "bound", "retired", "notice"}
    /\ tail \in BOOLEAN
    /\ failed \in BOOLEAN
    /\ ctl \in {"idle", "events", "lstat", "confirm", "armed", "poll",
                "look", "found", "observe", "look2", "found2", "end"}
    /\ seen \in [rows : Records, tail : BOOLEAN]
    /\ original \in BOOLEAN
    /\ verdict \in {"none", "pending", "retired", "error"}
    /\ signals \subseteq {"guest", "service"}
    /\ receipt \in BOOLEAN
    /\ taken \in BOOLEAN

Init ==
    /\ guest = "none" /\ service = "live" /\ path = "none"
    /\ host = "new" /\ rows = <<>> /\ writing = "none" /\ tail = FALSE /\ failed = FALSE
    /\ ctl = "idle" /\ seen = Nothing /\ original = FALSE /\ verdict = "none"
    /\ signals = {} /\ receipt = FALSE /\ taken = FALSE

-----------------------------------------------------------------------------
(* virtmgr.                                                                  *)

\* Endpoint::bind: the socket exists before its mode is set and announced.
Bind ==
    /\ service = "live" /\ host = "new" /\ path = "none"
    /\ path' = "own" /\ host' = "bound"
    /\ UNCHANGED <<guest, service, rows, writing, tail, failed, taken>>
    /\ UNCHANGED ctlVars

\* record: append takes the trace's mutex; after a failure it only logs.
Record(record) ==
    IF failed
    THEN UNCHANGED <<writing, tail>>
    ELSE writing = "none" /\ writing' = record /\ tail' = TRUE

\* set_permissions, then evidence("bound"); bind returns once the record is out.
Announce ==
    /\ service = "live" /\ host = "bound"
    /\ Record("bound")
    /\ host' = "open"
    /\ UNCHANGED <<guest, service, path, rows, failed, taken>>
    /\ UNCHANGED ctlVars

\* GuestRpcServer::new returned; the VM is then started with its crosvm.
Serve ==
    /\ service = "live" /\ host = "open" /\ writing # "bound"
    /\ host' = "serving" /\ guest' = "live"
    /\ UNCHANGED <<service, path, rows, writing, tail, failed, taken>>
    /\ UNCHANGED ctlVars

\* Records about the payload share the trace.
Notice ==
    /\ service = "live" /\ host = "serving" /\ ~failed
    /\ Record("notice")
    /\ UNCHANGED <<guest, service, path, host, rows, failed, taken>>
    /\ UNCHANGED ctlVars

\* write_all has put the newline down.
Commit ==
    /\ service = "live" /\ writing # "none"
    /\ rows' = IF writing = "notice" THEN rows ELSE Append(rows, writing)
    /\ writing' = "none" /\ tail' = FALSE
    /\ UNCHANGED <<guest, service, path, host, failed, taken>>
    /\ UNCHANGED ctlVars

\* write_all fails after none or some of the bytes.
CommitFails ==
    /\ MayFail /\ service = "live" /\ writing # "none"
    /\ writing' = "none" /\ failed' = TRUE
    /\ \E part \in BOOLEAN : tail' = part
    /\ UNCHANGED <<guest, service, path, host, rows, taken>>
    /\ UNCHANGED ctlVars

\* The exit monitor lets go of the GuestRpcServer: server first, then Endpoint.
Drop ==
    /\ service = "live" /\ host = "serving" /\ guest = "ended"
    /\ host' = "drop"
    /\ UNCHANGED <<guest, service, path, rows, writing, tail, failed, taken>>
    /\ UNCHANGED ctlVars

\* Drop for Endpoint: only the socket it bound itself is removed.
DropChecks ==
    /\ service = "live" /\ host = "drop"
    /\ host' = IF path = "own" THEN "remove" ELSE "gone"
    /\ UNCHANGED <<guest, service, path, rows, writing, tail, failed, taken>>
    /\ UNCHANGED ctlVars

\* remove_file acts on the path; nothing there is an error, and not announced.
Remove ==
    /\ service = "live" /\ host = "remove"
    /\ path' = "none"
    /\ host' = IF path = "none" THEN "gone" ELSE "removed"
    /\ UNCHANGED <<guest, service, rows, writing, tail, failed, taken>>
    /\ UNCHANGED ctlVars

\* evidence("retired") after the removal.
Retire ==
    /\ service = "live" /\ host = "removed"
    /\ Record("retired")
    /\ host' = "gone"
    /\ UNCHANGED <<guest, service, path, rows, failed, taken>>
    /\ UNCHANGED ctlVars

-----------------------------------------------------------------------------
(* Processes end, and others use the path.                                   *)

\* The guest ends by TERM or by itself.
GuestEnds ==
    /\ guest = "live"
    /\ guest' = "ended"
    /\ UNCHANGED <<service>> /\ UNCHANGED hostVars /\ UNCHANGED ctlVars

\* A process cannot exit inside write_all's kernel call, but may between calls.
ServiceEnds ==
    /\ service = "live"
    /\ "service" \in signals \/ MayFail
    /\ service' = "ended"
    /\ UNCHANGED guest /\ UNCHANGED hostVars /\ UNCHANGED ctlVars

\* Another virtmgr gets the CID, and so the path, once the first has exited.
NextService ==
    /\ MayReplace /\ service = "ended" /\ path = "none"
    /\ path' = "other" /\ taken' = TRUE
    /\ UNCHANGED <<guest, service, host, rows, writing, tail, failed>>
    /\ UNCHANGED ctlVars

\* A process of the user puts a file of its own at the path.
Replace ==
    /\ MayReplace /\ path = "own"
    /\ path' = "other" /\ taken' = TRUE
    /\ UNCHANGED <<guest, service, host, rows, writing, tail, failed>>
    /\ UNCHANGED ctlVars

-----------------------------------------------------------------------------
(* The controller.                                                           *)

\* EndpointEvidence.bind: mac_inventory shows the guest and its service.
BindBegins ==
    /\ ctl = "idle"
    /\ guest = "live" /\ service = "live"
    /\ ctl' = "events"
    /\ UNCHANGED <<guest, service, seen, original, verdict, signals, receipt>>
    /\ UNCHANGED hostVars

\* events(): a record counts from its newline on; a prefix is only noticed.
Events(next) ==
    /\ seen' = [rows |-> rows, tail |-> tail]
    /\ ctl' = next

BindReads ==
    /\ ctl = "events"
    /\ Events("lstat")
    /\ UNCHANGED <<guest, service, original, verdict, signals, receipt>>
    /\ UNCHANGED hostVars

\* A single complete record, and the socket it names at the path.
BindLooks ==
    /\ ctl = "lstat"
    /\ ctl' = IF ~seen.tail /\ seen.rows = <<"bound">> /\ path = "own" THEN "confirm" ELSE "end"
    /\ UNCHANGED <<guest, service, seen, original, verdict, signals, receipt>>
    /\ UNCHANGED hostVars

BindConfirms ==
    /\ ctl = "confirm"
    /\ LET same == guest = "live" /\ service = "live"
       IN /\ original' = same
          /\ ctl' = IF same THEN "armed" ELSE "end"
    /\ UNCHANGED <<guest, service, seen, verdict, signals, receipt>>
    /\ UNCHANGED hostVars

\* terminate_once: the guest's TERM. validate() refuses a process it did not
\* bind, and a member that has gone without its exit record.
SignalGuest ==
    /\ ctl = "armed"
    /\ signals' = IF guest = "live" THEN signals \cup {"guest"} ELSE signals
    /\ ctl' = "poll"
    /\ UNCHANGED <<guest, service, seen, original, verdict, receipt>>
    /\ UNCHANGED hostVars

\* retired(): first the trace ...
PollReads ==
    /\ ctl \in {"poll", "observe"}
    /\ ctl = "poll" => guest = "ended"
    /\ ctl = "observe" => guest = "ended" /\ service = "ended"
    /\ Events(IF ctl = "poll" THEN "look" ELSE "look2")
    /\ UNCHANGED <<guest, service, original, verdict, signals, receipt>>
    /\ UNCHANGED hostVars

\* Mutant: a reader content with the path's absence.
RetiredWhenAbsent ==
    CASE seen.rows \notin {<<"bound">>, <<"bound", "retired">>} -> "error"
      [] path = "none" -> "retired"
      [] path = "other" -> "error"
      [] OTHER -> IF Len(seen.rows) = 2 THEN "error" ELSE "pending"

\* ... then the path. Absent and announced is retirement; absent is not.
Retired ==
    CASE seen.rows \notin {<<"bound">>, <<"bound", "retired">>} -> "error"
      [] path = "none" -> IF Len(seen.rows) = 2 /\ ~seen.tail THEN "retired" ELSE "pending"
      [] path = "other" -> "error"
      [] OTHER -> IF Len(seen.rows) = 2 THEN "error" ELSE "pending"

PollLooks ==
    /\ ctl \in {"look", "look2"}
    /\ verdict' = Retired
    /\ receipt' = (receipt \/ verdict' = "retired")
    /\ ctl' = CASE verdict' = "error" -> "end"
                [] verdict' = "retired" -> IF ctl = "look" THEN "found" ELSE "found2"
                [] OTHER -> IF ctl = "look" THEN "poll" ELSE "observe"
    /\ UNCHANGED <<guest, service, seen, original, signals>>
    /\ UNCHANGED hostVars

\* The service's TERM, only after its own destructor has finished.
SignalService ==
    /\ ctl = "found"
    /\ signals' = IF service = "live" THEN signals \cup {"service"} ELSE signals
    /\ ctl' = "observe"
    /\ UNCHANGED <<guest, service, seen, original, verdict, receipt>>
    /\ UNCHANGED hostVars

\* observe_once: every exit, the endpoint and the log proven.
Reaped ==
    /\ ctl = "found2"
    /\ ctl' = "end"
    /\ UNCHANGED <<guest, service, seen, original, verdict, signals, receipt>>
    /\ UNCHANGED hostVars

\* The five seconds are over, or validate() is not ready for the first signal:
\* only observation is left, and that is bounded too.
Deadline ==
    /\ MayFail
    /\ ctl \in {"armed", "poll", "observe"}
    /\ ctl' = IF ctl = "observe" THEN "end" ELSE "observe"
    /\ UNCHANGED <<guest, service, seen, original, verdict, signals, receipt>>
    /\ UNCHANGED hostVars

-----------------------------------------------------------------------------
Virtmgr == Bind \/ Announce \/ Serve \/ Commit \/ Drop \/ DropChecks \/ Remove \/ Retire

Controller ==
    \/ BindBegins \/ BindReads \/ BindLooks \/ BindConfirms \/ SignalGuest
    \/ PollReads \/ PollLooks \/ SignalService \/ Reaped

Next ==
    \/ Virtmgr \/ Controller
    \/ Notice \/ CommitFails \/ GuestEnds \/ ServiceEnds
    \/ NextService \/ Replace \/ Deadline

Spec == Init /\ [][Next]_vars

\* Threads of virtmgr and the controller keep running, the trace's mutex is
\* granted in the end, and a process sent TERM exits.
Fairness ==
    /\ WF_vars(Commit) /\ WF_vars(Drop) /\ WF_vars(DropChecks) /\ WF_vars(Remove)
    /\ SF_vars(Retire)
    /\ WF_vars(Controller)
    /\ WF_vars("guest" \in signals /\ GuestEnds)
    /\ WF_vars("service" \in signals /\ ServiceEnds)

FairSpec == Spec /\ Fairness

-----------------------------------------------------------------------------
\* Retirement is the owner's own act: once the receipt says so, virtmgr's
\* destructor has taken the socket off the path and announced it. A socket that
\* is missing for another reason, or an announcement still being written, never
\* counts (retired() of endpoint_evidence.py; Drop for Endpoint).
RetirementProven ==
    receipt => /\ path # "own"
               /\ host = "gone"
               /\ rows = <<"bound", "retired">>

\* The controller's TERM never cuts off the destructor it waits for: when the
\* service is signalled its socket is gone and announced
\* (terminate_once of audit_owner.py, lines 42-47).
ServiceMayFinish ==
    "service" \in signals => host = "gone" /\ path # "own"

\* Reading a trace that is being appended to, and a path that is being removed,
\* raises no alarm of its own: once the endpoint is bound, retired() raises
\* only if someone else's file has been at the path (the order of the two
\* looks, and the newline as the commit boundary).
NoFalseAlarm ==
    verdict = "error" => taken

\* Without crashes, replacement or a passed deadline a bound endpoint is
\* retired and the controller learns it (terminate_once).
EndpointIsRetired ==
    original ~> receipt

\* What the controller reads about the socket is true: a receipt proves retirement,
\* the destructor it waits for may finish, and a trace or path in the middle of a
\* change raises no alarm.
RetirementIsTrue == TypeOK /\ RetirementProven /\ ServiceMayFinish /\ NoFalseAlarm
=============================================================================
