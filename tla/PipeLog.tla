------------------------------ MODULE PipeLog ------------------------------
(* PipeLog (pipe_log.py): a reader thread drains the pipe that the launched   *)
(* processes write to and records at most `limit` bytes of it; the controller *)
(* closes its own write end, joins the reader for a bounded time, and reads   *)
(* the receipt field by field while the reader may still be at work.          *)
EXTENDS Integers, Sequences

CONSTANTS
    MaxWritten,     \* bound on what the processes write
    Capacity,       \* of the pipe
    Limit,          \* PipeLog.limit
    MayFail         \* reads, writes and closes may fail

VARIABLES
    written,    \* what the processes have written so far
    pipe,       \* what is in the pipe
    child,      \* some launched process still holds the write end
    parent,     \* the controller's write end: "open", "closed", "unclosed", "lost"
    file,       \* what has reached the file
    reader,     \* where the reader thread is
    data,       \* what it has read and not accounted for
    log,        \* the fields eof, finished, kept, dropped and error
    todo,       \* the fields finish() has still to read
    receipt     \* the ones it has read

vars == <<written, pipe, child, parent, file, reader, data, log, todo, receipt>>

Fields == <<"eof", "finished", "reader_alive", "kept", "dropped", "error", "write_close_unknown">>
FieldNames == {Fields[i] : i \in DOMAIN Fields}

TypeOK ==
    /\ written \in 0..MaxWritten /\ pipe \in 0..Capacity /\ child \in BOOLEAN
    /\ parent \in {"open", "closed", "unclosed", "lost"}
    /\ file \in 0..Limit /\ data \in 0..Capacity
    /\ reader \in {"read", "write", "count", "close", "close_file", "finish", "return", "done"}
    /\ log \in [eof : BOOLEAN, finished : BOOLEAN, kept : 0..Limit,
                dropped : 0..MaxWritten, error : BOOLEAN]
    /\ todo \in Seq(FieldNames) /\ Len(todo) <= Len(Fields)

Init ==
    /\ written = 0 /\ pipe = 0 /\ child = TRUE /\ parent = "open"
    /\ file = 0 /\ reader = "read" /\ data = 0
    /\ log = [eof |-> FALSE, finished |-> FALSE, kept |-> 0, dropped |-> 0, error |-> FALSE]
    /\ todo = <<>> /\ receipt = <<>>

-----------------------------------------------------------------------------
(* The launched processes.                                                   *)

Write ==
    /\ child /\ written < MaxWritten /\ pipe < Capacity
    /\ reader \notin {"close_file", "finish", "return", "done"}
    /\ written' = written + 1 /\ pipe' = pipe + 1
    /\ UNCHANGED <<child, parent, file, reader, data, log, todo, receipt>>

ChildrenExit ==
    /\ child
    /\ child' = FALSE
    /\ UNCHANGED <<written, pipe, parent, file, reader, data, log, todo, receipt>>

-----------------------------------------------------------------------------
(* _read, in the reader thread.                                              *)

Fault == [log EXCEPT !.error = TRUE]

\* Mutant: a read that fails is taken for the end of the file.
ReadErrorAsEof ==
    /\ reader = "read"
    /\ \/ \E n \in 1..pipe :
             /\ pipe' = pipe - n /\ data' = n
             /\ reader' = "write" /\ UNCHANGED log
       \/ /\ MayFail \/ (pipe = 0 /\ ~child /\ parent \in {"closed", "lost"})
          /\ log' = [log EXCEPT !.eof = TRUE]
          /\ reader' = "close" /\ UNCHANGED <<pipe, data>>
    /\ UNCHANGED <<written, child, parent, file, todo, receipt>>

\* os.read returns a part of what is there, or end of file.
Read ==
    /\ reader = "read"
    /\ \/ \E n \in 1..pipe :
             /\ pipe' = pipe - n /\ data' = n
             /\ reader' = "write" /\ UNCHANGED log
       \/ /\ pipe = 0 /\ ~child /\ parent \in {"closed", "lost"}
          /\ log' = [log EXCEPT !.eof = TRUE]
          /\ reader' = "close" /\ UNCHANGED <<pipe, data>>
       \/ /\ MayFail
          /\ log' = Fault
          /\ reader' = "close" /\ UNCHANGED <<pipe, data>>
    /\ UNCHANGED <<written, child, parent, file, todo, receipt>>

Least(a, b) == IF a < b THEN a ELSE b

\* What still goes into the file.
Room == IF log.error THEN 0 ELSE Least(data, Limit - log.kept)

\* file.write and flush; a write that fails may have reached the file in part.
Record ==
    /\ reader = "write"
    /\ \/ /\ file' = file + Room
          /\ log' = [log EXCEPT !.kept = @ + Room]
          /\ data' = data - Room
       \/ /\ MayFail /\ Room > 0
          /\ \E n \in 0..Room : file' = file + n
          /\ log' = Fault /\ UNCHANGED data
    /\ reader' = "count"
    /\ UNCHANGED <<written, pipe, child, parent, todo, receipt>>

\* self.dropped += len(data) - n.
Count ==
    /\ reader = "count"
    /\ log' = [log EXCEPT !.dropped = @ + data]
    /\ data' = 0 /\ reader' = "read"
    /\ UNCHANGED <<written, pipe, child, parent, file, todo, receipt>>

\* The two closes, then finished, then the thread is gone.
Close ==
    /\ \/ reader = "close" /\ reader' = "close_file"
       \/ reader = "close_file" /\ reader' = "finish"
    /\ \/ UNCHANGED log
       \/ MayFail /\ log' = Fault
    /\ UNCHANGED <<written, pipe, child, parent, file, data, todo, receipt>>

\* Mutant: a reader that met an error does not say that it is finished.
FinishedCleanOnly ==
    /\ reader = "finish"
    /\ log' = [log EXCEPT !.finished = ~log.error] /\ reader' = "return"
    /\ UNCHANGED <<written, pipe, child, parent, file, data, todo, receipt>>

Finished ==
    /\ reader = "finish"
    /\ log' = [log EXCEPT !.finished = TRUE] /\ reader' = "return"
    /\ UNCHANGED <<written, pipe, child, parent, file, data, todo, receipt>>

Return ==
    /\ reader = "return" /\ reader' = "done"
    /\ UNCHANGED <<written, pipe, child, parent, file, data, log, todo, receipt>>

-----------------------------------------------------------------------------
(* sent and finish, in the controller. finish is called again and again      *)
(* until the controller is released.                                         *)

\* os.close(write_fd): "lost" and "unclosed" are the two outcomes of a failure.
Sent ==
    /\ parent = "open"
    /\ \/ parent' = "closed" /\ UNCHANGED log
       \/ MayFail /\ parent' \in {"unclosed", "lost"} /\ log' = Fault
    /\ UNCHANGED <<written, pipe, child, file, reader, data, todo, receipt>>

\* finish: join returns when the reader is done or its time is over.
Finish ==
    /\ parent # "open" /\ todo = <<>>
    /\ todo' = Fields /\ receipt' = <<>>
    /\ UNCHANGED <<written, pipe, child, parent, file, reader, data, log>>

Value(f) ==
    IF f = "reader_alive" THEN reader # "done"
    ELSE IF f = "write_close_unknown" THEN parent # "closed"
    ELSE log[f]

ReadField ==
    /\ todo # <<>>
    /\ receipt' = [f \in DOMAIN receipt \cup {Head(todo)} |->
                      IF f = Head(todo) THEN Value(f) ELSE receipt[f]]
    /\ todo' = Tail(todo)
    /\ UNCHANGED <<written, pipe, child, parent, file, reader, data, log>>

Reader == Read \/ Record \/ Count \/ Close \/ Finished \/ Return
Controller == Sent \/ Finish \/ ReadField

Next == Write \/ ChildrenExit \/ Reader \/ Controller

Spec == Init /\ [][Next]_vars

\* Both threads are scheduled; the processes need not end.
FairSpec == Spec /\ WF_vars(Reader) /\ WF_vars(Controller)

-----------------------------------------------------------------------------
Complete == todo = <<>> /\ receipt # <<>>

\* The verdict of _terminal_resource_receipt and _failure_cleanup (native.py).
Clean ==
    /\ Complete
    /\ receipt["eof"] /\ receipt["finished"] /\ ~receipt["reader_alive"]
    /\ ~receipt["error"] /\ receipt["dropped"] = 0 /\ ~receipt["write_close_unknown"]

\* controller_release_ready.
ReleaseReady ==
    /\ Complete
    /\ receipt["finished"] /\ ~receipt["reader_alive"] /\ ~receipt["write_close_unknown"]

\* "Never conceal loss": a clean receipt means that every process has closed its
\* end and all that they wrote is in the file, although the fields were read
\* one by one while the reader ran.
CleanIsComplete ==
    Clean => file = written /\ pipe = 0 /\ ~child /\ reader = "done"

\* And the receipt of a reader that is gone accounts for all it read.
ReceiptAddsUp ==
    Complete /\ ~receipt["reader_alive"] =>
        /\ receipt["kept"] + receipt["dropped"] = written - pipe
        /\ receipt["kept"] <= Limit /\ (receipt["error"] \/ receipt["kept"] = file)

\* The processes never hang on a full pipe, whatever becomes of the file.
PipeDrains ==
    pipe = Capacity ~> pipe < Capacity \/ reader = "done"

\* When the processes are gone the controller is told so, unless the close of
\* its own write end failed.
LogIsReleased ==
    ~child /\ parent = "closed" ~> ReleaseReady

\* The receipt is true of the log, although it is read while the reader runs: clean
\* means complete, and the counts of a reader that is gone add up.
ReceiptIsTrue == TypeOK /\ CleanIsComplete /\ ReceiptAddsUp
=============================================================================
