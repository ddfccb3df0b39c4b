----------------------------- MODULE CommandInput -----------------------------
(***************************************************************************)
(* The operator's standard input: the reader thread and the bounded queue  *)
(* of lifecycle.stdin_commands, and the three loops that take commands     *)
(* from it (supervise before and while it runs, the retention loop of      *)
(* runtime.run).  A line is what the operator meant by it and its length;  *)
(* readline(Chunk) returns at most Chunk characters of it.                 *)
(***************************************************************************)
EXTENDS Naturals, Sequences

CONSTANTS
    Chunk,              \* the argument of readline (128)
    Capacity,           \* the size of the queue (32)
    MaxLines,           \* bound on the lines typed
    MaxLength           \* bound on the length of a line, its newline included

VARIABLES
    typed,              \* the lines typed so far
    closed,             \* the operator's end of the input is closed
    line, off,          \* the reader: the line it is in, characters of it read
    reader,             \* what the reader does next
    held,               \* the command it is about to put
    queue,              \* the queue between the two threads
    taken,              \* history: the commands taken from the queue
    phase               \* the controller thread

vars == <<typed, closed, line, off, reader, held, queue, taken, phase>>

Meanings == {"status", "request", "stop"}
Eof == [is |-> "eof", line |-> 0, from |-> 0, to |-> 0]
Failed == [is |-> "error", line |-> 0, from |-> 0, to |-> 0]
Invalid(i) == [is |-> "invalid", line |-> i, from |-> 0, to |-> 0]
Text(i, a, b) == [is |-> "text", line |-> i, from |-> a, to |-> b]
Command == [is : {"eof", "error", "invalid", "text"}, line : 0 .. MaxLines + 1,
            from : 0 .. MaxLength, to : 0 .. MaxLength]

\* The values of the two threads' state; the queue never holds more than its size.
TypeOK ==
    /\ typed \in Seq([means : Meanings, len : 1 .. MaxLength, ended : BOOLEAN])
    /\ closed \in BOOLEAN
    /\ line \in 1 .. MaxLines + 1 /\ off \in 0 .. MaxLength
    /\ reader \in {"read", "discard", "put", "done"} /\ held \in Command
    /\ queue \in Seq(Command) /\ Len(queue) <= Capacity
    /\ taken \in Seq(Command)
    /\ phase \in {"starting", "running", "requesting", "stopping", "failed", "retained", "ended"}

Init ==
    /\ typed = <<>> /\ closed = FALSE
    /\ line = 1 /\ off = 0 /\ reader = "read" /\ held = Eof
    /\ queue = <<>> /\ taken = <<>> /\ phase = "starting"

-----------------------------------------------------------------------------
(* The operator. *)

Type(m, n) ==
    /\ ~closed /\ Len(typed) < MaxLines
    /\ typed' = Append(typed, [means |-> m, len |-> n, ended |-> TRUE])
    /\ UNCHANGED <<closed, line, off, reader, held, queue, taken, phase>>

CloseInput ==
    /\ ~closed /\ closed' = TRUE
    /\ \/ UNCHANGED typed
       \/ \E m \in Meanings, n \in 1 .. MaxLength :    \* a last line without its newline
             /\ Len(typed) < MaxLines
             /\ typed' = Append(typed, [means |-> m, len |-> n, ended |-> FALSE])
    /\ UNCHANGED <<line, off, reader, held, queue, taken, phase>>

-----------------------------------------------------------------------------
(* The reader thread. *)

Rest == typed[line].len - off
Got == IF Rest < Chunk THEN Rest ELSE Chunk
AtNewline == typed[line].ended /\ off + Got = typed[line].len

Hold(c) == held' = c /\ reader' = "put" /\ line' = line + 1 /\ off' = 0

\* Mutant: len(line)>128 never holds.
TooLongOffByOne == Got > Chunk

\* len(line)>=128
TooLong == Got >= Chunk

ReadLine ==
    /\ reader = "read" /\ line <= Len(typed)
    /\ \/ ~TooLong /\ Hold(Text(line, off, off + Got))
       \/ TooLong /\ AtNewline /\ Hold(Invalid(line))
       \/ TooLong /\ ~AtNewline /\ off' = off + Got /\ reader' = "discard" /\ UNCHANGED <<line, held>>
    /\ UNCHANGED <<typed, closed, queue, taken, phase>>

\* while line and not line.endswith('\n'): an empty string ends it at the end of the input
Discard ==
    /\ reader = "discard"
    /\ \/ (Got = 0 \/ AtNewline) /\ Hold(Invalid(line))
       \/ Got > 0 /\ ~AtNewline /\ off' = off + Got /\ UNCHANGED <<line, held, reader>>
    /\ UNCHANGED <<typed, closed, queue, taken, phase>>

ReadEof ==
    /\ reader = "read" /\ closed /\ line > Len(typed)
    /\ held' = Eof /\ reader' = "put"
    /\ UNCHANGED <<typed, closed, line, off, queue, taken, phase>>

ReadFails ==
    /\ reader \in {"read", "discard"}
    /\ held' = Failed /\ reader' = "put"
    /\ UNCHANGED <<typed, closed, line, off, queue, taken, phase>>

\* q.put blocks while the queue is full.
Put ==
    /\ reader = "put" /\ Len(queue) < Capacity
    /\ queue' = Append(queue, held)
    /\ reader' = IF held \in {Eof, Failed} THEN "done" ELSE "read"
    /\ held' = Eof
    /\ UNCHANGED <<typed, closed, line, off, taken, phase>>

Reader == ReadLine \/ Discard \/ ReadEof \/ Put

-----------------------------------------------------------------------------
(* The controller thread. *)

TakeHead == queue # <<>> /\ queue' = Tail(queue) /\ taken' = Append(taken, Head(queue))

Meaning(c) == IF c.is = "text" THEN typed[c.line].means ELSE c.is

\* What supervise does with a command.
AfterCommand(c) ==
    CASE Meaning(c) \in {"stop", "eof"} -> "stopping"
      [] Meaning(c) = "error" -> "failed"
      [] Meaning(c) = "request" -> "requesting"
      [] OTHER -> "running"

Take ==
    /\ phase = "running" /\ TakeHead
    /\ phase' = AfterCommand(Head(queue))
    /\ UNCHANGED <<typed, closed, line, off, reader, held>>

\* Nothing is taken while the owner starts, a request is under way or the Guest stops.
Proceed ==
    /\ \/ phase = "starting" /\ phase' \in {"running", "failed"}
       \/ phase = "requesting" /\ phase' \in {"running", "failed"}
       \/ phase = "stopping" /\ phase' \in {"ended", "failed"}
       \/ phase = "failed" /\ phase' \in {"ended", "retained"}
    /\ UNCHANGED <<typed, closed, line, off, reader, held, queue, taken>>

\* The deadline, or the Guest's end, is seen before a command is taken.
RunEnds ==
    /\ phase = "running" /\ phase' \in {"stopping", "failed"}
    /\ UNCHANGED <<typed, closed, line, off, reader, held, queue, taken>>

TakeRetained ==
    /\ phase = "retained" /\ TakeHead
    /\ UNCHANGED <<typed, closed, line, off, reader, held, phase>>

Release ==
    /\ phase = "retained" /\ phase' = "ended"
    /\ UNCHANGED <<typed, closed, line, off, reader, held, queue, taken>>

Next ==
    \/ \E m \in Meanings, n \in 1 .. MaxLength : Type(m, n)
    \/ CloseInput \/ ReadLine \/ Discard \/ ReadEof \/ ReadFails \/ Put
    \/ Take \/ Proceed \/ RunEnds \/ TakeRetained \/ Release

\* Both threads keep running; a request, a start and a stop are bounded by timeouts.
Fairness == WF_vars(Reader) /\ WF_vars(Take) /\ WF_vars(Proceed) /\ WF_vars(TakeRetained)

Spec == Init /\ [][Next]_vars
FairSpec == Spec /\ Fairness

-----------------------------------------------------------------------------
\* What line i must reach the controller as: itself, when it is shorter than
\* the chunk, and one refusal otherwise, whatever its tail looks like.
Due(i) == IF typed[i].len < Chunk THEN Text(i, 0, typed[i].len) ELSE Invalid(i)

Passed == taken \o queue \o (IF reader = "put" THEN <<held>> ELSE <<>>)

\* The controller sees one command per line, in the order typed, each the whole
\* line or a refusal of it: the tail of an overlong line (readline returns it in
\* pieces) is never taken for a command, and nothing typed before a stop or
\* before the end of the input overtakes it or is dropped at a full queue.
OneCommandPerLine ==
    \A i \in DOMAIN Passed :
        \/ i <= Len(typed) /\ Passed[i] = Due(i)
        \/ Passed[i] = Eof /\ closed /\ i = Len(typed) + 1
        \/ Passed[i] = Failed /\ i = Len(Passed)

\* Every line typed is one command in its place, whatever the queue, the reads and the
\* phase of the controller.
LinesKept == TypeOK /\ OneCommandPerLine

\* A closed input ends the run, also behind a full queue and behind requests in
\* progress: supervise takes everything up to __EOF__ (or an input error) and leaves
\* its loop; the reader is never left blocked in put by a loop that takes commands.
EofEndsRun == closed ~> phase \notin {"starting", "running", "requesting"}

=============================================================================
