------------------------- MODULE InstanceClaimProofs -------------------------
(***************************************************************************)
(* Two parts of a controller: its reader of commands for any lines, chunk  *)
(* and queue; and the claim protocol, safe for any number of controllers,  *)
(* killed or interrupted at any point.  Each has an inductive invariant    *)
(* (InputIInv, IInv) from which the safety properties follow.              *)
(***************************************************************************)
EXTENDS InstanceClaim, InputThread, TLAPS

\* A leaf may take longer than the default.
USE SMTT(60), ZenonT(60)

-----------------------------------------------------------------------------
(* The reader of commands: one command for a line, in its place.              *)

\* The commands that the controller has taken and those on the way, in number.
Delivered == Len(taken) + Len(queue)

\* What may be the i-th command, when more of them may follow: the i-th line.
IsLine(c, i) == i \in 1..Len(typed) /\ c = Input!Due(i)

\* What may be the last command, the i-th: the end of the input, or an error.
IsEnd(c, i) == c = Input!Failed \/ (c = Input!Eof /\ closed /\ i = Len(typed) + 1)

\* The reader has read the lines before its place, all of them, and part of this one.
InputPlaceInv ==
    /\ Len(typed) <= MaxLines
    /\ line <= Len(typed) + 1
    /\ reader = "read" => off = 0
    /\ reader = "discard" => line <= Len(typed) /\ Chunk <= typed[line].len /\ off <= typed[line].len
    /\ reader \in {"read", "discard"} => line = Delivered + 1
    /\ reader = "put" => \/ IsLine(held, Delivered + 1) /\ line = Delivered + 2 /\ off = 0
                         \/ IsEnd(held, Delivered + 1) /\ line = Delivered + 1

\* What it has passed on is a line each, but for the last command of a reader that is done.
PassedInv ==
    /\ \A i \in 1..Len(taken) :
          IsLine(taken[i], i) \/ (reader = "done" /\ i = Delivered /\ IsEnd(taken[i], i))
    /\ \A i \in 1..Len(queue) :
          \/ IsLine(queue[i], Len(taken) + i)
          \/ reader = "done" /\ Len(taken) + i = Delivered /\ IsEnd(queue[i], Len(taken) + i)

\* The inductive invariant of the reader and its queue.
InputIInv == Input!TypeOK /\ InputPlaceInv /\ PassedInv

\* A line typed, of the operator's choice.
Line == [means : Input!Meanings, len : 1 .. MaxLength, ended : BOOLEAN]

\* The commands there are.
LEMMA CommandFacts ==
    /\ Input!Eof \in Input!Command /\ Input!Failed \in Input!Command
    /\ \A i \in 1 .. MaxLines + 1 : Input!Invalid(i) \in Input!Command
    /\ \A i \in 1 .. MaxLines + 1, a, b \in 0 .. MaxLength : Input!Text(i, a, b) \in Input!Command
    /\ \A i \in Nat \ {0}, a, b \in Nat : /\ Input!Invalid(i) \notin {Input!Eof, Input!Failed}
                                         /\ Input!Text(i, a, b) \notin {Input!Eof, Input!Failed}
BY InputAssumption DEF Input!Eof, Input!Failed, Input!Invalid, Input!Text, Input!Command

\* A line has its length, and what is due for it is a command of its own.
LEMMA DueFacts ==
    ASSUME Input!TypeOK, Len(typed) <= MaxLines, NEW i \in 1 .. Len(typed)
    PROVE  /\ typed[i] \in Line /\ typed[i].len \in 1 .. MaxLength /\ i \in 1 .. MaxLines
           /\ Input!Due(i) \in Input!Command /\ Input!Due(i) \notin {Input!Eof, Input!Failed}
<1>1. typed \in Seq(Line)
  BY DEF Input!TypeOK, Line
<1>2. typed[i] \in Line /\ i \in 1 .. MaxLines
  BY <1>1, InputAssumption
<1>3. typed[i].len \in 1 .. MaxLength
  BY <1>2 DEF Line
<1> QED
  BY <1>2, <1>3, CommandFacts, InputAssumption DEF Input!Due

\* A new line at the end leaves the others as they are.
LEMMA TypedStays ==
    ASSUME Input!TypeOK, Len(typed) < MaxLines, NEW r \in Line, typed' = Append(typed, r)
    PROVE  /\ typed' \in Seq(Line) /\ Len(typed') = Len(typed) + 1
           /\ \A i \in 1 .. Len(typed) : typed'[i] = typed[i]
           /\ \A c, i : IsLine(c, i) => IsLine(c, i)'
<1>1. /\ typed' \in Seq(Line) /\ Len(typed') = Len(typed) + 1
      /\ \A i \in 1 .. Len(typed) : typed'[i] = typed[i]
  BY DEF Input!TypeOK, Line
<1>2. Len(typed) \in Nat
  BY DEF Input!TypeOK
<1> QED
  BY <1>1, <1>2 DEF IsLine, Input!Due

\* The operator types and closes; nothing that was passed on changes its meaning.
LEMMA OperatorStep ==
    ASSUME InputIInv, UNCHANGED <<line, off, reader, held, queue, taken, phase>>,
           \/ UNCHANGED typed
           \/ ~closed /\ Len(typed) < MaxLines /\ \E r \in Line : typed' = Append(typed, r),
           closed' \in BOOLEAN, closed => closed'
    PROVE  InputIInv'
<1>1. CASE UNCHANGED typed
  BY <1>1, ZenonT(60)
  DEF InputIInv, Input!TypeOK, InputPlaceInv, PassedInv, IsLine, IsEnd, Input!Due, Delivered
<1>2. CASE ~closed /\ Len(typed) < MaxLines /\ \E r \in Line : typed' = Append(typed, r)
  <2>1. /\ typed' \in Seq(Line) /\ Len(typed') = Len(typed) + 1
        /\ \A i \in 1 .. Len(typed) : typed'[i] = typed[i]
        /\ \A c, i : IsLine(c, i) => IsLine(c, i)'
    BY <1>2, TypedStays DEF InputIInv
  <2>2. Len(typed) \in Nat /\ line \in Nat
    BY InputAssumption DEF InputIInv, Input!TypeOK
  <2>3. \A c, i : IsEnd(c, i) => IsEnd(c, i)'
    BY <1>2 DEF IsEnd
  <2>4. Input!TypeOK'
    BY <2>1 DEF InputIInv, Input!TypeOK, Line
  <2>5. InputPlaceInv'
    BY <1>2, <2>1, <2>2, <2>3, InputAssumption DEF InputIInv, InputPlaceInv, Delivered
  <2>6. PassedInv'
    BY <2>1, <2>3, Zenon DEF InputIInv, PassedInv, Delivered
  <2> QED
    BY <2>4, <2>5, <2>6 DEF InputIInv
<1> QED
  BY <1>1, <1>2

\* The reader inside a line that is there.
LEMMA GotFacts ==
    ASSUME InputIInv, reader \in {"read", "discard"}, line <= Len(typed)
    PROVE  /\ line \in 1 .. Len(typed) /\ off \in Nat /\ typed[line].len \in 1 .. MaxLength
           /\ off <= typed[line].len /\ Input!Rest = typed[line].len - off
           /\ Input!Got \in Nat /\ off + Input!Got <= typed[line].len
           /\ Input!Got >= Chunk => typed[line].len >= Chunk
           /\ Input!Got < Chunk => off + Input!Got = typed[line].len
<1>1. line \in 1 .. Len(typed) /\ off \in Nat /\ Len(typed) <= MaxLines
  BY InputAssumption DEF InputIInv, Input!TypeOK, InputPlaceInv
<1>2. typed[line].len \in 1 .. MaxLength
  BY <1>1, DueFacts DEF InputIInv
<1>3. off <= typed[line].len
  BY <1>1, <1>2, InputAssumption DEF InputIInv, InputPlaceInv
<1> QED
  BY <1>1, <1>2, <1>3, InputAssumption DEF Input!Rest, Input!Got

\* Holding what is due for its line takes the reader to the next one.
LEMMA HoldStep ==
    ASSUME InputIInv, reader \in {"read", "discard"}, line \in 1 .. Len(typed),
           Input!Hold(Input!Due(line)),
           UNCHANGED <<typed, closed, queue, taken, phase>>
    PROVE  InputIInv'
<1>1. Len(typed) <= MaxLines /\ line = Delivered + 1
  BY DEF InputIInv, InputPlaceInv
<1>2. Input!Due(line) \in Input!Command
  BY <1>1, DueFacts DEF InputIInv
<1>3. Delivered \in Nat
  BY DEF InputIInv, Input!TypeOK, Delivered
<1>4. Input!TypeOK'
  BY <1>1, <1>2, InputAssumption DEF InputIInv, Input!TypeOK, Input!Hold
<1>5. InputPlaceInv'
  BY <1>1, <1>3 DEF InputIInv, InputPlaceInv, Input!Hold, IsLine, Input!Due, Delivered
<1>6. PassedInv'
  BY Zenon DEF InputIInv, PassedInv, Input!Hold, IsLine, IsEnd, Input!Due, Delivered
<1> QED
  BY <1>4, <1>5, <1>6 DEF InputIInv

\* Reading on in a line that is too long.
LEMMA SkipStep ==
    ASSUME InputIInv, reader \in {"read", "discard"}, line \in 1 .. Len(typed),
           Chunk <= typed[line].len, off' = off + Input!Got, reader' = "discard",
           UNCHANGED <<typed, closed, line, held, queue, taken, phase>>
    PROVE  InputIInv'
<1>1. off' \in 0 .. MaxLength /\ off' <= typed[line].len
  BY GotFacts, InputAssumption
<1>2. Input!TypeOK'
  BY <1>1 DEF InputIInv, Input!TypeOK
<1>3. InputPlaceInv'
  BY <1>1 DEF InputIInv, InputPlaceInv, Delivered
<1>4. PassedInv'
  BY Zenon DEF InputIInv, PassedInv, IsLine, IsEnd, Input!Due, Delivered
<1> QED
  BY <1>2, <1>3, <1>4, Zenon DEF InputIInv

\* The reader takes up a line.
LEMMA ReadLineStep == InputIInv /\ Input!ReadLine => InputIInv'
<1> SUFFICES ASSUME InputIInv, Input!ReadLine PROVE InputIInv'
  OBVIOUS
<1>1. off = 0 /\ line \in 1 .. Len(typed)
  BY GotFacts, Zenon DEF Input!ReadLine, InputIInv, InputPlaceInv
<1>2. CASE ~Input!TooLong /\ Input!Hold(Input!Text(line, off, off + Input!Got))
  <2>1. Input!Due(line) = Input!Text(line, off, off + Input!Got)
    BY <1>1, <1>2, GotFacts, InputAssumption DEF Input!TooLong, Input!Due, Input!ReadLine
  <2> QED
    BY <1>1, <1>2, <2>1, HoldStep DEF Input!ReadLine
<1>3. CASE Input!TooLong /\ Input!Hold(Input!Invalid(line))
  <2>1. Input!Due(line) = Input!Invalid(line)
    BY <1>1, <1>3, GotFacts, InputAssumption DEF Input!TooLong, Input!Due, Input!ReadLine
  <2> QED
    BY <1>1, <1>3, <2>1, HoldStep DEF Input!ReadLine
<1>4. CASE /\ Input!TooLong /\ off' = off + Input!Got /\ reader' = "discard"
           /\ UNCHANGED <<line, held>>
  BY <1>1, <1>4, GotFacts, SkipStep DEF Input!TooLong, Input!ReadLine
<1> QED
  BY <1>2, <1>3, <1>4 DEF Input!ReadLine

\* The rest of a line that is too long is thrown away, and the line refused once.
LEMMA DiscardStep == InputIInv /\ Input!Discard => InputIInv'
<1> SUFFICES ASSUME InputIInv, Input!Discard PROVE InputIInv'
  OBVIOUS
<1>1. line \in 1 .. Len(typed) /\ Chunk <= typed[line].len
  BY InputAssumption DEF Input!Discard, InputIInv, InputPlaceInv, Input!TypeOK
<1>2. CASE Input!Hold(Input!Invalid(line))
  <2>1. Input!Due(line) = Input!Invalid(line)
    BY <1>1, GotFacts, InputAssumption DEF Input!Due, Input!Discard
  <2> QED
    BY <1>1, <1>2, <2>1, HoldStep, Zenon DEF Input!Discard
<1>3. CASE off' = off + Input!Got /\ UNCHANGED <<line, held, reader>>
  BY <1>1, <1>3, SkipStep, Zenon DEF Input!Discard
<1> QED
  BY <1>2, <1>3 DEF Input!Discard

\* The end of the input, or an error, is the last thing the reader holds.
LEMMA EndStep == InputIInv /\ (Input!ReadEof \/ Input!ReadFails) => InputIInv'
<1> SUFFICES ASSUME InputIInv, Input!ReadEof \/ Input!ReadFails PROVE InputIInv'
  OBVIOUS
<1>1. UNCHANGED <<typed, closed, line, off, queue, taken, phase>> /\ reader' = "put"
      /\ reader \in {"read", "discard"}
  BY DEF Input!ReadEof, Input!ReadFails
<1>2. line = Delivered + 1 /\ IsEnd(held', Delivered + 1) /\ held' \in {Input!Eof, Input!Failed}
  <2>1. CASE Input!ReadEof
    <3>1. line = Len(typed) + 1
      BY <2>1, InputAssumption DEF Input!ReadEof, InputIInv, InputPlaceInv, Input!TypeOK
    <3> QED
      BY <2>1, <3>1 DEF Input!ReadEof, InputIInv, InputPlaceInv, IsEnd
  <2>2. CASE Input!ReadFails
    BY <2>2 DEF Input!ReadFails, InputIInv, InputPlaceInv, IsEnd
  <2> QED
    BY <2>1, <2>2
<1>3. Input!TypeOK'
  BY <1>1, <1>2, CommandFacts DEF InputIInv, Input!TypeOK
<1>4. InputPlaceInv'
  BY <1>1, <1>2 DEF InputIInv, InputPlaceInv, Delivered, IsEnd
<1>5. PassedInv'
  BY <1>1, Zenon DEF InputIInv, PassedInv, Delivered, IsLine, IsEnd, Input!Due
<1> QED
  BY <1>3, <1>4, <1>5 DEF InputIInv

\* What was held becomes the last in the queue.
LEMMA PutStep == InputIInv /\ Input!Put => InputIInv'
<1> SUFFICES ASSUME InputIInv, Input!Put PROVE InputIInv'
  OBVIOUS
<1>1. /\ queue' \in Seq(Input!Command) /\ Len(queue') = Len(queue) + 1
      /\ queue'[Len(queue) + 1] = held
      /\ \A i \in 1 .. Len(queue) : queue'[i] = queue[i]
  BY DEF InputIInv, Input!TypeOK, Input!Put
<1>2. Len(queue) \in Nat /\ Len(taken) \in Nat /\ Delivered' = Delivered + 1 /\ Delivered \in Nat
  BY <1>1 DEF InputIInv, Input!TypeOK, Input!Put, Delivered
<1>3. \A c, i : (IsLine(c, i) <=> IsLine(c, i)') /\ (IsEnd(c, i) <=> IsEnd(c, i)')
  BY DEF Input!Put, IsLine, IsEnd, Input!Due
<1>4. Input!TypeOK'
  BY <1>1, CommandFacts, InputAssumption DEF InputIInv, Input!TypeOK, Input!Put
<1>5. CASE IsLine(held, Delivered + 1) /\ line = Delivered + 2 /\ off = 0
  <2>1. reader' = "read"
    BY <1>5, DueFacts, Zenon DEF Input!Put, IsLine, InputIInv, InputPlaceInv
  <2>2. InputPlaceInv'
    BY <1>2, <1>5, <2>1 DEF InputIInv, InputPlaceInv, Input!Put
  <2>3. PassedInv'
    BY <1>1, <1>2, <1>3, <1>5, <2>1 DEF InputIInv, PassedInv, Input!Put, Delivered
  <2> QED
    BY <1>4, <2>2, <2>3 DEF InputIInv
<1>6. CASE IsEnd(held, Delivered + 1) /\ line = Delivered + 1
  <2>1. reader' = "done"
    BY <1>6 DEF Input!Put, IsEnd
  <2>2. InputPlaceInv'
    BY <2>1 DEF InputIInv, InputPlaceInv, Input!Put
  <2>3. \A i \in 1 .. Len(taken) : IsLine(taken[i], i)
    BY Zenon DEF InputIInv, PassedInv, Input!Put
  <2>4. \A i \in 1 .. Len(queue) : IsLine(queue[i], Len(taken) + i)
    BY DEF InputIInv, PassedInv, Input!Put
  <2>5. \A i \in 1 .. Len(queue') :
           \/ IsLine(queue'[i], Len(taken) + i)
           \/ Len(taken) + i = Delivered' /\ IsEnd(queue'[i], Len(taken) + i)
    BY <1>1, <1>2, <1>6, <2>4 DEF Delivered
  <2>6. PassedInv'
    BY <1>3, <2>1, <2>3, <2>5, Zenon DEF PassedInv, Input!Put
  <2> QED
    BY <1>4, <2>2, <2>6 DEF InputIInv
<1> QED
  BY <1>5, <1>6, Zenon DEF InputIInv, InputPlaceInv, Input!Put

\* The head of the queue becomes the last that was taken.
LEMMA TakeStep ==
    ASSUME InputIInv, Input!TakeHead, UNCHANGED <<typed, closed, line, off, reader, held>>,
           phase' \in {"starting", "running", "requesting", "stopping", "failed", "retained",
                       "ended"}
    PROVE  InputIInv'
<1>1. Len(queue) \in Nat \ {0} /\ Len(taken) \in Nat
  BY DEF InputIInv, Input!TypeOK, Input!TakeHead
<1>2. /\ queue' \in Seq(Input!Command) /\ Len(queue') = Len(queue) - 1
      /\ \A i \in 1 .. Len(queue) - 1 : queue'[i] = queue[i + 1]
  BY <1>1 DEF InputIInv, Input!TypeOK, Input!TakeHead
<1>3. queue[1] \in Input!Command /\ Head(queue) = queue[1]
  BY <1>1 DEF InputIInv, Input!TypeOK
<1>4. /\ taken' \in Seq(Input!Command) /\ Len(taken') = Len(taken) + 1
      /\ taken'[Len(taken) + 1] = queue[1]
      /\ \A i \in 1 .. Len(taken) : taken'[i] = taken[i]
  BY <1>3 DEF InputIInv, Input!TypeOK, Input!TakeHead
<1>5. Delivered' = Delivered
  BY <1>1, <1>2, <1>4 DEF Delivered
<1>6. \A c, i : (IsLine(c, i) <=> IsLine(c, i)') /\ (IsEnd(c, i) <=> IsEnd(c, i)')
  BY DEF IsLine, IsEnd, Input!Due
<1>7. Input!TypeOK'
  BY <1>1, <1>2, <1>4, InputAssumption DEF InputIInv, Input!TypeOK
<1>8. InputPlaceInv'
  BY <1>5, <1>6 DEF InputIInv, InputPlaceInv
<1>9. PassedInv'
  <2>1. ASSUME NEW i \in 1 .. Len(taken')
        PROVE  IsLine(taken'[i], i) \/ (reader = "done" /\ i = Delivered /\ IsEnd(taken'[i], i))
    <3>1. CASE i \in 1 .. Len(taken)
      BY <3>1, <1>4 DEF InputIInv, PassedInv
    <3>2. CASE i = Len(taken) + 1
      BY <3>2, <1>1, <1>4 DEF InputIInv, PassedInv
    <3> QED
      BY <3>1, <3>2, <1>1, <1>4
  <2>2. ASSUME NEW i \in 1 .. Len(queue')
        PROVE  \/ IsLine(queue'[i], Len(taken') + i)
               \/ reader = "done" /\ Len(taken') + i = Delivered /\ IsEnd(queue'[i],
                                                                          Len(taken') + i)
    <3>1. /\ i + 1 \in 1 .. Len(queue) /\ queue'[i] = queue[i + 1]
          /\ Len(taken') + i = Len(taken) + (i + 1)
      BY <1>1, <1>2, <1>4
    <3> QED
      BY <3>1 DEF InputIInv, PassedInv
  <2> QED
    BY <2>1, <2>2, <1>5, <1>6, Zenon DEF PassedInv
<1> QED
  BY <1>7, <1>8, <1>9 DEF InputIInv

\* Every step of the operator, the reader and the controller keeps the invariant.
LEMMA InputIInvStep == InputIInv /\ [Input!Next]_Input!vars => InputIInv'
<1> SUFFICES ASSUME InputIInv, [Input!Next]_Input!vars PROVE InputIInv'
  OBVIOUS
<1>1. ASSUME NEW m \in Input!Meanings, NEW n \in 1 .. MaxLength, Input!Type(m, n) PROVE InputIInv'
  <2>1. [means |-> m, len |-> n, ended |-> TRUE] \in Line
    BY DEF Line
  <2> QED
    BY <1>1, <2>1, OperatorStep DEF Input!Type, InputIInv, Input!TypeOK
<1>2. CASE Input!CloseInput
  <2>1. \A m \in Input!Meanings, n \in 1 .. MaxLength :
          [means |-> m, len |-> n, ended |-> FALSE] \in Line
    BY DEF Line
  <2>2. ~closed /\ closed' = TRUE /\ UNCHANGED <<line, off, reader, held, queue, taken, phase>>
    BY <1>2 DEF Input!CloseInput
  <2>3. CASE UNCHANGED typed
    BY <2>2, <2>3, OperatorStep
  <2>4. ASSUME NEW m \in Input!Meanings, NEW n \in 1 .. MaxLength, Len(typed) < MaxLines,
               typed' = Append(typed, [means |-> m, len |-> n, ended |-> FALSE])
        PROVE  InputIInv'
    <3>1. \E r \in Line : typed' = Append(typed, r)
      BY <2>1, <2>4
    <3> QED
      BY <2>2, <2>4, <3>1, OperatorStep
  <2> QED
    BY <1>2, <2>3, <2>4, Zenon DEF Input!CloseInput
<1>3. CASE Input!Take
  <2>1. phase' \in {"stopping", "failed", "requesting", "running"}
    BY <1>3 DEF Input!Take, Input!AfterCommand
  <2> QED
    BY <1>3, <2>1, TakeStep DEF Input!Take
<1>4. CASE Input!TakeRetained
  BY <1>4, TakeStep DEF Input!TakeRetained
<1>5. CASE Input!Proceed \/ Input!RunEnds \/ Input!Release
  <2>1. /\ phase' \in {"running", "failed", "ended", "stopping", "retained"}
        /\ UNCHANGED <<typed, closed, line, off, reader, held, queue, taken>>
    BY <1>5 DEF Input!Proceed, Input!RunEnds, Input!Release
  <2>2. Input!TypeOK'
    BY <2>1 DEF InputIInv, Input!TypeOK
  <2>3. InputPlaceInv' /\ PassedInv'
    BY <2>1, ZenonT(60) DEF InputIInv, InputPlaceInv, PassedInv, IsLine, IsEnd, Input!Due, Delivered
  <2> QED
    BY <2>2, <2>3 DEF InputIInv
<1>6. CASE UNCHANGED Input!vars
  BY <1>6, ZenonT(60) DEF Input!vars, InputIInv, Input!TypeOK, InputPlaceInv, PassedInv, IsLine, IsEnd,
     Input!Due, Delivered
<1> QED
  BY <1>1, <1>2, <1>3, <1>4, <1>5, <1>6, ReadLineStep, DiscardStep, EndStep, PutStep DEF Input!Next

\* Nothing has been typed at the start.
LEMMA InputIInvInit == Input!Init => InputIInv
<1> SUFFICES ASSUME Input!Init PROVE InputIInv
  OBVIOUS
<1>1. Len(typed) = 0 /\ Len(queue) = 0 /\ Len(taken) = 0
  BY DEF Input!Init
<1>2. Input!TypeOK
  <2>1. typed \in Seq(Line) /\ queue \in Seq(Input!Command) /\ taken \in Seq(Input!Command)
    BY DEF Input!Init
  <2>2. line \in 1 .. MaxLines + 1 /\ off \in 0 .. MaxLength /\ Len(queue) <= QueueSize
    BY <1>1, InputAssumption DEF Input!Init
  <2>3. held \in Input!Command
    BY CommandFacts DEF Input!Init
  <2>4. closed = FALSE /\ reader = "read" /\ phase = "starting"
    BY DEF Input!Init
  <2>5. closed \in BOOLEAN
    BY <2>4, Zenon
  <2> QED
    BY <2>1, <2>2, <2>3, <2>4, <2>5 DEF Input!TypeOK, Line
<1>3. InputPlaceInv /\ PassedInv
  BY <1>1, InputAssumption DEF Input!Init, InputPlaceInv, PassedInv, Delivered
<1> QED
  BY <1>2, <1>3 DEF InputIInv

\* What was passed on, read in one sequence.
LEMMA KeptFollows == InputIInv => LinesKept
<1> SUFFICES ASSUME InputIInv, NEW i \in DOMAIN Input!Passed
             PROVE  \/ i <= Len(typed) /\ Input!Passed[i] = Input!Due(i)
                    \/ Input!Passed[i] = Input!Eof /\ closed /\ i = Len(typed) + 1
                    \/ Input!Passed[i] = Input!Failed /\ i = Len(Input!Passed)
  BY DEF LinesKept, Input!LinesKept, Input!OneCommandPerLine, InputIInv
<1> DEFINE h == IF reader = "put" THEN <<held>> ELSE <<>>
<1>1. /\ taken \in Seq(Input!Command) /\ queue \in Seq(Input!Command) /\ h \in Seq(Input!Command)
      /\ Len(taken) \in Nat /\ Len(queue) \in Nat /\ Delivered = Len(taken) + Len(queue)
      /\ Len(h) = IF reader = "put" THEN 1 ELSE 0
      /\ reader = "put" => h[1] = held
  BY DEF InputIInv, Input!TypeOK, Delivered
<1> HIDE DEF h
<1>2. taken \o queue \in Seq(Input!Command) /\ Len(taken \o queue) = Delivered
  BY <1>1
<1>3. /\ Input!Passed = (taken \o queue) \o h /\ Len(Input!Passed) = Delivered + Len(h)
      /\ i \in 1 .. Len(Input!Passed)
  BY <1>1, <1>2 DEF Input!Passed, h
<1>4. CASE i \in 1 .. Len(taken)
  <2>1. Input!Passed[i] = taken[i]
    BY <1>1, <1>2, <1>3, <1>4
  <2>2. reader = "done" => Len(Input!Passed) = Delivered
    BY <1>1, <1>2, <1>3
  <2> QED
    BY <1>4, <2>1, <2>2 DEF InputIInv, PassedInv, IsLine, IsEnd
<1>5. CASE i \in Len(taken) + 1 .. Delivered
  <2>1. i - Len(taken) \in 1 .. Len(queue) /\ i = Len(taken) + (i - Len(taken))
    BY <1>1, <1>5
  <2>2. Input!Passed[i] = queue[i - Len(taken)]
    BY <1>1, <1>2, <1>3, <1>5, <2>1
  <2>3. reader = "done" => Len(Input!Passed) = Delivered
    BY <1>1, <1>2, <1>3
  <2> QED
    BY <2>1, <2>2, <2>3 DEF InputIInv, PassedInv, IsLine, IsEnd
<1>6. CASE i = Delivered + 1 /\ reader = "put"
  <2>1. Input!Passed[i] = held /\ i = Len(Input!Passed)
    BY <1>1, <1>2, <1>3, <1>6
  <2> QED
    BY <1>6, <2>1 DEF InputIInv, InputPlaceInv, IsLine, IsEnd
<1> QED
  BY <1>1, <1>3, <1>4, <1>5, <1>6

\* Every line typed reaches the controller as one command in its place, for any chunk,
\* any size of the queue and any lines.
THEOREM LinesStayKept == Input!Spec => []LinesKept
BY InputIInvInit, InputIInvStep, KeptFollows, PTL DEF Input!Spec

-----------------------------------------------------------------------------
(* The claim protocol. *)

\* What entry.create writes is a record.
LEMMA PreparedType == Prepared \in Records
BY DEF Prepared, Records, States, Attempts

\* What a controller saves is a record, at every save point.
LEMMA PendingType ==
    ASSUME NEW c \in Controllers, mine[c] \in Records, disk \in Attempts
    PROVE  Pending(c) \in Records
<1> DEFINE emitted(s) == [mine[c] EXCEPT !.state = s, !.reaped = FALSE,
                                         !.needsRecovery = FALSE, !.snap = None]
           unknown == [mine[c] EXCEPT !.state = "UNKNOWN", !.reaped = FALSE,
                                      !.needsRecovery = TRUE]
<1>1. \A s \in States : emitted(s) \in Records
  BY Zenon DEF Records, Attempts
<1>2. unknown \in Records
  BY Zenon DEF Records, States
<1>3. [mine[c] EXCEPT !.state = "STARTING", !.attempt = c] \in Records
  BY Zenon DEF Records, States, Attempts
<1>4. \A r \in Records : [r EXCEPT !.reaped = TRUE, !.snap = disk] \in Records
  BY Zenon DEF Records
<1>5. [unknown EXCEPT !.snap = IF mine[c].state \in {"STOPPED", "UNKNOWN"}
                               THEN mine[c].snap ELSE None] \in Records
  BY <1>2, ZenonT(60) DEF Records, Attempts
<1> QED
  BY <1>1, <1>2, <1>3, <1>4, <1>5, Zenon DEF Pending, States

\* The state a controller saves is the one its save point stands for.
LEMMA PendingState ==
    ASSUME NEW c \in Controllers, mine[c] \in Records
    PROVE  /\ Pending(c).state = SavedState(pc[c])
           /\ pc[c] # "starting" => Pending(c).attempt = mine[c].attempt
           /\ pc[c] = "starting" => Pending(c).attempt = c
           /\ Pending(c).id = mine[c].id
           /\ pc[c] = "stopped" => Pending(c).reaped /\ Pending(c).snap = disk
           /\ pc[c] = "starting" => Pending(c).snap = mine[c].snap
BY DEF Pending, SavedState, Records

\* No instance has been prepared, claimed or launched at the start.
LEMMA InvInit == Init => IInv
<1> SUFFICES ASSUME Init PROVE IInv
  OBVIOUS
<1> USE DEF Init
<1>1. TypeOK
  BY PreparedType, Zenon DEF TypeOK, Attempts, PCs
<1>2. ClaimInv
  BY Zenon DEF ClaimInv, Waiting, Early, Active, Failed, Owning
<1>3. ProvenInv
  BY DEF ProvenInv, Fresh, Early
<1>4. RecordInv /\ WriteInv /\ EligibleInv
  BY DEF RecordInv, WriteInv, EligibleInv, Active
<1> QED
  BY <1>1, <1>2, <1>3, <1>4 DEF IInv

\* Every step of a controller, of a VM session and of the world keeps IInv.
LEMMA InvNext ==
    ASSUME IInv, [Next]_vars
    PROVE  IInv'
<1> USE NoneAssumption DEF IInv, TypeOK, ClaimInv, ProvenInv, RecordInv, WriteInv, EligibleInv,
        Fresh, Stopped, Late, GaveBack, SavedState, Attempts, Goto, Refuse, files,
        Waiting, Early, Active, Failed, Owning, SavePoints, PCs
<1>1. ASSUME NEW c \in Controllers, NEW m \in {"create", "start", "resume"}, Begin(c, m)
      PROVE  IInv'
  BY <1>1 DEF Begin
<1>2. ASSUME NEW c \in Controllers, CreateDir(c) PROVE IInv'
  BY <1>2 DEF CreateDir
<1>3. ASSUME NEW c \in Controllers, CreateRecord(c) PROVE IInv'
  BY <1>3, PreparedType DEF CreateRecord, Prepared
<1>4. ASSUME NEW c \in Controllers, CreatePlan(c) PROVE IInv'
  BY <1>4 DEF CreatePlan
<1>5. ASSUME NEW c \in Controllers, ReadRecord(c) PROVE IInv'
  BY <1>5 DEF ReadRecord
<1>6. ASSUME NEW c \in Controllers, Preflight(c) PROVE IInv'
  BY <1>6 DEF Preflight
<1>7. ASSUME NEW c \in Controllers, CheckIdentity(c) PROVE IInv'
  BY <1>7 DEF CheckIdentity
<1>8. ASSUME NEW c \in Controllers, LookClaim(c) PROVE IInv'
  BY <1>8 DEF LookClaim
<1>9. ASSUME NEW c \in Controllers, AwaitPort(c) PROVE IInv'
  BY <1>9 DEF AwaitPort
<1>10. ASSUME NEW c \in Controllers, TakeClaim(c) PROVE IInv'
  BY <1>10 DEF TakeClaim
<1>11. ASSUME NEW c \in Controllers, WriteToken(c) PROVE IInv'
  BY <1>11 DEF WriteToken
<1>12. ASSUME NEW c \in Controllers, Revalidate(c) PROVE IInv'
  BY <1>12 DEF Revalidate
<1>13. ASSUME NEW c \in Controllers, ReleaseClaim(c) PROVE IInv'
  BY <1>13 DEF ReleaseClaim
<1>14. ASSUME NEW c \in Controllers, Prepare(c) PROVE IInv'
  <2>1. TypeOK'
    <3>1. root' \in BOOLEAN
      BY <1>14, ZenonT(60) DEF Prepare
    <3> QED
      BY <1>14, <3>1 DEF Prepare
  <2>2. ClaimInv'
    BY <1>14 DEF Prepare
  <2>3. ProvenInv'
    BY <1>14 DEF Prepare
  <2>4. RecordInv'
    BY <1>14 DEF Prepare
  <2>5. WriteInv'
    BY <1>14 DEF Prepare
  <2>6. EligibleInv'
    BY <1>14 DEF Prepare
  <2> QED
    BY <2>1, <2>2, <2>3, <2>4, <2>5, <2>6
<1>15. ASSUME NEW c \in Controllers, VerifyResume(c) PROVE IInv'
  BY <1>15 DEF VerifyResume, CanSnapshot, CanResume
<1>16. ASSUME NEW c \in Controllers, WriteNext(c) PROVE IInv'
  <2>1. TypeOK'
    BY <1>16, PendingType DEF WriteNext
  <2>2. ClaimInv'
    BY <1>16, PendingState DEF WriteNext
  <2>3. ProvenInv'
    BY <1>16, PendingState DEF WriteNext
  <2>4. RecordInv'
    BY <1>16, PendingState DEF WriteNext
  <2>5. WriteInv'
    BY <1>16, PendingState DEF WriteNext
  <2>6. EligibleInv'
    BY <1>16, PendingState DEF WriteNext
  <2> QED
    BY <2>1, <2>2, <2>3, <2>4, <2>5, <2>6
<1>17. ASSUME NEW c \in Controllers, ReplaceRecord(c) PROVE IInv'
  BY <1>17 DEF ReplaceRecord, AfterSave, AfterError, OnSave, OnError
<1>18. ASSUME NEW c \in Controllers, SaveFails(c) PROVE IInv'
  <2>1. TypeOK'
    BY <1>18, PendingType DEF SaveFails, AfterError, OnError
  <2>2. ClaimInv'
    BY <1>18, PendingState DEF SaveFails, AfterError, OnError
  <2>3. ProvenInv'
    BY <1>18, PendingState DEF SaveFails, AfterError, OnError
  <2>4. RecordInv'
    BY <1>18, PendingState DEF SaveFails, AfterError, OnError
  <2>5. WriteInv'
    BY <1>18, PendingState DEF SaveFails, AfterError, OnError
  <2>6. EligibleInv'
    BY <1>18, PendingState DEF SaveFails, AfterError, OnError
  <2> QED
    BY <2>1, <2>2, <2>3, <2>4, <2>5, <2>6
<1>19. ASSUME NEW c \in Controllers, Launch(c) PROVE IInv'
  BY <1>19 DEF Launch
<1>20. ASSUME NEW c \in Controllers, Boot(c) PROVE IInv'
  <2>1. TypeOK'
    BY <1>20 DEF Boot, Records
  <2>2. ClaimInv'
    BY <1>20 DEF Boot
  <2>3. ProvenInv'
    BY <1>20 DEF Boot
  <2>4. RecordInv'
    BY <1>20 DEF Boot, Records
  <2>5. WriteInv'
    BY <1>20 DEF Boot
  <2>6. EligibleInv'
    BY <1>20 DEF Boot
  <2> QED
    BY <2>1, <2>2, <2>3, <2>4, <2>5, <2>6
<1>21. ASSUME NEW c \in Controllers, Serve(c) PROVE IInv'
  BY <1>21 DEF Serve
<1>22. ASSUME NEW c \in Controllers, Drain(c) PROVE IInv'
  BY <1>22 DEF Drain, CanSnapshot
<1>23. ASSUME NEW c \in Controllers, Retain(c) PROVE IInv'
  BY <1>23 DEF Retain
<1>24. ASSUME NEW c \in Controllers, UnlinkClaim(c) PROVE IInv'
  BY <1>24 DEF UnlinkClaim
<1>25. ASSUME NEW c \in Controllers, Crash(c) PROVE IInv'
  BY <1>25 DEF Crash
<1>26. ASSUME NEW c \in Controllers, GuestWrites(c) PROVE IInv'
  BY <1>26 DEF GuestWrites
<1>27. ASSUME NEW c \in Controllers, SessionEnds(c) PROVE IInv'
  BY <1>27 DEF SessionEnds
<1>28. CASE UNCHANGED vars
  BY <1>28 DEF vars
<1> HIDE DEF IInv
<1> QED
  BY <1>1, <1>2, <1>3, <1>4, <1>5, <1>6, <1>7, <1>8, <1>9, <1>10, <1>11, <1>12, <1>13, <1>14,
     <1>15, <1>16, <1>17, <1>18, <1>19, <1>20, <1>21, <1>22, <1>23, <1>24, <1>25, <1>26, <1>27,
     <1>28 DEF Next, Step

\* IInv holds in every reachable state.
THEOREM Inductive == Spec => []IInv
<1>1. IInv /\ [Next]_vars => IInv'
  BY InvNext
<1> QED
  BY InvInit, <1>1, PTL DEF Spec

\* Two VM sessions never run on one instance.
THEOREM AtMostOneSession == Spec => []OneLiveSession
<1>1. IInv => OneLiveSession
  BY DEF IInv, ClaimInv, OneLiveSession
<1> QED
  BY Inductive, <1>1, PTL

\* An instance without a claim was never launched, is stopped as recorded, or says UNKNOWN.
THEOREM FreeInstanceIsProven == Spec => []UnclaimedIsProven
<1>1. IInv => UnclaimedIsProven
  BY NoneAssumption DEF IInv, ClaimInv, ProvenInv, Fresh, Stopped, Late, UnclaimedIsProven, NoHolder
<1> QED
  BY Inductive, <1>1, PTL

\* A VM is launched on the disks and the identity of the last healthy stop.
THEOREM LaunchesOnRecordedDisks == Spec => []LaunchOnRecordedDisks
<1>1. IInv => LaunchOnRecordedDisks
  BY DEF IInv, EligibleInv, LaunchOnRecordedDisks
<1> QED
  BY Inductive, <1>1, PTL

\* A record that says UNKNOWN says so for ever, but for one written late by an attempt that
\* had given its claim back.
THEOREM UnknownStays == Spec => UnknownIsFinal
<1> DEFINE Unknown == record # None /\ record.state = "UNKNOWN"
           Kept == /\ record' # None
                   /\ \/ record'.state = "UNKNOWN"
                      \/ /\ GaveBack(record.attempt) /\ claim # None
                         /\ record'.attempt = claim /\ pc[claim] \notin Failed
<1>1. ASSUME IInv, Next, Unknown, record' # record
      PROVE  Kept
  <2>1. ASSUME NEW c \in Controllers, ReplaceRecord(c) PROVE Kept
    <3>1. /\ pc[c] \in SavePoints /\ record' = mine[c] /\ record' # None
          /\ mine[c].state = SavedState(pc[c])
      BY <2>1, <1>1, NoneAssumption DEF ReplaceRecord, IInv, WriteInv, TypeOK
    <3>2. CASE pc[c] \in Failed \cup {"late"}
      BY <3>1, <3>2 DEF SavedState, Failed
    <3>3. CASE pc[c] \notin Failed \cup {"late"}
      <4>1. claim = c /\ claim # None
        BY <3>1, <3>3, NoneAssumption, <1>1
           DEF IInv, ClaimInv, Owning, Early, Active, Failed, SavePoints
      <4>2. GaveBack(record.attempt)
        BY <3>1, <3>3, <4>1, <1>1 DEF IInv, RecordInv, Late, SavePoints, Failed
      <4>3. mine[c].attempt = c
        BY <2>1, <3>1, <3>3, <1>1
           DEF ReplaceRecord, IInv, RecordInv, WriteInv, Active, SavePoints, Failed
      <4> QED
        BY <3>1, <3>3, <4>1, <4>2, <4>3
    <3> QED
      BY <3>2, <3>3
  <2>2. ASSUME NEW c \in Controllers, CreateRecord(c) PROVE Kept
    BY <2>2, <1>1 DEF CreateRecord
  <2> HIDE DEF Unknown, Kept
  <2> QED
    BY <2>1, <2>2, <1>1 DEF Next, Step, Begin, CreateDir, CreatePlan, ReadRecord, Preflight,
       CheckIdentity, LookClaim, AwaitPort, TakeClaim, WriteToken, Revalidate, ReleaseClaim,
       Prepare, VerifyResume, WriteNext, SaveFails, Launch, Boot, Serve, Drain, Retain,
       UnlinkClaim, Crash, GuestWrites, SessionEnds, files
<1>2. IInv /\ [Next]_vars => [Unknown => Kept]_record
  BY <1>1 DEF vars, files
<1> QED
  BY Inductive, <1>2, PTL DEF Spec, UnknownIsFinal

\* A claim is removed by its creator only, unlaunched or after its STOPPED was recorded.
THEOREM ClaimsAreRetained == Spec => ClaimRemovedByOwner
<1> DEFINE Removal ==
      claim # None /\ claim' # claim =>
          /\ claim' = None
          /\ \/ vm[claim] = "none" /\ pc[claim] = "release"
             \/ /\ vm[claim] = "gone" /\ record # None
                /\ \/ record = mine[claim] /\ record.state = "STOPPED" /\ record.attempt = claim
                   \/ record.state = "UNKNOWN" /\ GaveBack(record.attempt)
<1>1. ASSUME IInv, Next, claim' # claim
      PROVE  Removal
  <2>1. ASSUME NEW c \in Controllers, ReleaseClaim(c) PROVE Removal
    BY <2>1, <1>1 DEF ReleaseClaim, IInv, ClaimInv, Early, Owning
  <2>2. ASSUME NEW c \in Controllers, UnlinkClaim(c) PROVE Removal
    BY <2>2, <1>1 DEF UnlinkClaim, IInv, ClaimInv, ProvenInv, Stopped, Late, Owning
  <2>3. ASSUME NEW c \in Controllers, TakeClaim(c) PROVE Removal
    BY <2>3, <1>1 DEF TakeClaim
  <2> HIDE DEF Removal
  <2> QED
    BY <2>1, <2>2, <2>3, <1>1 DEF Next, Step, Begin, CreateDir, CreateRecord, CreatePlan,
       ReadRecord, Preflight, CheckIdentity, LookClaim, AwaitPort, WriteToken, Revalidate, Prepare,
       VerifyResume, WriteNext, ReplaceRecord, SaveFails, Launch, Boot, Serve, Drain, Retain,
       Crash, GuestWrites, SessionEnds, files
<1>2. IInv /\ [Next]_vars => [Removal]_claim
  BY <1>1 DEF vars, files
<1> QED
  BY Inductive, <1>2, PTL DEF Spec, ClaimRemovedByOwner

-----------------------------------------------------------------------------
(* Every attempt is a life of Lifetime *)

\* No record, on disk or in memory, names the attempt of c yet.
Unnamed(c) ==
    /\ record # None => record.attempt # c
    /\ next # None => next.attempt # c
    /\ \A d \in Controllers : mine[d].attempt # c

\* The state that the attempt has published when its controller is at l and saves nothing.
Reached(l) ==
    CASE l \in {"launch", "started", "boot"} -> {"STARTING"}
      [] l = "running" -> {"STARTING", "RUNNING"}
      [] l \in {"serve", "stopping"} -> {"RUNNING"}
      [] l \in {"drain", "stopped"} -> {"STOPPING"}
      [] l = "unlink" -> {"STOPPED"}
      [] l \in {"reporting", "retain", "final"} -> {"UNKNOWN"}
      [] OTHER -> States

\* An attempt is named by its own STARTING record first, publishes its states in the
\* order of its steps, and has launched its VM before it says RUNNING.
LivesInv ==
    \A c \in Controllers :
        /\ pc[c] \in Waiting \cup Early /\ ~writing[c] => Unnamed(c)
        /\ pc[c] \in {"started", "boot", "running", "serve", "stopping", "drain"} =>
              vm[c] # "none"
        /\ Begun(c) /\ ~writing[c] => mine[c].state \in Reached(pc[c])

\* Every step keeps it.
LEMMA LivesNext ==
    ASSUME IInv, LivesInv, [Next]_vars
    PROVE  LivesInv'
<1> USE NoneAssumption DEF IInv, TypeOK, WriteInv, RecordInv, LivesInv, Unnamed, Reached, Begun,
        SavedState, Goto, Refuse, files, Waiting, Early, Active, SavePoints, States
<1>1. ASSUME NEW c \in Controllers, NEW m \in {"create", "start", "resume"}, Begin(c, m)
      PROVE  LivesInv'
  BY <1>1 DEF Begin
<1>2. ASSUME NEW c \in Controllers, CreateDir(c) PROVE LivesInv'
  BY <1>2 DEF CreateDir
<1>3. ASSUME NEW c \in Controllers, CreateRecord(c) PROVE LivesInv'
  BY <1>3 DEF CreateRecord, Prepared
<1>4. ASSUME NEW c \in Controllers, CreatePlan(c) PROVE LivesInv'
  BY <1>4 DEF CreatePlan
<1>5. ASSUME NEW c \in Controllers, ReadRecord(c) PROVE LivesInv'
  BY <1>5 DEF ReadRecord
<1>6. ASSUME NEW c \in Controllers, Preflight(c) PROVE LivesInv'
  BY <1>6 DEF Preflight
<1>7. ASSUME NEW c \in Controllers, CheckIdentity(c) PROVE LivesInv'
  BY <1>7 DEF CheckIdentity
<1>8. ASSUME NEW c \in Controllers, LookClaim(c) PROVE LivesInv'
  BY <1>8 DEF LookClaim
<1>9. ASSUME NEW c \in Controllers, AwaitPort(c) PROVE LivesInv'
  BY <1>9 DEF AwaitPort
<1>10. ASSUME NEW c \in Controllers, TakeClaim(c) PROVE LivesInv'
  BY <1>10 DEF TakeClaim
<1>11. ASSUME NEW c \in Controllers, WriteToken(c) PROVE LivesInv'
  BY <1>11 DEF WriteToken
<1>12. ASSUME NEW c \in Controllers, Revalidate(c) PROVE LivesInv'
  BY <1>12 DEF Revalidate
<1>13. ASSUME NEW c \in Controllers, ReleaseClaim(c) PROVE LivesInv'
  BY <1>13 DEF ReleaseClaim
<1>14. ASSUME NEW c \in Controllers, Prepare(c) PROVE LivesInv'
  BY <1>14 DEF Prepare
<1>15. ASSUME NEW c \in Controllers, VerifyResume(c) PROVE LivesInv'
  BY <1>15 DEF VerifyResume
<1>16. ASSUME NEW c \in Controllers, WriteNext(c) PROVE LivesInv'
  BY <1>16, PendingState DEF WriteNext
<1>17. ASSUME NEW c \in Controllers, ReplaceRecord(c) PROVE LivesInv'
  BY <1>17 DEF ReplaceRecord, AfterSave, AfterError, OnSave, OnError
<1>18. ASSUME NEW c \in Controllers, SaveFails(c) PROVE LivesInv'
  BY <1>18, PendingState DEF SaveFails, AfterError, OnError
<1>19. ASSUME NEW c \in Controllers, Launch(c) PROVE LivesInv'
  BY <1>19 DEF Launch
<1>20. ASSUME NEW c \in Controllers, Boot(c) PROVE LivesInv'
  <2>1. /\ mine[c] \in Records /\ mine'[c].attempt = mine[c].attempt
        /\ mine'[c].state = mine[c].state
        /\ \A d \in Controllers \ {c} : mine'[d] = mine[d]
    BY <1>20 DEF Boot, Records
  <2>2. pc[c] = "boot" /\ pc'[c] \in {"running", "failing"}
        /\ \A d \in Controllers \ {c} : pc'[d] = pc[d]
    BY <1>20 DEF Boot
  <2> QED
    BY <1>20, <2>1 DEF Boot
<1>21. ASSUME NEW c \in Controllers, Serve(c) PROVE LivesInv'
  BY <1>21 DEF Serve
<1>22. ASSUME NEW c \in Controllers, Drain(c) PROVE LivesInv'
  BY <1>22 DEF Drain
<1>23. ASSUME NEW c \in Controllers, Retain(c) PROVE LivesInv'
  BY <1>23 DEF Retain
<1>24. ASSUME NEW c \in Controllers, UnlinkClaim(c) PROVE LivesInv'
  BY <1>24 DEF UnlinkClaim
<1>25. ASSUME NEW c \in Controllers, Crash(c) PROVE LivesInv'
  BY <1>25 DEF Crash
<1>26. ASSUME NEW c \in Controllers, GuestWrites(c) PROVE LivesInv'
  BY <1>26 DEF GuestWrites
<1>27. ASSUME NEW c \in Controllers, SessionEnds(c) PROVE LivesInv'
  BY <1>27 DEF SessionEnds
<1>28. CASE UNCHANGED vars
  BY <1>28 DEF vars
<1> HIDE DEF IInv, LivesInv
<1> QED
  BY <1>1, <1>2, <1>3, <1>4, <1>5, <1>6, <1>7, <1>8, <1>9, <1>10, <1>11, <1>12, <1>13, <1>14,
     <1>15, <1>16, <1>17, <1>18, <1>19, <1>20, <1>21, <1>22, <1>23, <1>24, <1>25, <1>26, <1>27,
     <1>28 DEF Next, Step

\* Nobody has begun at the start.
LEMMA LivesInit == Init => LivesInv
<1> SUFFICES ASSUME Init, NEW c \in Controllers
             PROVE  pc[c] = "new" /\ mine[c].state \in Reached(pc[c]) /\ Unnamed(c)
  BY Zenon DEF LivesInv
<1> QED
  BY NoneAssumption DEF Init, Unnamed, Reached, Prepared, States

\* A step that leaves the controller, the record in its memory and the session of an attempt
\* alone leaves its life alone.
LEMMA LifeStays ==
    ASSUME NEW e \in Controllers, mine'[e] = mine[e], vm'[e] = vm[e], pc'[e] = pc[e]
    PROVE  UNCHANGED Life(e)!vars
BY DEF Life!vars, LifeState, LifeSession, Begun

\* A step of c itself that goes on without a change of its record or session, and does not
\* end a begun attempt that is undecided, is a step of its life or none.
LEMMA LifeGoesOn ==
    ASSUME NEW c \in Controllers, mine'[c] = mine[c], vm'[c] = vm[c], pc[c] # "exit",
           pc'[c] = "exit" /\ Begun(c) => mine[c].state \in {"STOPPED", "UNKNOWN"}
    PROVE  [Life(c)!Next]_(Life(c)!vars)
BY DEF Life!vars, Life!Next, Life!Release, LifeState, LifeSession, Begun

\* An attempt that has not come to the save of STARTING has no record of its own.
LEMMA NotBegun ==
    ASSUME IInv, LivesInv, NEW c \in Controllers,
           pc[c] \in Waiting \cup (Early \ {"starting"})
    PROVE  ~Begun(c) /\ (record # None => record.attempt # c)
<1>1. ~writing[c]
  BY DEF IInv, WriteInv, SavePoints, Waiting, Early
<1> QED BY <1>1 DEF LivesInv, Unnamed, Begun

\* Every step is a step of the lives of all attempts.
LEMMA LivesStepNext ==
    ASSUME IInv, LivesInv, Next
    PROVE  LivesStep
<1> SUFFICES ASSUME NEW e \in Controllers PROVE [Life(e)!Next]_(Life(e)!vars)
  BY DEF LivesStep
<1> USE NoneAssumption DEF TypeOK, Goto, Refuse, files
<1>0. TypeOK /\ WriteInv /\ ClaimInv
  BY DEF IInv
<1> USE <1>0
<1> DEFINE Goal == [Life(e)!Next]_(Life(e)!vars)
<1>1. ASSUME NEW c \in Controllers, NEW m \in {"create", "start", "resume"}, Begin(c, m)
      PROVE  Goal
  BY <1>1, LifeStays, LifeGoesOn DEF Begin
<1>2. ASSUME NEW c \in Controllers, CreateDir(c) PROVE Goal
  BY <1>2, LifeStays, LifeGoesOn, NotBegun DEF CreateDir, Waiting
<1>3. ASSUME NEW c \in Controllers, CreateRecord(c) PROVE Goal
  BY <1>3, LifeStays, LifeGoesOn, NotBegun DEF CreateRecord, Waiting
<1>4. ASSUME NEW c \in Controllers, CreatePlan(c) PROVE Goal
  BY <1>4, LifeStays, LifeGoesOn, NotBegun DEF CreatePlan, Waiting
<1>5. ASSUME NEW c \in Controllers, ReadRecord(c) PROVE Goal
  BY <1>5, LifeStays, NotBegun DEF ReadRecord, Waiting, Begun, LifeState, LifeSession, Life!vars
<1>6. ASSUME NEW c \in Controllers, Preflight(c) PROVE Goal
  BY <1>6, LifeStays, LifeGoesOn, NotBegun DEF Preflight, Waiting
<1>7. ASSUME NEW c \in Controllers, CheckIdentity(c) PROVE Goal
  BY <1>7, LifeStays, LifeGoesOn, NotBegun DEF CheckIdentity, Waiting
<1>8. ASSUME NEW c \in Controllers, LookClaim(c) PROVE Goal
  BY <1>8, LifeStays, LifeGoesOn, NotBegun DEF LookClaim, Waiting
<1>9. ASSUME NEW c \in Controllers, AwaitPort(c) PROVE Goal
  BY <1>9, LifeStays, LifeGoesOn, NotBegun DEF AwaitPort, Waiting
<1>10. ASSUME NEW c \in Controllers, TakeClaim(c) PROVE Goal
  BY <1>10, LifeStays, LifeGoesOn, NotBegun DEF TakeClaim, Waiting
<1>11. ASSUME NEW c \in Controllers, WriteToken(c) PROVE Goal
  BY <1>11, LifeStays, LifeGoesOn, NotBegun DEF WriteToken, Early
<1>12. ASSUME NEW c \in Controllers, Revalidate(c) PROVE Goal
  BY <1>12, LifeStays, LifeGoesOn DEF Revalidate
<1>13. ASSUME NEW c \in Controllers, ReleaseClaim(c) PROVE Goal
  BY <1>13, LifeStays, LifeGoesOn, NotBegun DEF ReleaseClaim, Early
<1>14. ASSUME NEW c \in Controllers, Prepare(c) PROVE Goal
  BY <1>14, LifeStays, LifeGoesOn DEF Prepare
<1>15. ASSUME NEW c \in Controllers, VerifyResume(c) PROVE Goal
  BY <1>15, LifeStays, LifeGoesOn DEF VerifyResume
<1>16. ASSUME NEW c \in Controllers, WriteNext(c) PROVE Goal
  BY <1>16, PendingState, LifeStays DEF WriteNext, LivesInv, Unnamed, Early, Reached, Begun,
     SavedState, SavePoints, ClaimInv, Life!Next, Life!Advance, Life!Fail, Life!vars, LifeState,
     LifeSession, Records
<1>17. ASSUME NEW c \in Controllers, ReplaceRecord(c) PROVE Goal
  BY <1>17, LifeStays, LifeGoesOn DEF ReplaceRecord, AfterSave, AfterError, OnSave, OnError,
     WriteInv, SavedState, SavePoints
<1>18. ASSUME NEW c \in Controllers, SaveFails(c) PROVE Goal
  BY <1>18, PendingState, LifeStays DEF SaveFails, AfterError, OnError, LivesInv, Unnamed, Early,
     Reached, Begun, WriteInv, SavedState, SavePoints, ClaimInv, Active, Life!Next, Life!Advance,
     Life!Fail, Life!vars, LifeState, LifeSession, Records
<1>19. ASSUME NEW c \in Controllers, Launch(c) PROVE Goal
  BY <1>19, LifeStays DEF Launch, LivesInv, Reached, Begun, WriteInv, SavePoints, ClaimInv,
     Life!Next, Life!Launch, Life!vars, LifeState, LifeSession
<1>20. ASSUME NEW c \in Controllers, Boot(c) PROVE Goal
  BY <1>20 DEF Boot, Records, Life!vars, LifeState, LifeSession, Begun
<1>21. ASSUME NEW c \in Controllers, Serve(c) PROVE Goal
  BY <1>21, LifeStays, LifeGoesOn DEF Serve
<1>22. ASSUME NEW c \in Controllers, Drain(c) PROVE Goal
  BY <1>22, LifeStays, LifeGoesOn DEF Drain
<1>23. ASSUME NEW c \in Controllers, Retain(c) PROVE Goal
  BY <1>23, LifeStays, LifeGoesOn DEF Retain, LivesInv, Reached, WriteInv, SavePoints
<1>24. ASSUME NEW c \in Controllers, UnlinkClaim(c) PROVE Goal
  BY <1>24, LifeStays, LifeGoesOn DEF UnlinkClaim, LivesInv, Reached, WriteInv, SavePoints
<1>25. ASSUME NEW c \in Controllers, Crash(c) PROVE Goal
  BY <1>25, LifeStays, LifeGoesOn DEF Crash
<1>26. ASSUME NEW c \in Controllers, GuestWrites(c) PROVE Goal
  BY <1>26, LifeStays DEF GuestWrites
<1>27. ASSUME NEW c \in Controllers, SessionEnds(c) PROVE Goal
  BY <1>27, LifeStays DEF SessionEnds, Life!Next, Life!End, LifeState, LifeSession, Begun
<1> HIDE DEF IInv, Goal
<1> QED
  BY <1>1, <1>2, <1>3, <1>4, <1>5, <1>6, <1>7, <1>8, <1>9, <1>10, <1>11, <1>12, <1>13, <1>14,
     <1>15, <1>16, <1>17, <1>18, <1>19, <1>20, <1>21, <1>22, <1>23, <1>24, <1>25, <1>26, <1>27
     DEF Next, Step, Goal

\* Every attempt on the instance is a life of Lifetime: what Supervisor publishes for one
\* attempt is what the file protocol takes it to publish.
THEOREM AttemptsStayLives == Spec => AttemptsAreLives
<1>1. ASSUME Init PROVE \A c \in Controllers : Life(c)!Init
  <2>1. SUFFICES ASSUME NEW c \in Controllers PROVE Life(c)!Init
    BY Zenon
  <2> QED
    BY <1>1, NoneAssumption DEF Life!Init, Init, LifeState, LifeSession, Begun, Prepared
<1>2. IInv /\ LivesInv /\ [Next]_vars => LivesInv'
  BY LivesNext
<1>3. IInv /\ LivesInv /\ [Next]_vars => [LivesStep]_vars
  BY LivesStepNext
<1> QED
  BY LivesInit, Inductive, <1>1, <1>2, <1>3, PTL DEF Spec, AttemptsAreLives
=============================================================================
