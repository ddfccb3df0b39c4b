---------------------------- MODULE BinderFrames ---------------------------
(* The framing between a guest's byte stream and the Binder pipe of the       *)
(* Windows host (binder_bridge.rs): encode puts a header before the guest's   *)
(* data, and Decoder takes the headers out of what the service writes, which  *)
(* arrives cut anywhere, for instance in the middle of a header.              *)
EXTENDS Integers, Sequences, SequencesExt, FiniteSetsExt

CONSTANTS
    HeaderSize,     \* 8 bytes: length and handles
    MaxFrame,       \* MAX_FRAME
    Lengths,        \* what a header may announce
    Frames,         \* bound: frames the service writes
    MaxRead         \* TEMP_READ_BUF_SIZE_BYTES

\* A byte on the wire knows its frame and its place; a header's bytes stand for
\* the length and the handles they hold.
Byte == [frame : 1..Frames, header : BOOLEAN, i : 1..(HeaderSize + Max(Lengths))]
Frame(n, len) ==
    [i \in 1..HeaderSize |-> [frame |-> n, header |-> TRUE, i |-> i]]
        \o [i \in 1..len |-> [frame |-> n, header |-> FALSE, i |-> i]]

VARIABLES
    sent,       \* the headers of the frames written so far: length and handles
    wire,       \* the bytes in the pipe
    dec,        \* the Decoder: used, remaining, failed
    out,        \* what consume has returned
    taken       \* the bytes it was given
vars == <<sent, wire, dec, out, taken>>

TypeOK ==
    /\ sent \in Seq([len : Lengths, handles : {0, 1}])
    /\ wire \in Seq(Byte) /\ out \in Seq(Byte) /\ taken \in Seq(Byte)
    /\ dec \in [used : 0..(HeaderSize - 1), remaining : 0..MaxFrame, failed : BOOLEAN]

Init ==
    /\ sent = <<>> /\ wire = <<>> /\ out = <<>> /\ taken = <<>>
    /\ dec = [used |-> 0, remaining |-> 0, failed |-> FALSE]

\* What encode accepts.
Encodable(len) == len # 0 /\ len <= MaxFrame

Write(len, handles) ==
    /\ Len(sent) < Frames
    /\ sent' = Append(sent, [len |-> len, handles |-> handles])
    /\ wire' = wire \o Frame(Len(sent) + 1, len)
    /\ UNCHANGED <<dec, out, taken>>

Acceptable(h) == Encodable(h.len) /\ h.handles = 0

\* Mutant: the rest of a header that was cut is returned as data.
TurnLeaks(s) ==
    IF s.d.remaining # 0
    THEN LET n == Min({s.d.remaining, Len(s.input)})
         IN  [d |-> [s.d EXCEPT !.remaining = @ - n], input |-> SubSeq(s.input, n + 1, Len(s.input)),
              out |-> s.out \o SubSeq(s.input, 1, n)]
    ELSE LET n == Min({HeaderSize - s.d.used, Len(s.input)})
             h == sent[s.input[1].frame]
             d == IF s.d.used + n # HeaderSize THEN [s.d EXCEPT !.used = @ + n]
                  ELSE IF Acceptable(h) THEN [s.d EXCEPT !.used = 0, !.remaining = h.len]
                       ELSE [s.d EXCEPT !.used = 0, !.failed = TRUE]
         IN  [d |-> d, input |-> SubSeq(s.input, n + 1, Len(s.input)), 
              out |-> s.out \o (IF s.d.used = 0 THEN <<>> ELSE SubSeq(s.input, 1, n))]

\* One turn of the loop in consume, on a decoder d with the rest of the input
\* and the output so far. A header cut short stays in the decoder.
Turn(s) ==
    IF s.d.remaining # 0
    THEN LET n == Min({s.d.remaining, Len(s.input)})
         IN  [d |-> [s.d EXCEPT !.remaining = @ - n], input |-> SubSeq(s.input, n + 1, Len(s.input)),
              out |-> s.out \o SubSeq(s.input, 1, n)]
    ELSE LET n == Min({HeaderSize - s.d.used, Len(s.input)})
             h == sent[s.input[1].frame]
             d == IF s.d.used + n # HeaderSize THEN [s.d EXCEPT !.used = @ + n]
                  ELSE IF Acceptable(h) THEN [s.d EXCEPT !.used = 0, !.remaining = h.len]
                       ELSE [s.d EXCEPT !.used = 0, !.failed = TRUE]
         IN  [d |-> d, input |-> SubSeq(s.input, n + 1, Len(s.input)), out |-> s.out]

\* Every turn takes a byte or fails, so the input's length bounds the turns.
Consumed(input) ==
    LET run[k \in 0..Len(input)] ==
            IF k = 0 THEN [d |-> dec, input |-> input, out |-> <<>>]
            ELSE LET s == run[k - 1]
                 IN  IF s.d.failed \/ s.input = <<>> THEN s ELSE Turn(s)
    IN  run[Len(input)]

\* A read returns part of what is in the pipe. A failed consume returns no data.
Consume(n) ==
    /\ ~dec.failed /\ n <= Len(wire)
    /\ LET s == Consumed(SubSeq(wire, 1, n))
       IN  /\ dec' = s.d
           /\ out' = IF s.d.failed THEN out ELSE out \o s.out
           /\ taken' = IF s.d.failed THEN taken ELSE taken \o SubSeq(wire, 1, n)
    /\ wire' = SubSeq(wire, n + 1, Len(wire))
    /\ UNCHANGED sent

Finish == ~dec.failed /\ dec.used = 0 /\ dec.remaining = 0

Next ==
    \/ \E len \in Lengths, handles \in {0, 1} : Write(len, handles)
    \/ \E n \in 1..MaxRead : Consume(n)

Spec == Init /\ [][Next]_vars

-----------------------------------------------------------------------------
(* However the stream is cut into reads, consume returns exactly the data of  *)
(* the frames, in order, and no byte of a header.                             *)
OnlyPayload == out = SelectSeq(taken, LAMBDA b : ~b.header)

(* A decoder that has not failed has seen no header with handles, without     *)
(* data or over the limit, even in a piece that also held good frames.        *)
GoodSoFar ==
    ~dec.failed => \A i \in 1..Len(taken) :
        taken[i].header /\ taken[i].i = HeaderSize =>
            LET h == sent[taken[i].frame] IN h.handles = 0 /\ h.len \in 1..MaxFrame

(* The end of the pipe is clean exactly between two frames: after the last    *)
(* byte of a frame's data, or before the first frame.                         *)
CleanEnd ==
    LET last == Last(taken)
    IN  Finish <=> /\ ~dec.failed
                   /\ taken = <<>> \/ (~last.header /\ last.i = sent[last.frame].len)

(* However the stream is cut, the decoder returns exactly the data of the     *)
(* frames, stops at the first bad header, and knows a clean end.              *)
FramesDecoded == TypeOK /\ OnlyPayload /\ GoodSoFar /\ CleanEnd
=============================================================================
