------------------------------- MODULE VectorAdd -------------------------------
(***************************************************************************)
(* compute_protocol: what a VADD command may say, and how the controller   *)
(* judges the answer to it.  The command and the answer are both chosen    *)
(* freely; the judgement is compared with an adder written bit by bit.     *)
(*                                                                         *)
(* The answer's text is a record of its fields; the fields that identify   *)
(* device, queue, memory, dispatch, fence and shader are one Boolean.      *)
(***************************************************************************)
EXTENDS Naturals, Sequences

CONSTANTS
    Bits,               \* the width of a value (32)
    Top,                \* the largest value the grammar can spell (ten digits)
    MaxN                \* the longest vector (4)

VARIABLES command, answer, outcome

vars == <<command, answer, outcome>>

Word == 2 ^ Bits
Vectors(n) == UNION {[1 .. k -> 0 .. Top] : k \in 1 .. n}

\* Every "VADD n v ..." the regular expression matches: n and the count of the
\* values are not yet related.
Commands == [n : 1 .. MaxN, values : Vectors(2 * MaxN) \ Vectors(1)]
Answers == [is : {"OK"}, n : 0 .. MaxN + 1, values : Vectors(MaxN + 1), identified : BOOLEAN]
           \cup [is : {"ERR", "UNKNOWN", "other"}]
NoAnswer == [is |-> "none"]

\* parse(): n, the first n values and the last n values.
Parses(c) == Len(c.values) = 2 * c.n /\ \A i \in DOMAIN c.values : c.values[i] < Word
First(c) == SubSeq(c.values, 1, c.n)
Second(c) == SubSeq(c.values, c.n + 1, 2 * c.n)

\* Mutant: the sum is not cut to the word.
ExpectedWide(c) == [i \in 1 .. c.n |-> First(c)[i] + Second(c)[i]]

\* [(x+y)&0xffffffff for x,y in zip(a,b)]
Expected(c) == [i \in 1 .. c.n |-> (First(c)[i] + Second(c)[i]) % Word]

\* validate_response(): the outcome, or "raise" for every ValueError.
Judged(c, r) ==
    CASE r.is = "ERR" -> "FAILED"
      [] r.is \in {"UNKNOWN", "other"} -> "raise"
      [] OTHER ->
            IF \/ Len(r.values) # c.n \/ \E i \in DOMAIN r.values : r.values[i] >= Word
               \/ r.n # c.n \/ ~r.identified
            THEN "raise"
            ELSE IF Expected(c) = r.values THEN "SUCCESS" ELSE "FAILED"

Init == command \in Commands /\ answer = NoAnswer /\ outcome = "none"

\* supervise notes 'rejected_request' and sends nothing.
Reject ==
    /\ outcome = "none" /\ ~Parses(command)
    /\ outcome' = "rejected" /\ UNCHANGED <<command, answer>>

Request ==
    /\ outcome = "none" /\ Parses(command)
    /\ \E r \in Answers : answer' = r /\ outcome' = Judged(command, r)
    /\ UNCHANGED command

Next == Reject \/ Request

Spec == Init /\ [][Next]_vars

-----------------------------------------------------------------------------
\* The command, the answer and the judgement are of their sets.
TypeOK ==
    /\ command \in Commands /\ answer \in Answers \cup {NoAnswer}
    /\ outcome \in {"none", "rejected", "raise", "SUCCESS", "FAILED"}

\* Bit b (0 is the lowest) of x, and the carry a full adder hands to bit b.
Bit(x, b) == (x \div 2 ^ b) % 2
Carry(x, y) ==
    LET carry[b \in 0 .. Bits] ==
            IF b = 0 THEN 0
            ELSE IF Bit(x, b - 1) + Bit(y, b - 1) + carry[b - 1] >= 2 THEN 1 ELSE 0
    IN  carry

\* z is what a Bits-wide adder with no carry out makes of x and y.
IsSum(z, x, y) ==
    z < Word /\ \A b \in 0 .. Bits - 1 : Bit(z, b) = (Bit(x, b) + Bit(y, b) + Carry(x, y)[b]) % 2

RightAnswer ==
    /\ answer.is = "OK" /\ Len(answer.values) = command.n
    /\ \A i \in 1 .. command.n :
          IsSum(answer.values[i], command.values[i], command.values[command.n + i])

\* A well-formed answer counts as SUCCESS exactly when a hardware adder of that
\* width would have produced it, a sum that wraps included: validate_response
\* neither fails a device for wrapping nor passes one that kept the carry.
SuccessIsTheSum ==
    /\ outcome = "SUCCESS" => RightAnswer
    /\ outcome = "FAILED" => answer.is = "ERR" \/ ~RightAnswer

\* FAILED is a statement about the computation of this very command.  An answer of another
\* length or for another n, one with a value that is no 32-bit number, or one whose
\* device or submission is not identified, leaves the outcome unknown.
FailedIsJudged ==
    outcome = "FAILED" /\ answer.is = "OK" =>
        /\ answer.identified /\ answer.n = command.n /\ Len(answer.values) = command.n
        /\ \A i \in DOMAIN answer.values : answer.values[i] < Word

\* The judgement agrees with an adder: SUCCESS is the wrapped sum, and FAILED is said
\* only of an answer to this command.
AnswerIsJudged == TypeOK /\ SuccessIsTheSum /\ FailedIsJudged
=============================================================================
