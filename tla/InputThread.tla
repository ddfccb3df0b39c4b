----------------------------- MODULE InputThread -----------------------------
(***************************************************************************)
(* The thread that reads commands beside supervise: CommandInput with a    *)
(* queue of any size.                                                      *)
(***************************************************************************)
EXTENDS Integers, Sequences

CONSTANTS Chunk, QueueSize, MaxLines, MaxLength

ASSUME InputAssumption ==
    Chunk \in Nat \ {0} /\ QueueSize \in Nat /\ MaxLines \in Nat /\ MaxLength \in Nat

VARIABLES typed, closed, line, off, reader, held, queue, taken, phase

Input == INSTANCE CommandInput WITH Capacity <- QueueSize

\* CommandInput: every line typed is one command in its place, the whole line or
\* a refusal of it, whatever the queue, the reads and the phase of the controller.
LinesKept == Input!LinesKept
=============================================================================
