------------------------------ MODULE LogThread ------------------------------
(***************************************************************************)
(* The thread that reads the log pipe beside supervise: PipeLog with       *)
(* failing calls of the system.                                            *)
(***************************************************************************)
EXTENDS Integers, Sequences

CONSTANTS MaxWritten, PipeCapacity, Limit

ASSUME SizesAssumption == MaxWritten \in Nat /\ PipeCapacity \in Nat /\ Limit \in Nat

VARIABLES written, pipe, child, parent, file, logReader, data, log, logTodo, receipt

Log == INSTANCE PipeLog WITH
    Capacity <- PipeCapacity, MayFail <- TRUE, reader <- logReader, todo <- logTodo

\* PipeLog: a clean receipt means a complete log and the counts add up, although the
\* fields are read one by one while the reader runs.
ReceiptIsTrue == Log!ReceiptIsTrue
=============================================================================
