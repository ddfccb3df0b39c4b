---------------------------- MODULE MCVirtqueue ----------------------------
(***************************************************************************)
(* The split virtqueue of a device of crosvm and its driver, for TLC: a    *)
(* behaviour runs it with event indices, or with flags and a queue that    *)
(* comes back from a vhost-user backend.                                   *)
(***************************************************************************)
EXTENDS Naturals

CONSTANT NoChain    \* SplitQueue: no chain is held

VARIABLES
    part,       \* the queue that runs
    \* SplitQueue
    avail, used, buffer, dev, kick, queueIrq, drv, since

Indexed == INSTANCE SplitQueue WITH
    Size <- 2, Mod <- 4, EventIdx <- TRUE, QuietLimit <- 3,
    MayReclaim <- FALSE, irq <- queueIrq
Flagged == INSTANCE SplitQueue WITH
    Size <- 2, Mod <- 4, EventIdx <- FALSE, QuietLimit <- 3,
    MayReclaim <- TRUE, irq <- queueIrq

queueVars == <<avail, used, buffer, dev, kick, queueIrq, drv, since>>

PartsInit == part \in {"indexed", "flagged"} /\ Indexed!Init

\* A driver that has all its chains may stay idle; otherwise a queue never stops.
PartsNext ==
    /\ UNCHANGED part
    /\ \/ part = "indexed" /\ Indexed!Next
       \/ part = "flagged" /\ Flagged!Next
       \/ drv.free = Indexed!Chains /\ UNCHANGED queueVars

\* The fairness of the queue with event indices, while it runs.
PartsFairness ==
    /\ WF_queueVars(part = "indexed" /\ Indexed!Drain)
    /\ WF_queueVars(part = "indexed" /\ Indexed!Pop)
    /\ WF_queueVars(part = "indexed" /\ Indexed!Empty)
    /\ WF_queueVars(part = "indexed" /\ Indexed!Kicked)
    /\ WF_queueVars(part = "indexed" /\ Indexed!AddUsed)
    /\ WF_queueVars(part = "indexed" /\ Indexed!TriggerInterrupt)
    /\ WF_queueVars(part = "indexed" /\ Indexed!Notify)
    /\ WF_queueVars(part = "indexed" /\ Indexed!Interrupted)
    /\ SF_queueVars(part = "indexed" /\ Indexed!Take)
    /\ WF_queueVars(part = "indexed" /\ Indexed!Check)
    /\ WF_queueVars(part = "indexed" /\ Indexed!Arm)

PartsSpec == PartsInit /\ [][PartsNext]_<<part, queueVars>> /\ PartsFairness

-----------------------------------------------------------------------------
\* SplitQueue: across any number of wraps every chain has one owner, the device never
\* sleeps on published chains nor the driver on answered ones without being told.
QueueSound == Indexed!QueueSound

\* SplitQueue: a chain the driver gave to the device comes back to it.
ChainComesBack == part = "indexed" => Indexed!ChainComesBack
=============================================================================
