----------------------------- MODULE Interrupts -----------------------------
(***************************************************************************)
(* The two ways in which a virtio device of crosvm interrupts its driver,  *)
(* side by side: the level-triggered line (IrqLine) and the MSI-X table.   *)
(***************************************************************************)
EXTENDS IrqLine

CONSTANTS Vectors, Messages                                                     \* Msix

ASSUME TableAssumption == Vectors \subseteq Nat /\ 0 \in Messages

VARIABLES enabled, masked, ctl, msg, pba, irq, route, owed, sent, early, blind, stale   \* Msix

Table == INSTANCE Msix

\* Msix: what is owed stays pending, an open vector sends the message of the table, and
\* nothing is sent through a masked one.
MsixSound == Table!MsixSound
=============================================================================
