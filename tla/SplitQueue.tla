----------------------------- MODULE SplitQueue -----------------------------
(***************************************************************************)
(* A split virtqueue of crosvm (devices/src/virtio/queue/split_queue.rs)   *)
(* between a device that answers every chain before it takes the next one, *)
(* as the vsock transmit queue does, and the guest's driver.  Both sides   *)
(* suppress notifications: the device with avail_event, the driver with    *)
(* used_event or a flag.  The ring indices are 16 bits and wrap (Mod).     *)
(*                                                                         *)
(* The device's stores to guest memory pass a store buffer, in order; the  *)
(* fences of the code empty it.  The driver (external) fences between      *)
(* publishing and looking at avail_event, and between setting used_event   *)
(* and looking at the used index.  It publishes well-formed chains: peek   *)
(* takes one that is not for an empty ring, and stays before it.           *)
(***************************************************************************)
EXTENDS Integers, Sequences, FiniteSets

CONSTANTS Size,       \* entries of the ring, a power of two
          Mod,        \* 2^16 in the code: where the indices wrap
          NoChain,    \* no chain is held
          EventIdx,   \* VIRTIO_RING_F_EVENT_IDX is negotiated
          QuietLimit, \* chains used between two interrupts, at most
          MayReclaim  \* the queue comes back from a vhost-user backend

VARIABLES
    avail,   \* guest memory, written by the driver: idx, ring, event, quiet
    used,    \* guest memory, written by the device: idx, ring, event
    buffer,  \* stores of the device that memory has not seen
    dev,     \* next_avail, next_used, last_used, the chain held, the place
    kick,    \* the queue's event
    irq,     \* an interrupt waits for the driver
    drv,     \* the driver: mode, chains it owns, added, seen
    since    \* chains used since the last interrupt was sent

vars == <<avail, used, buffer, dev, kick, irq, drv, since>>

Index == 0 .. Mod - 1
Chains == 0 .. Size - 1
Plus(i, n) == (i + n) % Mod
Minus(i, j) == (i - j) % Mod

\* wrap_queue_index
Slot(i) == i % Size

TypeOK ==
    /\ avail \in [idx: Index, ring: [Chains -> Chains], event: Index, quiet: BOOLEAN]
    /\ used \in [idx: Index, ring: [Chains -> Chains], event: Index]
    /\ buffer \in UNION {[1 .. n -> [at: {"event", "used"}, chain: Chains \cup {NoChain}, idx: Index]]
                         : n \in 0 .. 2}
    /\ dev \in [pc: {"pop", "wait", "work", "trigger"}, held: Chains \cup {NoChain},
                next_avail: Index, next_used: Index, last_used: Index]
    /\ kick \in BOOLEAN /\ irq \in BOOLEAN
    /\ drv \in [mode: {"busy", "check", "asleep"}, free: SUBSET Chains,
                added: 0 .. Size, seen: Index]
    /\ since \in 0 .. QuietLimit

Init ==
    /\ avail = [idx |-> 0, ring |-> [s \in Chains |-> 0], event |-> 0, quiet |-> FALSE]
    /\ used = [idx |-> 0, ring |-> [s \in Chains |-> 0], event |-> 0]
    /\ buffer = <<>>
    /\ dev = [pc |-> "pop", held |-> NoChain, next_avail |-> 0, next_used |-> 0, last_used |-> 0]
    /\ kick = FALSE /\ irq = FALSE
    /\ drv = [mode |-> "asleep", free |-> Chains, added |-> 0, seen |-> 0]
    /\ since = 0

-----------------------------------------------------------------------------
(* The driver (external).                                                  *)

\* A side that publishes up to new, old before, must notify one that asked
\* for event.
NeedEvent(event, new, old) == Minus(Minus(new, event), 1) < Minus(new, old)

\* The driver adds while the chains under way keep the count of QuietLimit.
Add(c) ==
    /\ c \in drv.free /\ drv.added < Size /\ since + Size - Cardinality(drv.free) < QuietLimit
    /\ avail' = [avail EXCEPT !.ring[Slot(avail.idx)] = c, !.idx = Plus(@, 1)]
    /\ drv' = [drv EXCEPT !.free = @ \ {c}, !.added = @ + 1]
    /\ UNCHANGED <<used, buffer, dev, kick, irq, since>>

Notify ==
    /\ drv.added > 0
    /\ kick' = (kick \/ ~EventIdx
                \/ NeedEvent(used.event, avail.idx, Minus(avail.idx, drv.added)))
    /\ drv' = [drv EXCEPT !.added = 0]
    /\ UNCHANGED <<avail, used, buffer, dev, irq, since>>

Interrupted ==
    /\ irq /\ irq' = FALSE
    /\ drv' = [drv EXCEPT !.mode = "busy"]
    /\ avail' = [avail EXCEPT !.quiet = TRUE]
    /\ UNCHANGED <<used, buffer, dev, kick, since>>

Take ==
    /\ drv.mode = "busy" /\ drv.seen # used.idx
    /\ drv' = [drv EXCEPT !.free = @ \cup {used.ring[Slot(drv.seen)]},
                          !.seen = Plus(@, 1)]
    /\ UNCHANGED <<avail, used, buffer, dev, kick, irq, since>>

Arm ==
    /\ drv.mode = "busy"
    /\ avail' = [avail EXCEPT !.event = drv.seen, !.quiet = FALSE]
    /\ drv' = [drv EXCEPT !.mode = "check"]
    /\ UNCHANGED <<used, buffer, dev, kick, irq, since>>

Check ==
    /\ drv.mode = "check"
    /\ drv' = [drv EXCEPT !.mode = IF used.idx # drv.seen THEN "busy" ELSE "asleep"]
    /\ avail' = [avail EXCEPT !.quiet = used.idx # drv.seen]
    /\ UNCHANGED <<used, buffer, dev, kick, irq, since>>

-----------------------------------------------------------------------------
(* The device's memory.                                                    *)

\* What memory holds once the store w is seen.
Stored(u, w) ==
    IF w.at = "event" THEN [u EXCEPT !.event = w.idx]
    ELSE [u EXCEPT !.ring[Slot(w.idx)] = w.chain, !.idx = Plus(w.idx, 1)]

Drain ==
    /\ buffer # <<>>
    /\ used' = Stored(used, Head(buffer)) /\ buffer' = Tail(buffer)
    /\ UNCHANGED <<avail, dev, kick, irq, drv, since>>

\* fence(SeqCst): memory has seen every store.
Fenced == buffer = <<>>

-----------------------------------------------------------------------------
(* The device.                                                             *)

\* pop_peeked: the avail_event for next_avail n.
AvailEvent(n) == n

\* Mutant: the ring is read at the index after the step.
PopNext ==
    /\ dev.pc = "pop" /\ dev.next_avail # avail.idx
    /\ EventIdx => Fenced
    /\ dev' = [dev EXCEPT !.pc = "work", !.held = avail.ring[Slot(Plus(dev.next_avail, 1))],
                          !.next_avail = Plus(@, 1)]
    /\ buffer' = IF EventIdx
                 THEN Append(buffer, [at |-> "event", chain |-> NoChain,
                                      idx |-> AvailEvent(Plus(dev.next_avail, 1))])
                 ELSE buffer
    /\ UNCHANGED <<avail, used, kick, irq, drv, since>>

\* pop: peek, then pop_peeked with set_avail_event behind its fence.
Pop ==
    /\ dev.pc = "pop" /\ dev.next_avail # avail.idx
    /\ EventIdx => Fenced
    /\ dev' = [dev EXCEPT !.pc = "work", !.held = avail.ring[Slot(dev.next_avail)],
                          !.next_avail = Plus(@, 1)]
    /\ buffer' = IF EventIdx
                 THEN Append(buffer, [at |-> "event", chain |-> NoChain,
                                      idx |-> AvailEvent(Plus(dev.next_avail, 1))])
                 ELSE buffer
    /\ UNCHANGED <<avail, used, kick, irq, drv, since>>

\* next_async: nothing was there, the device waits for the queue's event.
Empty ==
    /\ dev.pc = "pop" /\ dev.next_avail = avail.idx
    /\ dev' = [dev EXCEPT !.pc = "wait"]
    /\ UNCHANGED <<avail, used, buffer, kick, irq, drv, since>>

Kicked ==
    /\ dev.pc = "wait" /\ kick /\ kick' = FALSE
    /\ dev' = [dev EXCEPT !.pc = "pop"]
    /\ UNCHANGED <<avail, used, buffer, irq, drv, since>>

\* add_used: the element and, behind a release fence, the index.
AddUsed ==
    /\ dev.pc = "work"
    /\ buffer' = Append(buffer, [at |-> "used", chain |-> dev.held, idx |-> dev.next_used])
    /\ dev' = [dev EXCEPT !.pc = "trigger", !.held = NoChain, !.next_used = Plus(@, 1)]
    /\ since' = since + 1
    /\ UNCHANGED <<avail, used, kick, irq, drv>>

QueueWantsInterrupt ==
    IF EventIdx
    THEN Minus(Minus(dev.next_used, avail.event), 1) < Minus(dev.next_used, dev.last_used)
    ELSE ~avail.quiet

\* Mutant: the used_event (or the flag) is read without the fence.
TriggerUnfenced ==
    /\ dev.pc = "trigger"
    /\ dev' = [dev EXCEPT !.pc = "pop",
                          !.last_used = IF QueueWantsInterrupt THEN dev.next_used ELSE @]
    /\ irq' = (irq \/ QueueWantsInterrupt)
    /\ since' = IF QueueWantsInterrupt THEN 0 ELSE since
    /\ UNCHANGED <<avail, used, buffer, kick, drv>>

\* trigger_interrupt: get_used_event and get_avail_flag fence first.
TriggerInterrupt ==
    /\ dev.pc = "trigger" /\ Fenced
    /\ dev' = [dev EXCEPT !.pc = "pop",
                          !.last_used = IF QueueWantsInterrupt THEN dev.next_used ELSE @]
    /\ irq' = (irq \/ QueueWantsInterrupt)
    /\ since' = IF QueueWantsInterrupt THEN 0 ELSE since
    /\ UNCHANGED <<avail, used, buffer, kick, drv>>

\* vhost_user_reclaim, and the new queue of the backend that follows it: an
\* idle queue carries on from memory, last_used is zero.
Reclaim ==
    /\ MayReclaim /\ dev.pc = "wait" /\ Fenced
    /\ dev' = [dev EXCEPT !.pc = "pop", !.next_used = used.idx, !.last_used = 0]
    /\ UNCHANGED <<avail, used, buffer, kick, irq, drv, since>>

Next ==
    \/ \E c \in Chains : Add(c)
    \/ Notify \/ Interrupted \/ Take \/ Arm \/ Check
    \/ Drain \/ Pop \/ Empty \/ Kicked \/ AddUsed \/ TriggerInterrupt \/ Reclaim

Spec == Init /\ [][Next]_vars

\* The device's task runs, the event and the interrupt arrive, stores reach
\* memory, and a driver that was woken takes back what is used before it
\* sleeps.  Nothing makes the driver add a chain.
Fairness ==
    /\ WF_vars(Drain) /\ WF_vars(Pop) /\ WF_vars(Empty) /\ WF_vars(Kicked)
    /\ WF_vars(AddUsed) /\ WF_vars(TriggerInterrupt)
    /\ WF_vars(Notify) /\ WF_vars(Interrupted) /\ SF_vars(Take) /\ WF_vars(Check)
    /\ WF_vars(Arm)

FairSpec == Spec /\ Fairness

-----------------------------------------------------------------------------
(* Properties.                                                             *)

\* The chains published and not taken, and the chains answered in memory or
\* in the store buffer and not taken back.
Published == {avail.ring[Slot(Plus(dev.next_avail, i))] : i \in 0 .. Minus(avail.idx, dev.next_avail) - 1}
Answered == {used.ring[Slot(Plus(drv.seen, i))] : i \in 0 .. Minus(used.idx, drv.seen) - 1}
Underway == {buffer[i].chain : i \in {j \in DOMAIN buffer : buffer[j].at = "used"}}
Held == {dev.held} \ {NoChain}

\* Across any number of wraps every chain is in exactly one place: with the
\* driver, published, held by the device, on its way back, or back in the
\* used ring.  No slot of either ring is overwritten while it is needed, and
\* no chain is handled twice or lost (peek, pop_peeked, add_used).
OneOwner ==
    /\ drv.free \cup Published \cup Held \cup Underway \cup Answered = Chains
    /\ Cardinality(drv.free) + Minus(avail.idx, dev.next_avail) + Cardinality(Held)
       + Cardinality(Underway) + Minus(used.idx, drv.seen) = Size

\* The device never sleeps on published chains: once the driver is through
\* with its notification either the queue's event is set or the device is
\* awake, whatever store of avail_event was still on its way.
KickDue == dev.pc = "wait" /\ dev.next_avail # avail.idx => kick \/ drv.added > 0

\* The driver never sleeps on answered chains: when the device is past its
\* trigger_interrupt, a sleeping driver that has not seen the used index has
\* an interrupt coming.
InterruptDue ==
    drv.mode = "asleep" /\ drv.seen # used.idx => irq \/ dev.pc = "trigger"

\* A chain the driver gave to the device comes back to it.
ChainComesBack == \A c \in Chains : c \notin drv.free ~> c \in drv.free

\* The rings are sound across any number of wraps: every chain has one owner, and
\* neither side sleeps on work it was not told of.
QueueSound == TypeOK /\ OneOwner /\ KickDue /\ InterruptDue
=============================================================================
