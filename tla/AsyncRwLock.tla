---------------------------- MODULE AsyncRwLock ----------------------------
(* RawRwLock of cros_async (sync/mu.rs) with its waiters (sync/waiter.rs): an *)
(* asynchronous readers-writer lock in one atomic word and a list of waiters  *)
(* that a spin-lock bit of the same word protects. Every atomic operation is  *)
(* a step of its own; a compare-exchange that fails is repeated by its loop   *)
(* and changes nothing. A future that waits may be dropped at any time.       *)
EXTENDS Integers, Sequences, FiniteSets, Functions

CONSTANTS
    Threads,        \* the tasks that use the lock
    LongWait,       \* LONG_WAIT_THRESHOLD; 0: no task ever gets that far
    MayCancel       \* waiting futures may be dropped

ASSUME LockAssumption == IsFiniteSet(Threads) /\ LongWait \in Nat /\ MayCancel \in BOOLEAN

Kinds == {"Shared", "Exclusive"}
Bits == {"LOCKED", "HAS_WAITERS", "DESIGNATED_WAKER", "SPINLOCK", "WRITER_WAITING", "LONG_WAIT"}

VARIABLES
    bits,       \* the flags of RawRwLock::state
    readers,    \* its count of shared locks, state >> 8
    waiters,    \* RawRwLock::waiters, front first
    pc,         \* where each task is
    kind,       \* K of lock_slow: the lock the task wants, waits for or holds
    clear,      \* lock_slow's clear
    zero,       \* lock_slow's zero_to_acquire; "READERS" stands for READ_MASK
    waits,      \* lock_slow's wait_count, up to one more than LongWait
    woken,      \* the task's Waiter is in State::Woken
    removed,    \* the task's Waiter has WaitingFor::None
    set,        \* set_on_release, while the task holds the spin lock
    rel,        \* the bits it clears when it releases the spin lock
    wake        \* the wake list it has taken off the waiters

lockVars == <<bits, readers, waiters>>
taskVars == <<pc, kind, clear, zero, waits, woken, removed, set, rel, wake>>
vars == <<lockVars, taskVars>>

\* zero_to_acquire, set_when_waiting (also clear_on_acquire) of the two kinds.
ZeroToAcquire(k) ==
    IF k = "Shared" THEN {"LOCKED", "WRITER_WAITING", "LONG_WAIT"}
                    ELSE {"LOCKED", "READERS", "LONG_WAIT"}
WriterBit(k) == IF k = "Shared" THEN {} ELSE {"WRITER_WAITING"}

TypeOK ==
    /\ bits \subseteq Bits /\ readers \in 0..Cardinality(Threads)
    /\ Range(waiters) \subseteq Threads /\ IsInjective(waiters)
    /\ pc \in [Threads -> {"idle", "acquire", "queued", "wait", "held", "unlock",
                           "cancel", "release", "waking"}]
    /\ kind \in [Threads -> Kinds]
    /\ clear \in [Threads -> SUBSET Bits]
    /\ zero \in [Threads -> SUBSET (Bits \cup {"READERS"})]
    /\ waits \in [Threads -> 0..LongWait + 1]
    /\ woken \in [Threads -> BOOLEAN] /\ removed \in [Threads -> BOOLEAN]
    /\ set \in [Threads -> SUBSET Bits] /\ rel \in [Threads -> SUBSET Bits]
    /\ \A t \in Threads : Range(wake[t]) \subseteq Threads

Init ==
    /\ bits = {} /\ readers = 0 /\ waiters = <<>>
    /\ pc = [t \in Threads |-> "idle"]
    /\ kind = [t \in Threads |-> "Shared"]
    /\ clear = [t \in Threads |-> {}] /\ zero = [t \in Threads |-> {}]
    /\ waits = [t \in Threads |-> 0]
    /\ woken = [t \in Threads |-> FALSE] /\ removed = [t \in Threads |-> FALSE]
    /\ set = [t \in Threads |-> {}] /\ rel = [t \in Threads |-> {}]
    /\ wake = [t \in Threads |-> <<>>]

Goto(t, l) == pc' = [pc EXCEPT ![t] = l]

\* lock_slow returns or its future is dropped: its locals are gone.
Forget(t) ==
    /\ clear' = [clear EXCEPT ![t] = {}] /\ zero' = [zero EXCEPT ![t] = {}]
    /\ waits' = [waits EXCEPT ![t] = 0]
    /\ woken' = [woken EXCEPT ![t] = FALSE]

-----------------------------------------------------------------------------
(* lock, read_lock and lock_slow. The fast path is the first round of the    *)
(* slow one: the same condition and the same exchange.                       *)

\* lock_slow::<K>(clear, zero_mask) is entered.
Enter(t, k, clr, mask) ==
    /\ kind' = [kind EXCEPT ![t] = k]
    /\ clear' = [clear EXCEPT ![t] = clr]
    /\ zero' = [zero EXCEPT ![t] = ZeroToAcquire(k) \ mask]
    /\ waits' = [waits EXCEPT ![t] = 0]
    /\ Goto(t, "acquire")

Lock(t, k) ==
    /\ pc[t] = "idle"
    /\ Enter(t, k, {}, {})
    /\ UNCHANGED <<lockVars, woken, removed, set, rel, wake>>

\* lock_from_cv and read_lock_from_cv: the task comes from a Condvar, and clears
\* a DESIGNATED_WAKER that may have been set for someone else.
LockFromCv(t, k) ==
    /\ pc[t] = "idle"
    /\ Enter(t, k, {"DESIGNATED_WAKER"}, IF k = "Shared" THEN {"WRITER_WAITING"} ELSE {})
    /\ UNCHANGED <<lockVars, woken, removed, set, rel, wake>>

\* Mutant: a writer does not look at the readers.
BlockedByBits(t) == zero[t] \cap bits # {}

Blocked(t) ==
    \/ zero[t] \cap bits # {}
    \/ "READERS" \in zero[t] /\ readers > 0

\* oldstate + add_to_acquire, less what is cleared.
Acquire(t) ==
    /\ pc[t] = "acquire" /\ ~Blocked(t)
    /\ bits' = (bits \cup IF kind[t] = "Exclusive" THEN {"LOCKED"} ELSE {})
               \ (clear[t] \cup WriterBit(kind[t]))
    /\ readers' = IF kind[t] = "Shared" THEN readers + 1 ELSE readers
    /\ Forget(t) /\ removed' = [removed EXCEPT ![t] = FALSE]
    /\ Goto(t, "held")
    /\ UNCHANGED <<waiters, kind, set, rel, wake>>

\* A task that came through the queue too often goes to the front, and shuts
\* the others out.
Starved(t) == LongWait > 0 /\ waits[t] >= LongWait

\* "Make sure we clear the LONG_WAIT bit when we do finally get the lock."
ClearLong(t) == IF Starved(t) THEN clear[t] \cup {"LONG_WAIT"} ELSE clear[t]

\* The spin lock is taken, the waiter linked.
Enqueue(t) ==
    /\ pc[t] = "acquire" /\ Blocked(t) /\ "SPINLOCK" \notin bits
    /\ bits' = (bits \cup {"SPINLOCK", "HAS_WAITERS"} \cup WriterBit(kind[t])) \ clear[t]
    /\ waiters' = IF Starved(t) THEN <<t>> \o waiters ELSE Append(waiters, t)
    /\ set' = [set EXCEPT ![t] = IF Starved(t) THEN {"LONG_WAIT"} ELSE {}]
    /\ clear' = [clear EXCEPT ![t] = ClearLong(t)]
    /\ zero' = [zero EXCEPT ![t] = IF Starved(t) THEN @ \ {"LONG_WAIT"} ELSE @]
    /\ woken' = [woken EXCEPT ![t] = FALSE]
    /\ removed' = [removed EXCEPT ![t] = FALSE]
    /\ Goto(t, "queued")
    /\ UNCHANGED <<readers, kind, waits, rel, wake>>

\* The spin lock is released, and the future is pending.
Queued(t) ==
    /\ pc[t] = "queued"
    /\ bits' = (bits \cup set[t]) \ {"SPINLOCK"}
    /\ set' = [set EXCEPT ![t] = {}]
    /\ Goto(t, "wait")
    /\ UNCHANGED <<readers, waiters, kind, clear, zero, waits, woken, removed, rel, wake>>

\* The future is polled after wake().
Resume(t) ==
    /\ pc[t] = "wait" /\ woken[t]
    /\ clear' = [clear EXCEPT ![t] = @ \cup {"DESIGNATED_WAKER"}]
    /\ zero' = [zero EXCEPT ![t] = @ \ {"WRITER_WAITING"}]
    /\ waits' = [waits EXCEPT ![t] = IF LongWait > 0 /\ @ <= LongWait THEN @ + 1 ELSE @]
    /\ Goto(t, "acquire")
    /\ UNCHANGED <<lockVars, kind, woken, removed, set, rel, wake>>

-----------------------------------------------------------------------------
(* unlock, read_unlock and unlock_slow.                                      *)

\* The first waiter if it is a writer, else every reader.
WakeList(ws) ==
    IF ws # <<>> /\ kind[Head(ws)] = "Exclusive" THEN <<Head(ws)>>
    ELSE SelectSeq(ws, LAMBDA w : kind[w] = "Shared")

Remaining(ws) == SelectSeq(ws, LAMBDA w : w \notin Range(WakeList(ws)))

\* The writers passed over when readers are woken.
SetOnRelease(ws) ==
    IF ws # <<>> /\ kind[Head(ws)] = "Shared" /\ Remaining(ws) # <<>>
    THEN {"WRITER_WAITING"} ELSE {}

\* With the spin lock held: the wake list is taken off the list.
TakeWakeList(t, ws) ==
    /\ waiters' = Remaining(ws)
    /\ wake' = [wake EXCEPT ![t] = WakeList(ws)]
    /\ removed' = [u \in Threads |-> removed[u] \/ u \in Range(WakeList(ws))]
    /\ set' = [set EXCEPT ![t] = SetOnRelease(ws)]

\* Mutant: DESIGNATED_WAKER is left set.
ClearedNotWaker(ws, woke) ==
    {"SPINLOCK"} \cup (IF ws = <<>> THEN {"HAS_WAITERS"} ELSE {})

\* What is cleared with the spin lock when the list is ws and woke is woken.
Cleared(ws, woke) ==
    {"SPINLOCK"} \cup (IF ws = <<>> THEN {"HAS_WAITERS"} ELSE {})
                 \cup (IF woke = <<>> THEN {"DESIGNATED_WAKER"} ELSE {})

\* fetch_sub; the last holder goes on to wake a waiter unless one is awake.
Unlock(t) ==
    /\ pc[t] = "held"
    /\ bits' = bits \ IF kind[t] = "Exclusive" THEN {"LOCKED"} ELSE {}
    /\ readers' = IF kind[t] = "Shared" THEN readers - 1 ELSE readers
    /\ Goto(t, IF /\ "HAS_WAITERS" \in bits /\ "DESIGNATED_WAKER" \notin bits
                  /\ kind[t] = "Shared" => readers = 1
               THEN "unlock" ELSE "idle")
    /\ kind' = [kind EXCEPT ![t] = "Shared"]
    /\ UNCHANGED <<waiters, clear, zero, waits, woken, removed, set, rel, wake>>

\* Nothing left to do, seen on the load.
UnlockNothing(t) ==
    /\ pc[t] = "unlock"
    /\ "HAS_WAITERS" \notin bits \/ "DESIGNATED_WAKER" \in bits
    /\ Goto(t, "idle")
    /\ UNCHANGED <<lockVars, kind, clear, zero, waits, woken, removed, set, rel, wake>>

UnlockSlow(t) ==
    /\ pc[t] = "unlock"
    /\ "HAS_WAITERS" \in bits /\ "DESIGNATED_WAKER" \notin bits /\ "SPINLOCK" \notin bits
    /\ bits' = bits \cup {"SPINLOCK", "DESIGNATED_WAKER"}
    /\ TakeWakeList(t, waiters)
    /\ rel' = [rel EXCEPT ![t] = Cleared(Remaining(waiters), WakeList(waiters))]
    /\ Goto(t, "release")
    /\ UNCHANGED <<readers, kind, clear, zero, waits, woken>>

\* The spin lock is released together with the bits that change; bits set win.
Release(t) ==
    /\ pc[t] = "release"
    /\ bits' = (bits \ rel[t]) \cup set[t]
    /\ set' = [set EXCEPT ![t] = {}] /\ rel' = [rel EXCEPT ![t] = {}]
    /\ Goto(t, IF wake[t] = <<>> THEN "idle" ELSE "waking")
    /\ UNCHANGED <<readers, waiters, kind, clear, zero, waits, woken, removed, wake>>

\* Waiter::wake, one after the other.
Wake(t) ==
    /\ pc[t] = "waking"
    /\ woken' = [woken EXCEPT ![Head(wake[t])] = TRUE]
    /\ wake' = [wake EXCEPT ![t] = Tail(@)]
    /\ Goto(t, IF Len(wake[t]) = 1 THEN "idle" ELSE "waking")
    /\ UNCHANGED <<lockVars, kind, clear, zero, waits, removed, set, rel>>

-----------------------------------------------------------------------------
(* Drop for WaitFuture and cancel_waiter. Whether the waiter was woken is    *)
(* read before the spin lock is taken, and may be stale by then.             *)

Cancel(t) ==
    /\ MayCancel /\ pc[t] = "wait"
    /\ rel' = [rel EXCEPT ![t] = IF woken[t] THEN {"LONG_WAIT"} ELSE {}]
    /\ Goto(t, "cancel")
    /\ UNCHANGED <<lockVars, kind, clear, zero, waits, woken, removed, set, wake>>

\* The wake() that other tasks still owe the dropped waiter has no effect.
Without(t, lists) == [u \in Threads |-> SelectSeq(lists[u], LAMBDA w : w # t)]

\* What the dropped waiter may have set.
CancelCleared(t, wakeNext, first) ==
    WriterBit(kind[t]) \cup IF wakeNext \/ first THEN {"LONG_WAIT"} ELSE {}

CancelWaiter(t) ==
    LET wakeNext == rel[t] # {}
        first == waiters # <<>> /\ Head(waiters) = t
        left == SelectSeq(waiters, LAMBDA w : w # t)
        woke == IF wakeNext \/ removed[t] THEN WakeList(left) ELSE <<>>
        rest == IF wakeNext \/ removed[t] THEN Remaining(left) ELSE left
    IN /\ pc[t] = "cancel" /\ "SPINLOCK" \notin bits
       /\ bits' = bits \cup {"SPINLOCK"}
       /\ waiters' = rest
       /\ wake' = [Without(t, wake) EXCEPT ![t] = woke]
       /\ removed' = [u \in Threads |-> u # t /\ (removed[u] \/ u \in Range(woke))]
       /\ Forget(t)
       /\ set' = [set EXCEPT ![t] = IF wakeNext \/ removed[t] THEN SetOnRelease(left) ELSE {}]
       /\ rel' = [rel EXCEPT ![t] = Cleared(rest, woke) \cup CancelCleared(t, wakeNext, first)]
       /\ pc' = [u \in Threads |->
                   IF u = t THEN "release"
                   ELSE IF pc[u] = "waking" /\ wake'[u] = <<>> THEN "idle" ELSE pc[u]]
       /\ kind' = [kind EXCEPT ![t] = "Shared"]
       /\ UNCHANGED readers

-----------------------------------------------------------------------------
Step(t) ==
    \/ Acquire(t) \/ Enqueue(t) \/ Queued(t) \/ Resume(t)
    \/ Unlock(t) \/ UnlockNothing(t) \/ UnlockSlow(t) \/ Release(t) \/ Wake(t)
    \/ CancelWaiter(t)

Next ==
    \E t \in Threads :
        \/ \E k \in Kinds : Lock(t, k) \/ LockFromCv(t, k)
        \/ Step(t)
        \/ Cancel(t)

Spec == Init /\ [][Next]_vars

-----------------------------------------------------------------------------
Holders(k) == {t \in Threads : pc[t] = "held" /\ kind[t] = k}
Spinning == {t \in Threads : pc[t] \in {"queued", "release"}}

\* A writer is alone, and the word says who holds the lock: the arithmetic on
\* one word by tasks that only look at some of its bits never lets a second
\* holder in or loses count (lock, read_lock, unlock, read_unlock).
MutualExclusion ==
    /\ Holders("Exclusive") # {} =>
           Cardinality(Holders("Exclusive")) = 1 /\ Holders("Shared") = {}
    /\ ("LOCKED" \in bits) = (Holders("Exclusive") # {})
    /\ readers = Cardinality(Holders("Shared"))

\* The SPINLOCK bit is set while one task, and no second one, works on the list.
ListHasOneOwner == Cardinality(Spinning) = IF "SPINLOCK" \in bits THEN 1 ELSE 0

\* The waiter list has one owner at a time, and HAS_WAITERS is right about it
\* whenever nobody is changing it (the SAFETY comments of mu.rs).
WaitersProtected ==
    /\ ListHasOneOwner
    /\ Spinning = {} => ("HAS_WAITERS" \in bits) = (waiters # <<>>)

\* wake() is called on a waiter that is off every list, as its assertions say,
\* and no waiter that has been taken off the list is forgotten: it is woken,
\* about to be woken, or dropped (waiter.rs, wake and WaitFuture).
WakeIsDue ==
    \A t \in Threads :
        /\ \A w \in Range(wake[t]) : removed[w] /\ w \notin Range(waiters)
        /\ pc[t] = "wait" /\ removed[t] =>
               woken[t] \/ \E u \in Threads : t \in Range(wake[u])
        /\ pc[t] = "wait" /\ ~removed[t] => t \in Range(waiters)

\* Nothing moves any more unless a new task comes.
Quiet ==
    /\ \A t \in Threads : pc[t] \in {"idle", "wait"}
    /\ \A t \in Threads : pc[t] = "wait" => ~woken[t]

\* LONG_WAIT is set and no task is left that would clear it.
Abandoned ==
    "LONG_WAIT" \in bits /\ \A t \in Threads : "LONG_WAIT" \notin clear[t] \cup rel[t]

\* No waiter is left behind: when nobody holds the lock and nobody is at work
\* on it, nobody waits for it, whatever futures were dropped on the way
\* (unlock_slow and cancel_waiter with DESIGNATED_WAKER).
NobodyStranded ==
    Quiet => waiters = <<>>

\* A free lock that nobody uses can be taken by a reader and by a writer.
FreeIsFree ==
    (\A t \in Threads : pc[t] = "idle") => bits \cap {"LOCKED", "WRITER_WAITING", "LONG_WAIT"} = {}

\* "When this bit is set, all other threads are prevented from acquiring the
\* lock until the thread that set the LONG_WAIT bit has acquired the lock":
\* while a task that has been through the queue with it still waits, only a task
\* that has set it too is let in. The code does not keep this: a starved task
\* that queues again clears its own bit until it releases the spin lock.
StarvedGoesFirst ==
    [][\A t, u \in Threads :
          /\ waits[t] > LongWait /\ waits'[t] > LongWait
          /\ pc[u] = "acquire" /\ pc'[u] = "held"
          => "LONG_WAIT" \in clear[u]]_vars

\* The queue of the lock is kept whatever is dropped: list and bits agree and wake-ups
\* are due.
WaitersKept == TypeOK /\ WaitersProtected /\ WakeIsDue

\* The lock stays usable: one without users has no bits of users, no waiter that could
\* have it is left without somebody who will wake it, and LONG_WAIT is somebody's.
LockUsable == NobodyStranded /\ FreeIsFree /\ ~Abandoned
=============================================================================
