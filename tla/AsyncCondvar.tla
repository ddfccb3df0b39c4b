---------------------------- MODULE AsyncCondvar ----------------------------
(* Condvar of cros_async (sync/cv.rs) with its waiters (sync/waiter.rs), as a *)
(* queue of items uses it: a taker waits for an item and takes it, a looker   *)
(* waits for an item with a shared lock and leaves it, a maker adds one and   *)
(* notifies. The lock is taken for what AsyncRwLock shows of it: it excludes, *)
(* and it is free again when it is released. Atomic operations on the state   *)
(* of the Condvar are steps of their own.                                     *)
EXTENDS Integers, Sequences, FiniteSets, Functions

CONSTANTS
    Users,          \* the tasks that wait
    Makers,         \* the tasks that notify
    MaxItems,       \* bound on the items
    MayCancel       \* wait() may be dropped, at either of its awaits

Tasks == Users \cup Makers
Kinds == {"Shared", "Exclusive"}

VARIABLES
    items,      \* what the lock protects
    lock,       \* the kind of lock each task holds
    spin,       \* SPINLOCK of Condvar::state
    hasWaiters, \* HAS_WAITERS of Condvar::state
    waiters,    \* Condvar::waiters
    pc,         \* where each task is
    kind,       \* Waiter::kind: wait or wait_read
    woken,      \* the Waiter is in State::Woken
    removed,    \* the Waiter has WaitingFor::None
    wakeNext,   \* cancel_waiter's argument
    wake,       \* the wake list the task has taken
    \* history
    lost        \* notified takers that were dropped before they had the lock again

cvVars == <<spin, hasWaiters, waiters>>
history == <<lost>>
vars == <<items, lock, cvVars, pc, kind, woken, removed, wakeNext, wake, history>>

TypeOK ==
    /\ items \in 0..MaxItems
    /\ lock \in [Tasks -> Kinds \cup {"none"}]
    /\ spin \in BOOLEAN /\ hasWaiters \in BOOLEAN
    /\ Range(waiters) \subseteq Users /\ IsInjective(waiters)
    /\ pc \in [Tasks -> {"idle", "lock", "relock", "test", "added", "drop", "wait", "cancel",
                         "notify", "take", "store", "waking"}]
    /\ kind \in [Tasks -> Kinds]
    /\ woken \in [Tasks -> BOOLEAN] /\ removed \in [Tasks -> BOOLEAN]
    /\ wakeNext \in [Tasks -> BOOLEAN]
    /\ \A t \in Tasks : Range(wake[t]) \subseteq Users
    /\ lost \in 0..MaxItems

Init ==
    /\ items = 0
    /\ lock = [t \in Tasks |-> "none"]
    /\ spin = FALSE /\ hasWaiters = FALSE /\ waiters = <<>>
    /\ pc = [t \in Tasks |-> "idle"]
    /\ kind = [t \in Tasks |-> "Exclusive"]
    /\ woken = [t \in Tasks |-> FALSE] /\ removed = [t \in Tasks |-> FALSE]
    /\ wakeNext = [t \in Tasks |-> FALSE]
    /\ wake = [t \in Tasks |-> <<>>]
    /\ lost = 0

Goto(t, l) == pc' = [pc EXCEPT ![t] = l]

-----------------------------------------------------------------------------
(* The users, and the lock.                                                  *)

Start(t, k) ==
    /\ pc[t] = "idle" /\ t \in Users
    /\ kind' = [kind EXCEPT ![t] = k]
    /\ Goto(t, "lock")
    /\ UNCHANGED <<items, lock, cvVars, woken, removed, wakeNext, wake, history>>

\* lock or read_lock; lock_from_cv or read_lock_from_cv after a notification.
Acquire(t) ==
    /\ pc[t] \in {"lock", "relock"}
    /\ \A u \in Tasks : lock[u] = "none" \/ (lock[u] = "Shared" /\ kind[t] = "Shared")
    /\ lock' = [lock EXCEPT ![t] = kind[t]]
    /\ Goto(t, "test")
    /\ UNCHANGED <<items, cvVars, kind, woken, removed, wakeNext, wake, history>>

\* There is an item: a taker takes it, and the guard is dropped.
Use(t) ==
    /\ pc[t] = "test" /\ t \in Users /\ items > 0
    /\ items' = IF kind[t] = "Exclusive" THEN items - 1 ELSE items
    /\ lock' = [lock EXCEPT ![t] = "none"]
    /\ kind' = [kind EXCEPT ![t] = "Exclusive"]
    /\ Goto(t, "idle")
    /\ UNCHANGED <<cvVars, woken, removed, wakeNext, wake, history>>

\* There is none: wait or wait_read. add_waiter takes the spin lock and links
\* a new Waiter.
AddWaiter(t) ==
    /\ pc[t] = "test" /\ t \in Users /\ items = 0 /\ ~spin
    /\ spin' = TRUE /\ hasWaiters' = TRUE
    /\ waiters' = Append(waiters, t)
    /\ woken' = [woken EXCEPT ![t] = FALSE]
    /\ removed' = [removed EXCEPT ![t] = FALSE]
    /\ Goto(t, "added")
    /\ UNCHANGED <<items, lock, kind, wakeNext, wake, history>>

\* The store that ends add_waiter.
Added(t) ==
    /\ pc[t] = "added"
    /\ spin' = FALSE /\ hasWaiters' = TRUE
    /\ Goto(t, "drop")
    /\ UNCHANGED <<items, lock, waiters, kind, woken, removed, wakeNext, wake, history>>

\* guard.into_inner().
DropGuard(t) ==
    /\ pc[t] = "drop"
    /\ lock' = [lock EXCEPT ![t] = "none"]
    /\ Goto(t, "wait")
    /\ UNCHANGED <<items, cvVars, kind, woken, removed, wakeNext, wake, history>>

\* waiter.wait().await is polled after wake(); the lock is taken again.
Resume(t) ==
    /\ pc[t] = "wait" /\ woken[t]
    /\ woken' = [woken EXCEPT ![t] = FALSE]
    /\ removed' = [removed EXCEPT ![t] = FALSE]
    /\ Goto(t, "relock")
    /\ UNCHANGED <<items, lock, cvVars, kind, wakeNext, wake, history>>

-----------------------------------------------------------------------------
(* The makers. They may notify with the lock held or after they let it go.   *)

Make(t) ==
    /\ pc[t] = "idle" /\ t \in Makers /\ items < MaxItems
    /\ Goto(t, "lock")
    /\ UNCHANGED <<items, lock, cvVars, kind, woken, removed, wakeNext, wake, history>>

Put(t, early) ==
    /\ pc[t] = "test" /\ t \in Makers
    /\ items' = IF items < MaxItems THEN items + 1 ELSE items
    /\ lock' = IF early THEN lock ELSE [lock EXCEPT ![t] = "none"]
    /\ Goto(t, "notify")
    /\ UNCHANGED <<cvVars, kind, woken, removed, wakeNext, wake, history>>

\* A notify_* or a cancellation returns; a guard still held is dropped.
Finish(t) ==
    /\ Goto(t, "idle")
    /\ lock' = [lock EXCEPT ![t] = "none"]

\* No waiters, seen on the load.
NotifyNobody(t) ==
    /\ pc[t] = "notify" /\ ~hasWaiters
    /\ Finish(t)
    /\ UNCHANGED <<items, cvVars, kind, woken, removed, wakeNext, wake, history>>

Notify(t) ==
    /\ pc[t] = "notify" /\ hasWaiters
    /\ Goto(t, "take")
    /\ UNCHANGED <<items, lock, cvVars, kind, woken, removed, wakeNext, wake, history>>

\* get_wake_list: the first waiter if it is a writer, else every reader and
\* the first writer among them.
WakeList(ws) ==
    IF ws # <<>> /\ kind[Head(ws)] = "Exclusive" THEN <<Head(ws)>>
    ELSE LET writers == SelectSeq(ws, LAMBDA w : kind[w] = "Exclusive")
         IN SelectSeq(ws, LAMBDA w : kind[w] = "Shared" \/ w = Head(writers))

\* The waiters to wake are taken off the list.
Take(t, ws, list) ==
    /\ spin' = TRUE
    /\ waiters' = SelectSeq(ws, LAMBDA w : w \notin Range(list))
    /\ removed' = [u \in Tasks |-> removed[u] \/ u \in Range(list)]

\* notify_one and notify_all with the spin lock taken.
NotifyTake(t, list) ==
    /\ pc[t] = "take" /\ ~spin
    /\ Take(t, waiters, list)
    /\ wake' = [wake EXCEPT ![t] = list]
    /\ Goto(t, "store")
    /\ UNCHANGED <<items, lock, hasWaiters, kind, woken, wakeNext, history>>

\* The direct store that releases the spin lock.
Store(t) ==
    /\ pc[t] = "store"
    /\ spin' = FALSE /\ hasWaiters' = (waiters # <<>>)
    /\ IF wake[t] = <<>> THEN Finish(t) ELSE Goto(t, "waking") /\ UNCHANGED lock
    /\ UNCHANGED <<items, waiters, kind, woken, removed, wakeNext, wake, history>>

Wake(t) ==
    /\ pc[t] = "waking"
    /\ woken' = [woken EXCEPT ![Head(wake[t])] = TRUE]
    /\ wake' = [wake EXCEPT ![t] = Tail(@)]
    /\ IF Len(wake[t]) = 1 THEN Finish(t) ELSE UNCHANGED <<lock, pc>>
    /\ UNCHANGED <<items, cvVars, kind, removed, wakeNext, history>>

-----------------------------------------------------------------------------
(* Drop for WaitFuture and cancel_waiter.                                    *)

Cancel(t) ==
    /\ MayCancel /\ pc[t] = "wait"
    /\ wakeNext' = [wakeNext EXCEPT ![t] = woken[t]]
    /\ Goto(t, "cancel")
    /\ UNCHANGED <<items, lock, cvVars, kind, woken, removed, wake, history>>

\* The other await of wait() is the one for the lock: the notification that ended the
\* first one goes with it.
CancelRelock(t) ==
    /\ MayCancel /\ pc[t] = "relock"
    /\ kind' = [kind EXCEPT ![t] = "Exclusive"]
    /\ lost' = IF kind[t] = "Exclusive" /\ lost < MaxItems THEN lost + 1 ELSE lost
    /\ Goto(t, "idle")
    /\ UNCHANGED <<items, lock, cvVars, woken, removed, wakeNext, wake>>

\* Mutant: a waiter unlinked but not yet woken keeps the notification.
PassOnWoken(t) == wakeNext[t]

\* "Either way, we need to wake up another thread."
PassOn(t) == wakeNext[t] \/ removed[t]

\* The wake() that others still owe the dropped waiter has no effect.
CancelWaiter(t) ==
    LET left == SelectSeq(waiters, LAMBDA w : w # t)
        list == IF PassOn(t) THEN WakeList(left) ELSE <<>>
        others == [u \in Tasks |-> SelectSeq(wake[u], LAMBDA w : w # t)]
        done == {u \in Tasks : pc[u] = "waking" /\ others[u] = <<>>}
    IN /\ pc[t] = "cancel" /\ ~spin
       /\ spin' = TRUE
       /\ waiters' = SelectSeq(left, LAMBDA w : w \notin Range(list))
       /\ removed' = [u \in Tasks |-> u # t /\ (removed[u] \/ u \in Range(list))]
       /\ wake' = [others EXCEPT ![t] = list]
       /\ pc' = [u \in Tasks |-> IF u = t THEN "store" ELSE IF u \in done THEN "idle" ELSE pc[u]]
       /\ lock' = [u \in Tasks |-> IF u \in done THEN "none" ELSE lock[u]]
       /\ woken' = [woken EXCEPT ![t] = FALSE]
       /\ wakeNext' = [wakeNext EXCEPT ![t] = FALSE]
       /\ kind' = [kind EXCEPT ![t] = "Exclusive"]
       /\ UNCHANGED <<items, hasWaiters, history>>

-----------------------------------------------------------------------------
Step(t) ==
    \/ Acquire(t) \/ Use(t) \/ AddWaiter(t) \/ Added(t) \/ DropGuard(t) \/ Resume(t)
    \/ \E early \in BOOLEAN : Put(t, early)
    \/ NotifyNobody(t) \/ Notify(t)
    \/ NotifyTake(t, WakeList(waiters))     \* notify_one
    \/ NotifyTake(t, waiters)               \* notify_all
    \/ Store(t) \/ Wake(t) \/ CancelWaiter(t)

Next ==
    \E t \in Tasks :
        \/ \E k \in Kinds : Start(t, k)
        \/ Make(t) \/ Step(t) \/ Cancel(t) \/ CancelRelock(t)

Spec == Init /\ [][Next]_vars

-----------------------------------------------------------------------------
Spinning == {t \in Tasks : pc[t] \in {"added", "store"}}

\* The stores that release the spin lock overwrite nobody's change: one task at
\* a time works on the list, and HAS_WAITERS is right about it in between.
ListProtected ==
    /\ Cardinality(Spinning) = IF spin THEN 1 ELSE 0
    /\ ~spin => hasWaiters = (waiters # <<>>)

\* wake() finds a waiter that is off the list, and no waiter taken off the list
\* is forgotten (the assertions of Waiter::wake).
WakeIsDue ==
    \A t \in Tasks :
        /\ \A w \in Range(wake[t]) : removed[w] /\ w \notin Range(waiters)
        /\ pc[t] = "wait" /\ removed[t] =>
               woken[t] \/ \E u \in Tasks : t \in Range(wake[u])
        /\ pc[t] = "wait" /\ ~removed[t] => t \in Range(waiters)

\* Nothing moves unless a task asks for something new.
Quiet == \A t \in Tasks : pc[t] = "idle" \/ (pc[t] = "wait" /\ ~woken[t])

Takers == {w \in Range(waiters) : kind[w] = "Exclusive"}

\* When everything has come to rest, a taker waits beside an item only for a
\* notification that another taker had used up when it was dropped at the await for
\* the lock: one for each.  None is lost otherwise, although a notification may wake
\* a waiter that is being dropped, and although it wakes readers before writers.
NotifyNotLost ==
    Quiet => items <= lost \/ Cardinality(Takers) <= lost

\* A notification reaches a waiter that can use it: the list is worked on by one task
\* at a time, who is off it is woken, and none is lost but with a wait dropped at the lock.
NotificationsKept == TypeOK /\ ListProtected /\ WakeIsDue /\ NotifyNotLost
=============================================================================
