----------------------------- MODULE MCCrosAsync -----------------------------
(***************************************************************************)
(* The locks of cros_async for TLC.  A behaviour runs the readers-writer   *)
(* lock, with up to three tasks at a time that starve after one trip       *)
(* through the queue and may be dropped, or with four that may be dropped  *)
(* and never starve; or it runs the condition variable.                    *)
(***************************************************************************)
EXTENDS AsyncRwLock, TLC

VARIABLES
    part,       \* what runs
    gone,       \* a starved task was dropped off the list and not woken, and left LONG_WAIT
    \* AsyncCondvar
    items, lock, spin, hasWaiters, cvWaiters, cvPc, cvKind, cvWoken, cvRemoved, wakeNext, cvWake,
    lost

Patient == INSTANCE AsyncRwLock WITH LongWait <- 0
Cv == INSTANCE AsyncCondvar WITH
    Users <- {"u1", "u2", "u3"}, Makers <- {"m1"}, MaxItems <- 2, MayCancel <- TRUE,
    waiters <- cvWaiters, pc <- cvPc, kind <- cvKind, woken <- cvWoken,
    removed <- cvRemoved, wake <- cvWake

cvVars == <<items, lock, spin, hasWaiters, cvWaiters, cvPc, cvKind, cvWoken, cvRemoved,
            wakeNext, cvWake, lost>>

PartsInit == part \in {"starving", "patient", "condvar"} /\ gone = FALSE /\ Init /\ Cv!Init

\* cancel_waiter runs for a starved task that is off the list and not woken.
DropsStarved ==
    \E t \in Threads :
        /\ pc[t] = "cancel" /\ pc'[t] = "release"
        /\ "LONG_WAIT" \in (bits \cap clear[t]) \ rel'[t] /\ removed[t]

Busy == {t \in Threads : pc[t] # "idle"}

PartsNext ==
    /\ UNCHANGED part
    /\ \/ /\ part = "starving" /\ Next /\ Cardinality(Busy') <= 3
          /\ gone' = (gone \/ DropsStarved) /\ UNCHANGED cvVars
       \/ part = "patient" /\ Patient!Next /\ UNCHANGED <<gone, cvVars>>
       \/ part = "condvar" /\ Cv!Next /\ UNCHANGED <<vars, gone>>

PartsSpec == PartsInit /\ [][PartsNext]_<<part, gone, vars, cvVars>>

\* The tasks of the readers-writer lock differ only in name.
Symmetry == Permutations(Threads)

-----------------------------------------------------------------------------
\* AsyncRwLock: whatever is dropped, list and bits agree and wake-ups are due; and no
\* waiter is left behind and no free lock barred, except in one case: a starved task is
\* dropped just when it is off the list and not yet woken.  cancel_waiter then leaves its
\* LONG_WAIT set, and who comes later may wait for good.
QueueKept == WaitersKept /\ (LockUsable \/ gone)

\* AsyncCondvar: one task at a time works on the list of waiters, whoever is off it is
\* woken, and when everything has come to rest no taker waits beside an item, whatever
\* waits were dropped while they waited for a notification.  A wait that is dropped
\* at the await for the lock takes its notification with it, and no other.
NotificationsKept == Cv!NotificationsKept
=============================================================================
