------------------------------ MODULE BoundOwner ------------------------------
(***************************************************************************)
(* The owner of a fault-injection run: bound_owner.BoundInstance on Linux  *)
(* pidfds, and the parts of PosixOwner that arm it, let it clean up once   *)
(* and go on observing.                                                    *)
(*                                                                         *)
(* The handles pin the processes of one session.  Binding, one pass of     *)
(* TERM, and the release of log, storage and handles each happen once; any *)
(* surprise leaves everything as it is.  Around the owner the processes    *)
(* exit, fork and hand on their PIDs.  An inventory is one step, but what  *)
(* it saw is used in a later one.                                          *)
(***************************************************************************)
EXTENDS Naturals

CONSTANTS
    Members,        \* the processes expected in the session
    MaxCalls        \* the observations a retained owner may make

ASSUME MembersAssumption == Members # {}
ASSUME MaxCallsAssumption == MaxCalls \in Nat

VARIABLES
    \* the session
    proc,           \* proc[m]: what the PID of m stands for
    stranger,       \* a process of the session that nobody expects
    \* BoundInstance
    fds,            \* members with an open handle
    pin,            \* pin[m]: the process the handle was opened on
    armed, attempted, blocked, closeAttempts, resource,
    logClosed,
    \* where the owner is
    pc, ctx,        \* ctx: within terminate_once, or observing afterwards
    todo,           \* members the TERM pass has still to visit
    snap,           \* members the last inventory saw
    late,           \* the five seconds of terminate_once are over
    calls, expired, \* the budget of a retained owner
    \* history
    terms, closes   \* calls of ops.term and ops.close for each member

session == <<proc, stranger>>
handles == <<fds, pin, armed, closeAttempts>>
budget == <<late, calls, expired>>
history == <<terms, closes>>
vars == <<session, handles, attempted, blocked, resource, logClosed, pc, ctx, todo, snap,
          budget, history>>

\* The values the state of the owner and of its session may take.
TypeOK ==
    /\ proc \in [Members -> {"live", "zombie", "gone", "other"}] /\ stranger \in BOOLEAN
    /\ fds \subseteq Members /\ closeAttempts \subseteq Members
    /\ pin \in [Members -> {"none", "own", "other"}]
    /\ armed \in BOOLEAN /\ attempted \in BOOLEAN /\ blocked \in BOOLEAN
    /\ resource \in {"UNKNOWN", "REAPED"} /\ logClosed \in BOOLEAN
    /\ pc \in {"new", "bind", "bound", "armed", "val0", "check0", "val", "check", "obs", "look",
               "lookexit", "release", "snapshot", "close", "retained", "done"}
    /\ ctx \in {"term", "retain"}
    /\ todo \subseteq Members /\ snap \subseteq Members
    /\ late \in BOOLEAN /\ expired \in BOOLEAN /\ calls \in 0 .. MaxCalls
    /\ terms \in [Members -> Nat] /\ closes \in [Members -> Nat]

\* observe() has recorded the members while they were running.
Init ==
    /\ proc \in [Members -> {"live", "gone"}] /\ stranger \in BOOLEAN
    /\ fds = {} /\ pin = [m \in Members |-> "none"] /\ closeAttempts = {}
    /\ armed = FALSE /\ attempted = FALSE /\ blocked = FALSE
    /\ resource = "UNKNOWN" /\ logClosed = FALSE
    /\ pc = "new" /\ ctx = "term" /\ todo = {} /\ snap = {}
    /\ late = FALSE /\ calls = 0 /\ expired = FALSE
    /\ terms = [m \in Members |-> 0] /\ closes = [m \in Members |-> 0]

-----------------------------------------------------------------------------
(* What the owner sees *)

\* linux_fault_inventory leaves zombies out; a PID that stands for another
\* process, and a process nobody expects, are refused.
Seen == {m \in Members : proc[m] = "live"}
Recognised == ~stranger /\ \A m \in Members : proc[m] # "other"
AllPresent == Recognised /\ Seen = Members

\* A pidfd is readable once its own process has exited.
Exited(m) == pin[m] = "own" /\ proc[m] # "live"

\* session_empty: ps still lists a zombie.
SessionEmpty == ~stranger /\ \A m \in Members : proc[m] = "gone"

-----------------------------------------------------------------------------
(* bind_linux_fault_members and BoundInstance.bind *)

InitialInventory ==
    /\ pc = "new"
    /\ \/ AllPresent /\ pc' = "bind"
       \/ pc' = "retained"
    /\ UNCHANGED <<session, handles, attempted, blocked, resource, logClosed, ctx, todo, snap,
                   budget, history>>

\* pidfd_open takes whatever has the PID now.
BindOpen(m) ==
    /\ pc = "bind" /\ m \notin fds
    /\ proc[m] # "gone"
    /\ fds' = fds \cup {m}
    /\ pin' = [pin EXCEPT ![m] = IF proc[m] = "other" THEN "other" ELSE "own"]
    /\ pc' = "bound"
    /\ UNCHANGED <<session, armed, closeAttempts, attempted, blocked, resource, logClosed, ctx,
                   todo, snap, budget, history>>

\* Mutant: the inventory is not repeated after the handle was opened.
BindCheckOnce ==
    /\ pc = "bound"
    /\ \A m \in fds : ~Exited(m)
    /\ armed' = (fds = Members)
    /\ pc' = IF fds = Members THEN "armed" ELSE "bind"
    /\ UNCHANGED <<session, fds, pin, closeAttempts, attempted, blocked, resource, logClosed,
                   ctx, todo, snap, budget, history>>

BindCheck ==
    /\ pc = "bound"
    /\ AllPresent
    /\ armed' = (fds = Members)
    /\ pc' = IF fds = Members THEN "armed" ELSE "bind"
    /\ UNCHANGED <<session, fds, pin, closeAttempts, attempted, blocked, resource, logClosed,
                   ctx, todo, snap, budget, history>>

\* Partial handles stay open and the binding is not repeated.
BindFails ==
    /\ pc \in {"bind", "bound"}
    /\ pc' = "retained"
    /\ UNCHANGED <<session, handles, attempted, blocked, resource, logClosed, ctx, todo, snap,
                   budget, history>>

-----------------------------------------------------------------------------
(* BoundInstance.terminate_once *)

\* failure_cleanup of the failed attempt; without authorization nothing happens.
Terminate ==
    /\ pc = "armed"
    /\ \/ attempted' = TRUE /\ pc' = "val0" /\ todo' = Members
       \/ pc' = "retained" /\ UNCHANGED <<attempted, todo>>
    /\ UNCHANGED <<session, handles, blocked, resource, logClosed, ctx, snap, budget, history>>

\* An exception in terminate_once: nothing is tried again.
Doubt == blocked' = TRUE /\ pc' = "retained"

\* validate, first half: the inventory.  The deadline is looked at before every
\* member, not before the first validation.
Validate ==
    /\ \/ /\ pc = "val0" \/ (pc = "val" /\ ~late)
          /\ \/ /\ Recognised
                /\ snap' = Seen /\ pc' = (IF pc = "val0" THEN "check0" ELSE "check")
                /\ UNCHANGED blocked
             \/ Doubt /\ UNCHANGED snap
       \/ pc = "val" /\ late /\ pc' = "obs" /\ UNCHANGED <<snap, blocked>>
    /\ UNCHANGED <<session, handles, attempted, resource, logClosed, ctx, todo, budget, history>>

\* Second half: inventory and handles must tell the same story.
Pending == \E m \in Members : (m \in snap) = Exited(m)

FirstCheck ==
    /\ pc = "check0"
    /\ \/ pc' = (IF Pending THEN "obs" ELSE "val") /\ UNCHANGED blocked
       \/ Doubt
    /\ UNCHANGED <<session, handles, attempted, resource, logClosed, ctx, todo, snap, budget,
                   history>>

\* Mutant: a snapshot that does not match the handles is good enough.
TermPassPending(m) ==
    /\ pc = "check" /\ m \in todo
    /\ todo' = todo \ {m}
    /\ terms' = [terms EXCEPT ![m] = @ + 1]
    /\ pc' = IF todo' = {} THEN "obs" ELSE "val"
    /\ UNCHANGED <<session, handles, attempted, blocked, resource, logClosed, ctx, snap, budget,
                   closes>>

\* One TERM on the handle of a member that has not exited.
TermPass(m) ==
    /\ pc = "check" /\ ~Pending /\ m \in todo
    /\ todo' = todo \ {m}
    /\ IF Exited(m) THEN UNCHANGED terms ELSE terms' = [terms EXCEPT ![m] = @ + 1]
    /\ \/ pc' = (IF todo' = {} THEN "obs" ELSE "val") /\ UNCHANGED blocked
       \/ Doubt
    /\ UNCHANGED <<session, handles, attempted, resource, logClosed, ctx, snap, budget, closes>>

\* A pending snapshot ends the pass; validation may also raise.
TermPassEnds ==
    /\ pc = "check"
    /\ \/ Pending /\ pc' = "obs" /\ UNCHANGED blocked
       \/ Doubt
    /\ UNCHANGED <<session, handles, attempted, resource, logClosed, ctx, todo, snap, budget,
                   history>>

\* The observation loop: five seconds, then the receipt is returned as it is.
ObserveLoop ==
    /\ pc = "obs"
    /\ \/ pc' = (IF late THEN "retained" ELSE "look") /\ UNCHANGED blocked
       \/ Doubt
    /\ UNCHANGED <<session, handles, attempted, resource, logClosed, ctx, todo, snap, budget,
                   history>>

-----------------------------------------------------------------------------
(* BoundInstance.observe_once *)

\* Where a pending observation leads.
Again == IF ctx = "term" THEN "obs" ELSE "retained"

Look ==
    /\ pc = "look"
    /\ \/ closeAttempts # {} /\ pc' = "retained" /\ UNCHANGED <<snap, blocked>>
       \/ /\ closeAttempts = {} /\ Recognised
          /\ snap' = Seen /\ pc' = "lookexit" /\ UNCHANGED blocked
       \/ closeAttempts = {} /\ Doubt /\ UNCHANGED snap
    /\ UNCHANGED <<session, handles, attempted, resource, logClosed, ctx, todo, budget, history>>

\* Either side pending means another observation.
LookExit ==
    /\ pc = "lookexit"
    /\ \/ /\ pc' = IF snap = {} /\ \A m \in fds : Exited(m) THEN "release" ELSE Again
          /\ UNCHANGED blocked
       \/ Doubt
    /\ UNCHANGED <<session, handles, attempted, resource, logClosed, ctx, todo, snap, budget,
                   history>>

\* release_log: the session must be empty by then.
ReleaseLog ==
    /\ pc = "release"
    /\ \/ SessionEmpty /\ logClosed' = TRUE /\ pc' = "snapshot"
       \/ pc' = "retained" /\ UNCHANGED logClosed
    /\ UNCHANGED <<session, handles, attempted, blocked, resource, ctx, todo, snap, budget,
                   history>>

SnapshotStorage ==
    /\ pc = "snapshot"
    /\ pc' \in {"close", "retained"}
    /\ UNCHANGED <<session, handles, attempted, blocked, resource, logClosed, ctx, todo, snap,
                   budget, history>>

\* An attempted close may have failed; its handle then stays in fds.
Close(m) ==
    /\ pc = "close" /\ m \in fds
    /\ closeAttempts' = closeAttempts \cup {m}
    /\ closes' = [closes EXCEPT ![m] = @ + 1]
    /\ \/ fds' = fds \ {m} /\ pc' = "close"
       \/ pc' = "retained" /\ UNCHANGED fds
    /\ UNCHANGED <<session, pin, armed, attempted, blocked, resource, logClosed, ctx, todo, snap,
                   budget, terms>>

CloseInterrupted ==
    /\ pc = "close"
    /\ pc' = "retained"
    /\ UNCHANGED <<session, handles, attempted, blocked, resource, logClosed, ctx, todo, snap,
                   budget, history>>

Reaped ==
    /\ pc = "close" /\ fds = {}
    /\ resource' = "REAPED" /\ pc' = "done"
    /\ UNCHANGED <<session, handles, attempted, blocked, logClosed, ctx, todo, snap, budget,
                   history>>

-----------------------------------------------------------------------------
(* PosixOwner.finalize_if_terminal, called by the retention loop *)

Observe ==
    /\ pc = "retained" /\ armed /\ attempted
    /\ calls < MaxCalls /\ ~expired
    /\ calls' = calls + 1 /\ ctx' = "retain"
    /\ pc' = IF blocked THEN "retained" ELSE "look"
    /\ UNCHANGED <<session, handles, attempted, blocked, resource, logClosed, todo, snap, late,
                   expired, history>>

-----------------------------------------------------------------------------
(* The session and the clock *)

Occupied == stranger \/ \E m \in Members : proc[m] \in {"live", "other"}

Exit(m) ==
    /\ proc[m] \in {"live", "other"}
    /\ proc' = [proc EXCEPT ![m] = IF @ = "live" THEN "zombie" ELSE "gone"]
    /\ UNCHANGED stranger

Reap(m) ==
    /\ proc[m] = "zombie"
    /\ proc' = [proc EXCEPT ![m] = "gone"]
    /\ UNCHANGED stranger

\* A process of the session forks; the child may get a PID that was freed.
Fork ==
    /\ Occupied
    /\ \/ ~stranger /\ stranger' = TRUE /\ UNCHANGED proc
       \/ /\ \E m \in Members : proc[m] = "gone" /\ proc' = [proc EXCEPT ![m] = "other"]
          /\ UNCHANGED stranger

StrangerExits == stranger /\ stranger' = FALSE /\ UNCHANGED proc

Session ==
    /\ (\E m \in Members : Exit(m) \/ Reap(m)) \/ Fork \/ StrangerExits
    /\ UNCHANGED <<handles, attempted, blocked, resource, logClosed, pc, ctx, todo, snap, budget,
                   history>>

Late ==
    /\ attempted /\ ~late
    /\ late' = TRUE
    /\ UNCHANGED <<session, handles, attempted, blocked, resource, logClosed, pc, ctx, todo,
                   snap, calls, expired, history>>

Expire ==
    /\ calls > 0 /\ ~expired
    /\ expired' = TRUE
    /\ UNCHANGED <<session, handles, attempted, blocked, resource, logClosed, pc, ctx, todo,
                   snap, late, calls, history>>

Owner ==
    \/ InitialInventory \/ BindCheck \/ BindFails \/ Terminate
    \/ \E m \in Members : BindOpen(m) \/ TermPass(m) \/ Close(m)
    \/ Validate \/ FirstCheck \/ TermPassEnds \/ ObserveLoop
    \/ Look \/ LookExit \/ ReleaseLog \/ SnapshotStorage \/ CloseInterrupted \/ Reaped
    \/ Observe

Next == Owner \/ Session \/ Late \/ Expire

Spec == Init /\ [][Next]_vars

\* The controller keeps running and the five seconds pass.
FairSpec == Spec /\ WF_vars(Owner) /\ WF_vars(Late)

-----------------------------------------------------------------------------
(* Properties *)

\* REAPED is published only when nothing of the session is left, the log is
\* closed and every handle was closed successfully.
ReapedIsProven ==
    resource = "REAPED" => SessionEmpty /\ logClosed /\ fds = {} /\ closeAttempts = Members

\* Every handle of an armed owner pins the process that was expected, although
\* it was opened by PID and PIDs are handed on.
HandlesPinOwn == armed => \A m \in Members : pin[m] = "own"

\* A member is sent TERM at most once, however often the owner observes.
TermSentOnce == \A m \in Members : terms[m] <= 1

\* A signal goes to a member of the last inventory, on an open handle of its
\* own process, with no doubt raised before.
SignalIsPinned ==
    [][\A m \in Members : terms'[m] # terms[m] =>
          m \in fds /\ pin[m] = "own" /\ m \in snap /\ attempted /\ ~blocked]_vars

\* A handle is closed at most once ("never replays uncertain closes").
ClosedOnce == \A m \in Members : closes[m] <= 1

\* After an observation that could not be trusted there is no signal, no close
\* and no REAPED.
DoubtIsFinal ==
    [][blocked => blocked' /\ terms' = terms /\ closes' = closes /\ resource' = resource]_vars

\* The owner comes to rest: terminate_once returns and the observations of a
\* retained owner run out.
Settles == <>[](pc \in {"retained", "done"})

-----------------------------------------------------------------------------
(* The inductive invariant *)

\* A handle opened on the wrong process is the latest one, not yet checked.
PinInv ==
    /\ \A m \in fds : pin[m] = "own" \/ (pin[m] = "other" /\ proc[m] # "live")
    /\ pc \in {"new", "bind"} => \A m \in fds : pin[m] = "own"
    /\ armed => \A m \in Members : pin[m] = "own"
    /\ armed => fds \cup closeAttempts = Members

\* The owner's place and what it has done so far.
PlaceInv ==
    /\ pc \in {"new", "bind", "bound"} => ~armed
    /\ pc \notin {"new", "bind", "bound", "retained"} => armed
    /\ pc \in {"new", "bind", "bound", "armed"} => ~attempted
    /\ pc \notin {"new", "bind", "bound", "armed", "retained"} => attempted
    /\ blocked => pc = "retained"
    /\ pc \in {"snapshot", "close", "done"} => SessionEmpty /\ logClosed
    /\ resource = "REAPED" <=> pc = "done"
    /\ pc = "done" => fds = {}

\* Signals are sent within the one pass, closes within the one release.
OnceInv ==
    /\ \A m \in Members : terms[m] <= 1
    /\ ~attempted => \A m \in Members : terms[m] = 0
    /\ pc \in {"val0", "check0", "val", "check"} => \A m \in todo : terms[m] = 0
    /\ \A m \in Members : closes[m] = (IF m \in closeAttempts THEN 1 ELSE 0)
    /\ pc \notin {"look", "close", "retained", "done"} => closeAttempts = {}
    /\ pc = "look" /\ ctx = "term" => closeAttempts = {}
    /\ pc = "close" => closeAttempts \cap fds = {}

\* The inductive invariant behind the theorems: what the owner's place says
\* about the session, the handles, the signals and the closes.
IInv == TypeOK /\ PinInv /\ PlaceInv /\ OnceInv

\* What the owner promises of its state: REAPED is proven, its handles stand for its
\* own processes, and nothing is signalled or closed twice.
OwnerSafe == TypeOK /\ ReapedIsProven /\ HandlesPinOwn /\ TermSentOnce /\ ClosedOnce

\* What no step of the owner does: signal what it does not hold and has not just
\* seen, or come back from a doubt.
OwnerSteps == SignalIsPinned /\ DoubtIsFinal
=============================================================================
