---------------------------- MODULE InstanceClaim ----------------------------
(***************************************************************************)
(* The on-disk ownership protocol of one named Microdroid instance.        *)
(*                                                                         *)
(* Every `microdroid.py create|start|resume` invocation is one controller: *)
(* a process that runs entry.main once and ends.  Controllers share the    *)
(* files of the instance (record.json, record.next, launch-plan.json,      *)
(* owner.claim, the instance root with its disks and its instance_id) and  *)
(* nothing else.  Any of them may be interrupted, hit an I/O error or be   *)
(* killed between two file operations; a killed controller leaves its VM   *)
(* running.                                                                *)
(*                                                                         *)
(* lifecycle.supervise is reduced here to what it does to those files: the *)
(* states it emits, in order, and where it may raise.  Module Supervisor   *)
(* models it in full.                                                      *)
(***************************************************************************)
EXTENDS Naturals

CONSTANTS
    Controllers,   \* the invocations of the entry point, each used once
    None           \* an absent file, an unbound value

VARIABLES
    dir,      \* prepared/<name> exists
    record,   \* contents of record.json, or None
    next,     \* contents of the temporary record.next, or None
    plan,     \* launch-plan.json exists
    claim,    \* owner.claim: the controller whose inode and token it is, or None
    root,     \* the instance root directory exists
    disk,     \* the instance disks: the attempt that last wrote them, or None
    id,       \* instance_id: the attempt whose VM service allocated it, or None
    vm,       \* vm[c]: the VM session launched by controller c
    pc,       \* pc[c]: the next step of controller c
    mode,     \* mode[c]: the subcommand c was invoked with
    mine,     \* mine[c]: the record c holds in memory
    writing   \* writing[c]: c has written record.next and not yet replaced

files == <<dir, record, next, plan, claim, root>>
vars == <<files, disk, id, vm, pc, mode, mine, writing>>

States == {"PREPARED", "STARTING", "RUNNING", "STOPPING", "STOPPED", "UNKNOWN"}
Attempts == Controllers \cup {None}

Records == [state : States, attempt : Attempts, snap : Attempts, id : Attempts,
            reaped : BOOLEAN, needsRecovery : BOOLEAN]

ASSUME NoneAssumption == None \notin Controllers /\ None \notin Records

\* What entry.create writes; an absent resource_state reads as REAPED and an
\* absent needsRecovery as FALSE in can_resume.
Prepared == [state |-> "PREPARED", attempt |-> None, snap |-> None, id |-> None,
             reaped |-> TRUE, needsRecovery |-> FALSE]

\* The steps at which a controller saves its record.
SavePoints == {"starting", "started", "running", "stopping", "stopped",
               "failing", "reporting", "final", "handler", "late"}

PCs == SavePoints \cup
       {"new", "mkdir", "mkrecord", "mkplan", "read", "preflight", "identity",
        "lookclaim", "port", "takeclaim", "token", "revalidate", "release",
        "prepare", "verify", "launch", "boot", "serve", "drain", "retain",
        "unlink", "exit", "dead"}

Init ==
    /\ dir = FALSE /\ plan = FALSE /\ root = FALSE
    /\ record = None /\ next = None /\ claim = None
    /\ disk = None /\ id = None
    /\ vm = [c \in Controllers |-> "none"]
    /\ pc = [c \in Controllers |-> "new"]
    /\ mode = [c \in Controllers |-> "none"]
    /\ mine = [c \in Controllers |-> Prepared]
    /\ writing = [c \in Controllers |-> FALSE]

Goto(c, l) == pc' = [pc EXCEPT ![c] = l]

\* Raising before the claim is taken ends the controller and changes no file.
Refuse(c) == Goto(c, "exit")

-----------------------------------------------------------------------------
(* entry.main and entry.create *)

Begin(c, m) ==
    /\ pc[c] = "new"
    /\ mode' = [mode EXCEPT ![c] = m]
    /\ Goto(c, IF m = "create" THEN "mkdir" ELSE "read")
    /\ UNCHANGED <<files, disk, id, vm, mine, writing>>

CreateDir(c) ==
    /\ pc[c] = "mkdir"
    /\ dir' = TRUE
    /\ Goto(c, IF dir THEN "exit" ELSE "mkrecord")
    /\ UNCHANGED <<record, next, plan, claim, root, disk, id, vm, mode, mine, writing>>

CreateRecord(c) ==
    /\ pc[c] = "mkrecord"
    /\ record' = IF record = None THEN Prepared ELSE record
    /\ Goto(c, IF record = None THEN "mkplan" ELSE "exit")
    /\ UNCHANGED <<dir, next, plan, claim, root, disk, id, vm, mode, mine, writing>>

CreatePlan(c) ==
    /\ pc[c] = "mkplan"
    /\ plan' = TRUE
    /\ Goto(c, "exit")
    /\ UNCHANGED <<dir, record, next, claim, root, disk, id, vm, mode, mine, writing>>

ReadRecord(c) ==
    /\ pc[c] = "read"
    /\ \/ /\ record # None /\ plan
          /\ mine' = [mine EXCEPT ![c] = record]
          /\ Goto(c, "preflight")
       \/ /\ ~(record # None /\ plan)
          /\ Refuse(c)
          /\ UNCHANGED mine
    /\ UNCHANGED <<files, disk, id, vm, mode, writing>>

-----------------------------------------------------------------------------
(* runtime.run up to the claim: observations only, each at its own time *)

Preflight(c) ==
    /\ pc[c] = "preflight"
    /\ IF /\ record = mine[c]
          /\ mine[c].state = IF mode[c] = "resume" THEN "STOPPED" ELSE "PREPARED"
       THEN Goto(c, "identity")
       ELSE Refuse(c)
    /\ UNCHANGED <<files, disk, id, vm, mode, mine, writing>>

\* A resume finds the bound instance_id unchanged, a start finds none.
CheckIdentity(c) ==
    /\ pc[c] = "identity"
    /\ IF IF mode[c] = "resume" THEN mine[c].id # None /\ id = mine[c].id
                                ELSE id = None
       THEN Goto(c, "lookclaim")
       ELSE Refuse(c)
    /\ UNCHANGED <<files, disk, id, vm, mode, mine, writing>>

LookClaim(c) ==
    /\ pc[c] = "lookclaim"
    /\ Goto(c, IF claim = None THEN "port" ELSE "exit")
    /\ UNCHANGED <<files, disk, id, vm, mode, mine, writing>>

\* await_port: the port becomes free, or 90 seconds pass.
AwaitPort(c) ==
    /\ pc[c] = "port"
    /\ \E l \in {"takeclaim", "exit"} : Goto(c, l)
    /\ UNCHANGED <<files, disk, id, vm, mode, mine, writing>>

-----------------------------------------------------------------------------
(* The claim *)

\* Mutant: the claim file is opened without O_EXCL.
TakeClaimNoExcl(c) ==
    /\ pc[c] = "takeclaim"
    /\ claim' = c
    /\ Goto(c, "token")
    /\ UNCHANGED <<dir, record, next, plan, root, disk, id, vm, mode, mine, writing>>

\* O_CREAT|O_EXCL.
TakeClaim(c) ==
    /\ pc[c] = "takeclaim"
    /\ claim' = IF claim = None THEN c ELSE claim
    /\ Goto(c, IF claim = None THEN "token" ELSE "exit")
    /\ UNCHANGED <<dir, record, next, plan, root, disk, id, vm, mode, mine, writing>>

\* A failed write or fsync of the token raises with the claim left in place.
WriteToken(c) ==
    /\ pc[c] = "token"
    /\ \E l \in {"revalidate", "exit"} : Goto(c, l)
    /\ UNCHANGED <<files, disk, id, vm, mode, mine, writing>>

\* Under the claim the record is compared again with the bytes read before the
\* wait; a changed profile or plan, or a busy port, fails here as well.
Revalidate(c) ==
    /\ pc[c] = "revalidate"
    /\ \/ record = mine[c] /\ Goto(c, "prepare")
       \/ Goto(c, "release")
    /\ UNCHANGED <<files, disk, id, vm, mode, mine, writing>>

\* release_prelaunch_claim: only the claim this controller created; unlink may
\* itself fail.
ReleaseClaim(c) ==
    /\ pc[c] = "release"
    /\ claim' \in {claim, IF claim = c THEN None ELSE claim}
    /\ Goto(c, "exit")
    /\ UNCHANGED <<dir, record, next, plan, root, disk, id, vm, mode, mine, writing>>

-----------------------------------------------------------------------------
(* runtime.run under the claim *)

NoHolder == \A d \in Controllers : vm[d] # "live"

\* PosixOwner.snapshot, for an owner bound to identity i.
CanSnapshot(i) == i # None /\ id = i /\ disk # None /\ NoHolder

CanResume(r, snapshot) ==
    /\ r.needsRecovery = FALSE
    /\ r.reaped
    /\ r.state = "STOPPED"
    /\ snapshot = r.snap

Prepare(c) ==
    /\ pc[c] = "prepare"
    /\ \/ /\ root = (mode[c] = "resume")
          /\ root' = TRUE
          /\ Goto(c, IF mode[c] = "resume" THEN "verify" ELSE "starting")
       \/ /\ root' \in {root, root \/ mode[c] = "start"}
          /\ Goto(c, "handler")
    /\ UNCHANGED <<dir, record, next, plan, claim, disk, id, vm, mode, mine, writing>>

VerifyResume(c) ==
    /\ pc[c] = "verify"
    /\ \/ CanSnapshot(mine[c].id) /\ CanResume(mine[c], disk) /\ Goto(c, "starting")
       \/ Goto(c, "handler")
    /\ UNCHANGED <<files, disk, id, vm, mode, mine, writing>>

\* The record as it is about to be saved at each save point.
Pending(c) ==
    LET r == mine[c]
        emitted(s) == [r EXCEPT !.state = s, !.reaped = FALSE, !.needsRecovery = FALSE,
                                !.snap = None]
        unknown == [r EXCEPT !.state = "UNKNOWN", !.reaped = FALSE, !.needsRecovery = TRUE]
    IN  CASE pc[c] = "starting" -> [r EXCEPT !.state = "STARTING", !.attempt = c]
          [] pc[c] = "started"  -> emitted("STARTING")
          [] pc[c] = "running"  -> emitted("RUNNING")
          [] pc[c] = "stopping" -> emitted("STOPPING")
          [] pc[c] = "stopped"  -> [emitted("STOPPED") EXCEPT !.reaped = TRUE, !.snap = disk]
          [] pc[c] \in {"handler", "late"} -> unknown
          [] OTHER -> [unknown EXCEPT !.snap = IF r.state \in {"STOPPED", "UNKNOWN"}
                                               THEN r.snap ELSE None]

\* Where the controller goes after a save, and where a raising save takes it:
\* run's own saves raise to its handler, supervise's notes to its failure path,
\* and the notes of that path are swallowed.
OnSave == [starting |-> "launch", started |-> "boot", running |-> "serve",
           stopping |-> "drain", stopped |-> "unlink", failing |-> "reporting",
           reporting |-> "retain", final |-> "exit", handler |-> "exit", late |-> "exit"]
OnError == [starting |-> "handler", started |-> "failing", running |-> "failing",
            stopping |-> "failing", stopped |-> "failing", failing |-> "reporting",
            reporting |-> "retain", final |-> "handler", handler |-> "exit", late |-> "exit"]

\* Mutant: the claim is unlinked whenever the last record has been saved.
AfterSaveUnlink(l) == [OnSave EXCEPT !.final = "unlink"][l]
\* Mutant: a failed attempt is stopped once more instead of being retained.
AfterSaveStopAgain(l) == [OnSave EXCEPT !.failing = "stopping"][l]
AfterSave(l) == OnSave[l]

\* Mutant: a save that raises releases the claim as a prelaunch failure does.
AfterErrorRelease(l) == [OnError EXCEPT !.final = "release"][l]
AfterError(l) == OnError[l]

\* save: open record.next exclusively, write, flush, fsync.
WriteNext(c) ==
    /\ pc[c] \in SavePoints /\ ~writing[c]
    /\ next = None
    /\ next' = Pending(c)
    /\ mine' = [mine EXCEPT ![c] = Pending(c)]
    /\ writing' = [writing EXCEPT ![c] = TRUE]
    /\ UNCHANGED <<dir, record, plan, claim, root, disk, id, vm, pc, mode>>

\* os.replace; an emit then prints, which may raise after the replacement.
ReplaceRecord(c) ==
    /\ writing[c]
    /\ record' = next
    /\ next' = None
    /\ writing' = [writing EXCEPT ![c] = FALSE]
    /\ \E l \in {AfterSave(pc[c]), AfterError(pc[c])} : Goto(c, l)
    /\ UNCHANGED <<dir, plan, claim, root, disk, id, vm, mode, mine>>

\* A save that raises before the replacement: record.next exists already, or
\* writing it fails and may leave it behind.
SaveFails(c) ==
    /\ pc[c] \in SavePoints
    /\ mine' = [mine EXCEPT ![c] = IF writing[c] THEN mine[c] ELSE Pending(c)]
    /\ next' \in {next, IF next = None THEN Pending(c) ELSE next}
    /\ writing' = [writing EXCEPT ![c] = FALSE]
    /\ Goto(c, AfterError(pc[c]))
    /\ UNCHANGED <<dir, record, plan, claim, root, disk, id, vm, mode>>

-----------------------------------------------------------------------------
(* lifecycle.supervise, reduced to what it does to the instance *)

Launch(c) ==
    /\ pc[c] = "launch"
    /\ \/ vm' = [vm EXCEPT ![c] = "live"] /\ \E l \in {"started", "failing"} : Goto(c, l)
       \/ UNCHANGED vm /\ Goto(c, "failing")
    /\ UNCHANGED <<files, disk, id, mode, mine, writing>>

\* owner.ready binds the allocated identity, which a resume must find again.
Boot(c) ==
    /\ pc[c] = "boot"
    /\ \/ /\ vm[c] = "live" /\ disk = c /\ id # None
          /\ mode[c] = "resume" => id = mine[c].id
          /\ mine' = [mine EXCEPT ![c].id = id]
          /\ \E l \in {"running", "failing"} : Goto(c, l)
       \/ Goto(c, "failing") /\ UNCHANGED mine
    /\ UNCHANGED <<files, disk, id, vm, mode, writing>>

Serve(c) ==
    /\ pc[c] = "serve"
    /\ \E l \in {"running", "stopping", "failing"} : Goto(c, l)
    /\ UNCHANGED <<files, disk, id, vm, mode, mine, writing>>

\* STOP was answered, the session has ended and the disks have no holder.
Drain(c) ==
    /\ pc[c] = "drain"
    /\ \/ vm[c] = "gone" /\ CanSnapshot(mine[c].id) /\ Goto(c, "stopped")
       \/ Goto(c, "failing")
    /\ UNCHANGED <<files, disk, id, vm, mode, mine, writing>>

-----------------------------------------------------------------------------
(* runtime.run after supervise *)

\* The owner is released at once when it was already terminal, and otherwise
\* once its session has ended; an interrupt in the loop's own error handling
\* escapes to run's handler.
Retain(c) ==
    /\ pc[c] = "retain"
    /\ \/ vm[c] = "gone" /\ \E l \in {"exit", "final"} : Goto(c, l)
       \/ Goto(c, "handler")
    /\ UNCHANGED <<files, disk, id, vm, mode, mine, writing>>

\* The unlink fails, or is interrupted, inside the try: run's handler records
\* UNKNOWN.  An interrupt between the unlink and the return comes to the same
\* handler after the claim is gone ("late").
UnlinkClaim(c) ==
    /\ pc[c] = "unlink"
    /\ \/ claim' = None /\ \E l \in {"exit", "late"} : Goto(c, l)
       \/ UNCHANGED claim /\ Goto(c, "handler")
    /\ UNCHANGED <<dir, record, next, plan, root, disk, id, vm, mode, mine, writing>>

-----------------------------------------------------------------------------
(* The rest of the world *)

\* The controller process is killed, or the host goes down under it.
Crash(c) ==
    /\ pc[c] \notin {"new", "exit", "dead"}
    /\ Goto(c, "dead")
    /\ writing' = [writing EXCEPT ![c] = FALSE]
    /\ UNCHANGED <<files, disk, id, vm, mode, mine>>

\* A live VM writes its disks; the VM service allocates a missing instance_id.
GuestWrites(c) ==
    /\ vm[c] = "live"
    /\ disk' = c
    /\ id' = IF id = None THEN c ELSE id
    /\ UNCHANGED <<files, vm, pc, mode, mine, writing>>

SessionEnds(c) ==
    /\ vm[c] = "live"
    /\ vm' = [vm EXCEPT ![c] = "gone"]
    /\ UNCHANGED <<files, disk, id, pc, mode, mine, writing>>

Step(c) ==
    \/ \E m \in {"create", "start", "resume"} : Begin(c, m)
    \/ CreateDir(c) \/ CreateRecord(c) \/ CreatePlan(c)
    \/ ReadRecord(c) \/ Preflight(c) \/ CheckIdentity(c) \/ LookClaim(c) \/ AwaitPort(c)
    \/ TakeClaim(c) \/ WriteToken(c) \/ Revalidate(c) \/ ReleaseClaim(c)
    \/ Prepare(c) \/ VerifyResume(c)
    \/ WriteNext(c) \/ ReplaceRecord(c) \/ SaveFails(c)
    \/ Launch(c) \/ Boot(c) \/ Serve(c) \/ Drain(c)
    \/ Retain(c) \/ UnlinkClaim(c)

Next == \E c \in Controllers :
            Step(c) \/ Crash(c) \/ GuestWrites(c) \/ SessionEnds(c)

Spec == Init /\ [][Next]_vars

-----------------------------------------------------------------------------
(* Properties *)

\* Every variable keeps its type: the files, the sessions and the controllers'
\* own state of entry.main and runtime.run.
TypeOK ==
    /\ dir \in BOOLEAN /\ plan \in BOOLEAN /\ root \in BOOLEAN
    /\ record \in Records \cup {None}
    /\ next \in Records \cup {None}
    /\ claim \in Attempts /\ disk \in Attempts /\ id \in Attempts
    /\ vm \in [Controllers -> {"none", "live", "gone"}]
    /\ pc \in [Controllers -> PCs]
    /\ mode \in [Controllers -> {"none", "create", "start", "resume"}]
    /\ mine \in [Controllers -> Records]
    /\ writing \in [Controllers -> BOOLEAN]

\* The failure steps of an attempt under its claim.
Failed == {"failing", "reporting", "retain", "final", "handler"}

\* Attempt a ended with STOPPED, gave its claim back and has left.
GaveBack(a) ==
    /\ a \in Controllers /\ a # claim
    /\ vm[a] = "gone" /\ mine[a].attempt = a /\ pc[a] \in {"exit", "dead"}

\* Two VM sessions never run on the same instance, whatever controllers are
\* started side by side, killed or interrupted: the guarantee owner.claim and
\* its O_EXCL creation exist for.
OneLiveSession ==
    \A c, d \in Controllers : vm[c] = "live" /\ vm[d] = "live" => c = d

\* An instance without a claim has no VM running and says what it is: never
\* launched; recorded STOPPED and REAPED, the recorded snapshot being the disks
\* as they are and the recorded identity the allocated one; or UNKNOWN, which a
\* start or resume refuses.  The last is the record of a controller interrupted
\* after it had unlinked its claim; every other attempt that did not get as far
\* as STOPPED keeps its claim ("Claim is intentionally retained on failure,
\* including controller death").
UnclaimedIsProven ==
    claim = None =>
        /\ NoHolder
        /\ \/ disk = None /\ id = None /\ (record # None => record.state = "PREPARED")
           \/ /\ record # None /\ record.state = "STOPPED" /\ record.reaped
              /\ record.snap = disk /\ record.id = id
           \/ record # None /\ record.state = "UNKNOWN" /\ GaveBack(record.attempt)

\* A resumed VM is launched on the very disks and identity the last healthy
\* stop recorded, a first VM on none, although the record was read long before
\* the claim was taken.
LaunchOnRecordedDisks ==
    \A c \in Controllers : pc[c] = "launch" =>
        IF mode[c] = "resume" THEN disk = mine[c].snap /\ id = mine[c].id /\ disk # None
                              ELSE disk = None /\ id = None

\* UNKNOWN on disk is final for the attempt that wrote it and for every later
\* start or resume.  It is replaced in one case only: its author had already
\* given the claim back and wrote it late, over an attempt that was past its
\* revalidation; the saves of that attempt, the holder of the claim, go on.
UnknownIsFinal ==
    [][record # None /\ record.state = "UNKNOWN"
          => /\ record' # None
             /\ \/ record'.state = "UNKNOWN"
                \/ /\ GaveBack(record.attempt) /\ claim # None
                   /\ record'.attempt = claim /\ pc[claim] \notin Failed]_record

\* The claim goes away in two ways only, both by its creator: before anything
\* was launched, or after that controller's STOPPED record replaced
\* record.json, where only the late UNKNOWN of an earlier attempt may lie over
\* it.
ClaimRemovedByOwner ==
    [][claim # None /\ claim' # claim =>
          /\ claim' = None
          /\ \/ vm[claim] = "none" /\ pc[claim] = "release"
             \/ /\ vm[claim] = "gone" /\ record # None
                /\ \/ record = mine[claim] /\ record.state = "STOPPED" /\ record.attempt = claim
                   \/ record.state = "UNKNOWN" /\ GaveBack(record.attempt)]_claim

\* Every attempt on the instance is one life in the sense of Lifetime, which
\* Supervisor implements: the steps that stand for supervise here publish no
\* order of states that supervise does not have.  An attempt begins with the
\* save of its STARTING record; one whose controller died is never released.
Begun(c) == mine[c].attempt = c
LifeState(c) == IF Begun(c) THEN mine[c].state ELSE "STARTING"
LifeSession(c) == IF vm[c] = "gone" THEN "ended" ELSE vm[c]
Life(c) == INSTANCE Lifetime WITH state <- LifeState(c), session <- LifeSession(c),
                                  released <- (pc[c] = "exit" /\ Begun(c))
LivesStep == \A c \in Controllers : [Life(c)!Next]_(Life(c)!vars)
AttemptsAreLives == (\A c \in Controllers : Life(c)!Init) /\ [][LivesStep]_vars

-----------------------------------------------------------------------------
(* The inductive invariant behind them *)

\* The steps without the claim, those under it before anything of the instance
\* is launched, and the steps of a healthy attempt.
Waiting == {"new", "mkdir", "mkrecord", "mkplan", "read", "preflight", "identity",
            "lookclaim", "port", "takeclaim"}
Early == {"token", "revalidate", "release", "prepare", "verify", "starting"}
Active == {"launch", "started", "boot", "running", "serve", "stopping", "drain", "stopped"}
Owning == Early \cup Active \cup Failed \cup {"unlink"}

ClaimInv ==
    \A c \in Controllers :
        /\ pc[c] \in Owning => claim = c
        /\ vm[c] = "live" => claim = c
        /\ pc[c] \in Waiting \cup Early \cup {"launch"} => vm[c] = "none"
        /\ pc[c] \in {"stopped", "unlink", "late"} => vm[c] = "gone"
        /\ pc[c] = "late" => claim # c /\ mine[c].attempt = c

\* A record that is true of the disks and the identity, before a launch and after a stop.
Fresh(r) == disk = None /\ id = None /\ (r # None => r.state = "PREPARED")
Stopped(r) ==
    /\ r # None /\ r.state = "STOPPED" /\ r.reaped
    /\ r.snap = disk /\ r.id = id

\* UNKNOWN, written late.
Late == record # None /\ record.state = "UNKNOWN" /\ GaveBack(record.attempt)

ProvenInv ==
    /\ claim = None => Fresh(record) \/ Stopped(record) \/ Late
    /\ \A c \in Controllers :
        /\ pc[c] \in Early => Fresh(record) \/ Stopped(record) \/ Late
        /\ pc[c] \in {"prepare", "verify"} => Fresh(mine[c]) \/ Stopped(mine[c])
        /\ pc[c] = "unlink" =>
              /\ Stopped(mine[c]) /\ mine[c].attempt = c
              /\ record = mine[c] \/ Late
        /\ pc[c] = "stopped" => id = mine[c].id

RecordInv ==
    /\ \A c \in Controllers :
        /\ pc[c] \in Active =>
              Late \/ (record # None /\ record.state \in {"STARTING", "RUNNING", "STOPPING"})
        /\ vm[c] = "live" => record # None /\ record.state \notin {"PREPARED", "STOPPED"}
        /\ pc[c] \in Active => mine[c].attempt = c
    /\ record # None /\ record.state = "UNKNOWN" =>
          Late \/ (claim # None /\ pc[claim] \in Failed \cup {"exit", "dead"})

SavedState(l) ==
    CASE l \in {"starting", "started"} -> "STARTING"
      [] l = "running" -> "RUNNING"
      [] l = "stopping" -> "STOPPING"
      [] l = "stopped" -> "STOPPED"
      [] OTHER -> "UNKNOWN"

WriteInv ==
    \A c \in Controllers : writing[c] =>
        /\ pc[c] \in SavePoints
        /\ \A d \in Controllers : writing[d] => d = c
        /\ next = mine[c] /\ mine[c].state = SavedState(pc[c])
        /\ pc[c] = "starting" => mine[c].attempt = c
        /\ pc[c] = "stopped" => mine[c].reaped /\ mine[c].snap = disk

EligibleInv ==
    \A c \in Controllers :
        /\ pc[c] \in {"identity", "lookclaim", "port", "takeclaim", "token",
                      "revalidate", "prepare", "verify"} =>
              mine[c].state = IF mode[c] = "resume" THEN "STOPPED" ELSE "PREPARED"
        /\ pc[c] \in {"starting", "launch"} =>
              IF mode[c] = "resume" THEN disk = mine[c].snap /\ id = mine[c].id /\ disk # None
                                    ELSE disk = None /\ id = None

\* The inductive strengthening: who holds the claim, what the record says at
\* each step of its holder, and that the disks stay as recorded until a launch.
IInv == TypeOK /\ ClaimInv /\ ProvenInv /\ RecordInv /\ WriteInv /\ EligibleInv

=============================================================================
