---------------------------- MODULE HostRegistry ----------------------------
(* The registry every virtmgr process keeps of its VMs (State and Service of  *)
(* host_internal_service.rs) and the leases that keep the processes of one    *)
(* user apart (desktop_lease.rs). A lease is a flock: it belongs to an open   *)
(* file, so it lasts until the process that took it has dropped it or died    *)
(* and every child that was forked meanwhile has got to its exec, where       *)
(* O_CLOEXEC closes it. GuestVm looks at the life of one VM in one of these   *)
(* processes; here are several processes, that crash and come back, and all   *)
(* their VMs.                                                                 *)
EXTENDS Integers, FiniteSets

CONSTANTS
    Process,    \* virtmgr processes of one user
    base,       \* VIRTMGR_GUEST_CID of each process
    CidMax,     \* i32::MAX
    Id          \* instance ids

ASSUME CidAssumption ==
    /\ CidMax \in Nat
    /\ base \in [Process -> 3..CidMax]

Cid == 3..CidMax
Key == Cid \cup Id

ASSUME IdAssumption == Id \cap Int = {}

VARIABLES
    contexts,   \* contexts: the CIDs the process has handed out
    registered, \* registered: weak references
    owned,      \* owned: strong references
    client,     \* VMs whose object a client holds
    claims,     \* claims
    child,      \* leases open in a forked child of the process, before its exec
    dropping    \* strong references taken out of owned and not dropped yet

vars == <<contexts, registered, owned, client, claims, child, dropping>>

TypeOK ==
    /\ contexts \in [Process -> SUBSET Cid]
    /\ registered \in [Process -> SUBSET Cid]
    /\ owned \in [Process -> SUBSET Cid]
    /\ client \in [Process -> SUBSET Cid]
    /\ dropping \in [Process -> SUBSET Cid]
    /\ claims \in [Process -> SUBSET Id]
    /\ child \in [Process -> SUBSET Key]

Nothing == [p \in Process |-> {}]

Init ==
    /\ contexts = Nothing /\ registered = Nothing /\ owned = Nothing
    /\ client = Nothing /\ claims = Nothing /\ child = Nothing /\ dropping = Nothing

-----------------------------------------------------------------------------
(* desktop_lease.rs                                                          *)

\* The leases whose file a process has open.
Open(p) == contexts[p] \cup claims[p] \cup child[p]

\* Mutant: the directory of leases is the process's own.
AcquirePrivate(p, key) == key \notin Open(p)

\* acquire: flock(LOCK_EX | LOCK_NB) succeeds if nobody has the file locked.
Acquire(p, key) == \A q \in Process : key \notin Open(q)

\* std::process::Command forks; the child has the parent's files until its exec.
\* One child at a time is in between.
Fork(p) ==
    /\ child[p] = {} /\ contexts[p] # {}
    /\ child' = [child EXCEPT ![p] = contexts[p] \cup claims[p]]
    /\ UNCHANGED <<contexts, registered, owned, client, claims, dropping>>

\* Mutant: the lease files are opened without O_CLOEXEC.
ExecKeepsFiles(p) ==
    /\ child[p] # {}
    /\ UNCHANGED <<contexts, registered, owned, client, claims, dropping, child>>

Exec(p) ==
    /\ child[p] # {}
    /\ child' = [child EXCEPT ![p] = {}]
    /\ UNCHANGED <<contexts, registered, owned, client, claims, dropping>>

-----------------------------------------------------------------------------
(* Service                                                                   *)

NextCid(p) == base[p] + Cardinality(contexts[p])

\* checked_add
InRange(cid) == cid <= CidMax

\* allocateVmContext; it changes nothing when the lease or the directory fails.
AllocateVmContext(p) ==
    LET cid == NextCid(p) IN
    /\ InRange(cid) /\ Acquire(p, cid)
    /\ contexts' = [contexts EXCEPT ![p] = @ \cup {cid}]
    /\ client' = [client EXCEPT ![p] = @ \cup {cid}]
    /\ UNCHANGED <<registered, owned, claims, child, dropping>>

\* registerVirtualMachine, weak: the client's reference is the only strong one.
RegisterVirtualMachine(p, cid) ==
    /\ cid \in contexts[p] \ registered[p] /\ cid \in client[p]
    /\ registered' = [registered EXCEPT ![p] = @ \cup {cid}]
    /\ UNCHANGED <<contexts, owned, client, claims, child, dropping>>

\* Whether the weak reference can be upgraded.
ObjectLives(p, cid) == cid \in client[p] \cup owned[p] \cup dropping[p]

RetainForStart(p, cid) ==
    /\ cid \notin owned[p] /\ cid \in registered[p] /\ ObjectLives(p, cid)
    /\ owned' = [owned EXCEPT ![p] = @ \cup {cid}]
    /\ UNCHANGED <<contexts, registered, client, claims, child, dropping>>

\* release_owned_registration takes both entries out with the State locked, and
\* drops the strong one after it has been unlocked.
ReleaseOwnedRegistration(p, cid) ==
    /\ cid \in registered[p]
    /\ registered' = [registered EXCEPT ![p] = @ \ {cid}]
    /\ dropping' = [dropping EXCEPT ![p] = @ \cup (owned[p] \cap {cid})]
    /\ owned' = [owned EXCEPT ![p] = @ \ {cid}]
    /\ UNCHANGED <<contexts, client, claims, child>>

Dropped(p, cid) ==
    /\ cid \in dropping[p]
    /\ dropping' = [dropping EXCEPT ![p] = @ \ {cid}]
    /\ UNCHANGED <<contexts, registered, owned, client, claims, child>>

\* The client lets its VM go.
ClientDrops(p, cid) ==
    /\ cid \in client[p]
    /\ client' = [client EXCEPT ![p] = @ \ {cid}]
    /\ UNCHANGED <<contexts, registered, owned, claims, child, dropping>>

ClaimVmInstance(p, id) ==
    /\ id \notin claims[p] /\ Acquire(p, id)
    /\ claims' = [claims EXCEPT ![p] = @ \cup {id}]
    /\ UNCHANGED <<contexts, registered, owned, client, child, dropping>>

RemoveVmInstance(p, id) ==
    /\ id \in claims[p]
    /\ claims' = [claims EXCEPT ![p] = @ \ {id}]
    /\ UNCHANGED <<contexts, registered, owned, client, child, dropping>>

\* The process ends, with all it holds but not its child; another one starts.
Crash(p) ==
    /\ contexts' = [contexts EXCEPT ![p] = {}]
    /\ registered' = [registered EXCEPT ![p] = {}]
    /\ owned' = [owned EXCEPT ![p] = {}]
    /\ client' = [client EXCEPT ![p] = {}]
    /\ dropping' = [dropping EXCEPT ![p] = {}]
    /\ claims' = [claims EXCEPT ![p] = {}]
    /\ UNCHANGED child

Step(p) ==
    \/ Fork(p) \/ Exec(p) \/ AllocateVmContext(p) \/ Crash(p)
    \/ \E cid \in Cid :
          \/ RegisterVirtualMachine(p, cid) \/ RetainForStart(p, cid)
          \/ ReleaseOwnedRegistration(p, cid) \/ Dropped(p, cid) \/ ClientDrops(p, cid)
    \/ \E id \in Id : ClaimVmInstance(p, id) \/ RemoveVmInstance(p, id)

Next == \E p \in Process : Step(p)

Spec == Init /\ [][Next]_vars

\* A forked child reaches its exec, and a reference that is being dropped is dropped.
Fairness ==
    /\ \A p \in Process : WF_vars(Exec(p))
    /\ \A p \in Process, cid \in Cid : WF_vars(Dropped(p, cid))
FairSpec == Spec /\ Fairness

-----------------------------------------------------------------------------
\* No CID and no instance id belongs to two virtmgr processes at a time, though
\* they crash, come back with the same base CID, and fork.
LeasesExclusive ==
    \A p, q \in Process : p # q =>
        /\ contexts[p] \cap contexts[q] = {}
        /\ claims[p] \cap claims[q] = {}

\* The number of contexts serves as the next CID: it names one that the process
\* has never handed out, since contexts are never taken out again.
Contiguous ==
    \A p \in Process : contexts[p] = base[p] .. base[p] + Cardinality(contexts[p]) - 1

\* A VM the service owns is registered, and one that is registered has a CID that
\* is leased: a start cannot outlive its registration.
OwnedIsRegistered ==
    \A p \in Process : owned[p] \subseteq registered[p] /\ registered[p] \subseteq contexts[p]

\* A claim that has been removed can be claimed again, once the children that were
\* being started have got to their exec.
RemovedIsFree ==
    \A id \in Id :
        (\A p \in Process : id \notin claims[p])
            ~> (\A p \in Process : Acquire(p, id)) \/ (\E p \in Process : id \in claims[p])

\* What the registries of several processes keep together: no two leases of one CID
\* or instance id, contexts without gaps, and a registration for whatever is owned.
RegistrySound == TypeOK /\ LeasesExclusive /\ Contiguous /\ OwnedIsRegistered
=============================================================================
