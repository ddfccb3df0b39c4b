# Verification of the BSCP Microdroid stack

TLA+ specifications, TLC models and TLAPS proofs for the parts of the repository
that start, own, supervise and stop Microdroid virtual machines, and for the
concurrent parts of crosvm under them: the foreground controllers
(`src/releases/aosp17/controllers/*/microdroid_lifecycle`), the desktop `virtmgr`,
and from the Windows crosvm the asynchronous lock, the vsock device, the virtqueue
and the two interrupt paths.

The controllers promise very little on purpose: a result is either *proven* or
`UNKNOWN`, and whatever is `UNKNOWN` stays owned, claimed and untouched. The
specifications state what "proven" means, and what the layers below owe to it, and
check that no interleaving of controllers, threads, processes, crashes, interrupts,
lost replies and failing system calls gets around it.

Paths: controller files are relative to
`src/releases/aosp17/controllers/linux/microdroid_lifecycle/` (the macOS and Windows
directories hold their own copies of the shared files); `virtmgr` files are in
`src/releases/aosp17/source/linux-host/sources/home/mark/bscp/out/aosp17-linux-host-v1228/formal-v1293/sources/aosp17-endpoint-retirement-v1253/virtmgr/src/`;
crosvm files are in `src/releases/aosp17/source/windows-crosvm/sources/crosvm/`.
`PROJECT.json` maps every definition to its lines.

## 1. The system

| Part | State | Operations | Modelled by |
|---|---|---|---|
| Entry point, `entry.py` | `record.json`, `launch-plan.json` of an instance | `create`, `start`, `resume`, `status`, `check`; `stop` is refused | `InstanceClaim` |
| Foreground run, `runtime.py` | `owner.claim`, `record.next`, instance root, attempt directory | preflight, port wait, claim, revalidation, save, retention, release of the claim | `InstanceClaim`, `Supervisor` |
| Supervisor, `lifecycle.py` | published state, task result, request in progress, input queue | start, ready, requests, stop, healthy end, failure path; reader thread | `Supervisor`, `Lifetime`, `CommandInput`; reduced in `InstanceClaim` |
| Linux owner, `native.py` | owned processes, `sent_stop`, `transport_unknown`, pidfds, log, `owner_terminal` | `start`, `observe`, `request`, `stop`, `guest_exit`, `cleanup_services`, `finalize_if_terminal`, `snapshot` | `Supervisor` |
| Fault-injection owner, `bound_owner.py`, `linux_pidfd.py` | handles, TERM and close attempts, receipt | `bind`, `validate`, `terminate_once`, `observe_once` | `BoundOwner` |
| macOS owner, `audit_owner.py`, `endpoint_evidence.py`, `mac_owner.py` | audit tokens, endpoint generations | ordered termination, endpoint retirement | `GuestEndpoint` (partly) |
| Windows owner, `vendor/owned_job.py` and `native.py` of the Windows directory | Job object, suspended root, member handles | spawn, abort, observe, terminate Job, close | `OwnedJob` |
| Pipe log, `pipe_log.py` | reader thread, byte bound, receipt | read, `sent`, `finish` | `PipeLog` |
| Compute protocol, `compute_protocol.py` | none | `parse`, `validate_response` (32-bit sums) | `VectorAdd` |
| virtmgr instance, `crosvm.rs`, `virtualmachine.rs` | `VmState`, payload state, callbacks, locks | `start`, `kill`, `monitor_vm_exit`, hangup monitor, guest notifications | `GuestVm`, `VmPromise` |
| virtmgr on macOS, the same files and `guest_rpc_macos.rs` | bound child, exit event, endpoint, lifecycle trace | `start`, `kill`, exit observation, retirement | `MacGuestStop`, `GuestEndpoint` |
| virtmgr registry, `host_internal_service.rs`, `desktop_lease.rs` | contexts, claims, registered and owned VMs, file locks | allocate, claim, register, retain, remove | `HostRegistry` |
| Asynchronous lock, `cros_async/src/sync` | one word, list of waiters | lock, read lock, unlock, cancel, wait, notify | `AsyncRwLock`, `AsyncCondvar` |
| vsock device, `devices/src/virtio/vsock/sys/windows` | connections, credit, leases, queue of listeners, frame decoder | data both ways, credit, sleep and wake, host connections | `VsockFlow`, `HostPorts`, `BinderFrames` |
| Split virtqueue, `devices/src/virtio/queue*` | ring indices, event indices | pop, add used, interrupt, kick, reclaim | `SplitQueue` |
| MSI-X, `devices/src/pci/msix.rs` | mask bits, pending bits, irqs, routes | capability and table writes, trigger, restore | `Msix` |
| Interrupt line, `virtio/interrupt.rs`, `irqchip`, `irq_wait.rs` | status, deferred signals, pin, delayed events | signal, suspend, resample, service, end of interrupt, snapshot | `IrqLine` |
| Instance identity, `instance_identity.py` | `instance_id` file | `read_identity` | an opaque value in `InstanceClaim` |
| Launch wrappers, image and disk tools, `src/scripts`, build files, verifiers, simulators, the release 14 controllers | files | packaging, one-shot checks | not modelled |
| The rest of crosvm, binder, minijail, libutils | | upstream code | not modelled |

How they interact. One invocation of the entry point is one controller process.
Controllers of the same instance meet only in the file system: they read
`record.json`, race for `owner.claim` (created with `O_EXCL`), and the winner
saves a new record before and after everything it does. The winner's `run` calls
`supervise`, which drives one owner object: the launcher is started in a session
of its own, the launcher starts `virtmgr`, `virtmgr` starts `crosvm`, and the
payload answers one request at a time on a forwarded port. Standard input is read
by a thread into a bounded queue. When `supervise` ends in `UNKNOWN` with an
owner that is not terminal, `run` stays in a retention loop.

Below the controller, one `virtmgr` process serves binder calls on many threads. It
takes CIDs and instance ids under file locks that the `virtmgr` processes of a user
share (`HostRegistry`), and each of its VMs is started, watched, killed and reported
by its own threads (`GuestVm`, `MacGuestStop`). On macOS the controller learns from
`virtmgr`'s trace that the guest's socket has been retired (`GuestEndpoint`). Inside
the Windows crosvm a connection from a host service to the guest goes through
`HostPorts`, carries `VsockFlow`'s bytes (framed by `BinderFrames` on Binder pipes),
takes its descriptors from a `SplitQueue`, and interrupts the guest through `Msix` or
`IrqLine`; the futures of the device meet at an `AsyncRwLock`.

What makes it hard:

- two controllers can pass the whole preflight with the same record, one of them
  minutes before it gets the claim;
- a controller can die between any two file operations, and its VM lives on;
- every `save` writes `record.next` first, and a leftover blocks later saves;
- a reply may be lost after the request took effect, and a STOP is such a request;
- processes are found by PID and PIDs are handed on;
- a signal or a close can fail with its effect unknown;
- what an inventory saw is used after it;
- an interrupt may arrive in any step, including the handlers of an interrupt;
- threads of virtmgr hold one lock while they wait for another, for a thread, or for
  the guest;
- futures are dropped in the middle of a protocol on shared words;
- counters of 16 and 32 bits wrap while they are compared;
- both sides of a queue sleep on the other's promise to notify;
- devices are suspended, put to sleep, snapshotted and restored with work under way.

What correctness means here: at most one VM session per instance; an instance
without a claim runs nothing, and its record is true or `UNKNOWN`; `STOPPED` and `REAPED` are published
only with the complete evidence; nothing with an uncertain outcome is done twice;
`UNKNOWN` is final; and the controller returns, or keeps exactly what it must. For
the layers below: a stop that succeeds has seen the guest exit, nothing alive is
without an owner, a resource has one user, and no byte, wake-up, notification or
interrupt is lost. The code does not keep the last in every order of events; where it
does not, the property names the order, and section 5 lists them all.

## 2. Modules

**`InstanceClaim`** — the file protocol. A state is the contents of the files
(`dir`, `record`, `next`, `plan`, `claim`, `root`, `disk`, `id`) plus, for every
controller, its next step `pc[c]`, its subcommand, the record it holds in memory
and whether it is inside `save`, plus the VM session it launched. Each file
operation of `entry.create` and `runtime.run` is an action; `save` is two
(`WriteNext`, `ReplaceRecord`) with a failure in between (`SaveFails`). Disks and
`instance_id` are abstracted to the attempt that last wrote or allocated them,
which is what `snapshot` comparisons tell apart. `supervise` is reduced to the
sequence of states it emits and the places where it raises (tables `OnSave`,
`OnError`). `Crash` kills a controller at any step. An interrupt between the unlink of
the claim and the end of `run` still reaches the handler (`late`), which writes `UNKNOWN`
without the claim, into whatever the next controller has made of the record by then.

**`Supervisor`** — one attempt in detail: `lifecycle.supervise`, the methods of
`NativeOwner` and `PosixOwner` it calls, and the retention loop of `run`. One
action per step of the code between two observations of the outside; processes,
payload, clock, operator and interrupts run concurrently. `ctx` says whether a
method was called by the healthy path, by `failure_cleanup` or by the retention
loop, which decides where its exceptions go (`Raised`). History variables count
messages and answers. `cleanup_services` is taken apart into its look at the service, the
opening of the pidfd, the second look and the signal (`CleanupBegin`, `Open`,
`CleanupTerm`, `CleanupSignal`), with PIDs handed on in between: `fd` says whether the
handle pins the service or a stranger. The fault-injection profile is left to
`BoundOwner`.

**`Lifetime`** — what an attempt promises, platform-neutral: three variables and
five actions. `Supervisor` implements it (`ImplementsLifetime`), with the session
of processes mapped to `none`, `live` or `ended`, and so does every attempt inside
`InstanceClaim` (`AttemptsAreLives`): the reduction of `supervise` there allows
only lives that `Lifetime` allows.

**`BoundOwner`** — the owner of a fault-injection run: arming on pidfds, one
validated pass of TERM, one release of log, storage and handles, and the bounded
observations of the retention loop. Members exit, become zombies, are reaped, fork
strangers and hand on their PIDs between any two steps.

**`CommandInput`** — the reader thread of `stdin_commands`, its bounded queue and
the three loops that take commands from it. A line is what was meant by it and its
length; `readline(Chunk)` returns it in pieces.

**`VectorAdd`** — `parse` and `validate_response` as functions on a command and an
answer, both chosen freely, against an adder written bit by bit.

**`PipeLog`** — writers, reader thread and controller; the receipt is read field by
field while the reader works.

**`OwnedJob`** — the Windows owner. One action per Win32 call or group of calls that
fail together; processes start, exit and die in between. Calls that fail with the same
consequence share a branch (`failed`, or the owner is retained).

**`GuestVm`** — one VM inside virtmgr on Linux. `pc` gives every thread its place in
`start`, `kill`, the monitors or a notification; `vm_state` and `vm_metric` are the
two mutexes held across blocking calls. That the service shuts down is environment
(`down`). **`VmPromise`** is what a client may rely on,
in four variables; while the kernel refuses no SIGKILL (`obeyed`, chosen at the start)
`GuestVm` implements it (`ObeyedKeepsPromise`).

**`MacGuestStop`** — the macOS counterpart, which makes one request and then only
observes. **`GuestEndpoint`** — the guest's RPC socket, the trace about it and the
controller that reads both while they change.

**`HostRegistry`** — several virtmgr processes with their contexts, claims and owned
VMs. A lease is a `flock` that forked children share until their `exec`.

**`AsyncRwLock`** — `RawRwLock`: a word of bits and a reader count, every atomic
operation a step. Futures are dropped at any step. **`AsyncCondvar`** — the condition
variable, used by a queue of items; it takes the lock for what `AsyncRwLock` shows. A
wait has two awaits, for the notification and for the lock, and is dropped at either;
`lost` counts the notifications that go with the second.

**`VsockFlow`** — one open connection: both directions of data, credit and its
counters, wrapping where the code's types do, the channel of the port, which drops what
it has no room for, the rx queue, the end of the pipe, sleep and wake.
**`HostPorts`** — connections that the host opens, from the reserved port to its
release. **`BinderFrames`** — the decoder on a stream cut anywhere.

**`SplitQueue`** — device and driver on one virtqueue, with a store buffer on the
device's side that its fences empty. **`Msix`** — the MSI-X configuration of a
device, written and triggered in any order, with irqs and routes refused; `early`,
`blind` and `stale` record the orders in which the code does not deliver. **`IrqLine`** —
a level-triggered interrupt from the device's threads through the resample thread, the
irq threads and the ioapic to the guest and back, with snapshots at any time; `missed`
records why a service of the pin came to no interrupt, `dropped` the signals that a
snapshot left out.

**`ControllerParts`** (`BoundOwner`, `OwnedJob`), **`HostParts`** (`HostRegistry`,
`MacGuestStop`, `GuestEndpoint`) and **`Interrupts`** (`IrqLine`, `Msix`) put components
side by side with every fault switched on, under the names of their properties;
**`LogThread`** and **`InputThread`** do so for `PipeLog` and `CommandInput` alone. The
proofs and the models for TLC extend the same five modules, so both speak of the same
instances.

**`InstanceClaimProofs`, `SupervisorProofs`, `ControllerPartsProofs`, `GuestVmProofs`,
`HostPartsProofs`, `HostPortsProofs`, `ThreadsProofs`, `InterruptsProofs`** — the
theorems. `InstanceClaimProofs` also holds those of `CommandInput`, and `ThreadsProofs`
those of `PipeLog` and `AsyncRwLock`.

**`MC...`** modules are for TLC. `MCInstanceClaim`, `MCSupervisor` and `MCGuestVm` add
symmetry or bounds to one module; `MCVirtqueue` gives `SplitQueue` its two modes. The
others run parts that share no state: `MCControllerParts` (`ControllerParts`,
`LogThread`, `InputThread`, `VectorAdd`), `MCHostService` (`HostParts`, and `GuestVm` for its
progress), `MCInterrupts` (`Interrupts`), `MCCrosAsync` (`AsyncRwLock`, `AsyncCondvar`),
`MCVsock` (`HostPorts`, `VsockFlow`, `BinderFrames`). There
the variable `part` is chosen at the start and says which part runs, and with which
setting (with failing calls or without, asleep or awake); the others rest in their
initial state. A safety property of a part is checked as an invariant of the whole, a
liveness property only in the behaviours of its part, under that part's fairness.

Operators whose comment starts with "Mutant:" are deliberately wrong variants of
the definition below them. They are used by no specification; replacing the
definition by the variant must make the property named in `PROJECT.json` fail.

## 3. Runs

| Run | Instance | Shows |
|---|---|---|
| `claim_protocol` | 4 controllers, symmetric, crashes at any step | exclusive sessions, truth of unclaimed instances, launches on the recorded disks, finality of UNKNOWN, who removes a claim, all with handlers that run late; every attempt is one life of `Lifetime` |
| `supervise` | request ids up to 2 | evidence behind STOPPED and a terminal owner, no repeated STOP, no message after an unanswered one, no result without an answer, the signal reaches the idle service itself, `Lifetime` |
| `supervise_live` | request ids up to 1 | `supervise` returns; a retained controller is released once its session has ended, if no outcome is in doubt and no stranger is pinned |
| `failed_launch`, `retention_interrupt` | request ids up to 1 | *violated*: findings 1 and 2 |
| `controller_parts` | see below | the parts of a controller beside `supervise` keep their promises under failing calls, and settle without them |
| `host_service` | see below | virtmgr's registry, the macOS stop and the RPC endpoint; all of them and the Linux VM settle, but for one cycle of waits |
| `guest_vm` | 2 binder threads, 2 guest sessions, all notifications, SIGKILL refused or not | nothing outlives the death that was told, no self-join, a live guest is owned; if SIGKILL is obeyed, a stop has seen the exit and `GuestVm` implements `VmPromise` |
| `cros_async` | 4 tasks, symmetric; 3 users and 1 maker | exclusion; nobody stranded but behind one kind of dropped task; no notification lost but with its receiver |
| `vsock` | see below | ports, credit, bytes and frames; and that they go on |
| `virtqueue` | queue of 2, indices modulo 4 | no chain lost or doubled, no needed kick or interrupt suppressed, every chain comes back |
| `interrupts` | 2 status bits, a device thread and the vcpu; 2 vectors, 3 messages | a standing status has an interrupt on its way, signals are kept and arrive, an interrupt in service ends; no MSI-X interrupt forgotten, sent through a masked vector or with an old message; each but for the recorded orders |

Most properties of the parts are conjunctions of what the part's module states one by
one:

| Property | Conjuncts, besides the types |
|---|---|
| `OwnerSafe`, `OwnerSteps` (`BoundOwner`) | REAPED is proven, handles pin the right processes, one TERM, one close; signals go to pinned members, doubt is final |
| `JobIsOwned` (`OwnedJob`) | nothing runs outside the Job, one termination request, terminal means dead, no close kills, no live process without a handle |
| `ReceiptIsTrue` (`PipeLog`) | a clean receipt means a complete log; counts add up |
| `LinesKept` (`CommandInput`) | every line is one command in its place, or refused as too long |
| `AnswerIsJudged` (`VectorAdd`) | SUCCESS exactly for what a bitwise adder gives; FAILED only for an answer to this command |
| `ControllerSettles` | liveness of the four parts: `Settles`, `SessionEnds`, `PipeDrains`, `LogIsReleased`, `EofEndsRun` |
| `RegistrySound` (`HostRegistry`) | exclusive leases, contiguous contexts, owned is registered |
| `StopIsProven` (`MacGuestStop`) | Ok and Dead prove the exit, one request; a process bound to its peer is owned while alive and released after the proof |
| `RetirementIsTrue` (`GuestEndpoint`) | retirement is proven, the service may finish, no false alarm |
| `ServiceSettles` | liveness: `RemovedIsFree`, the two `ExitIsReleased`, `EndpointIsRetired`, `KillReturns` |
| `DeathIsFinal` (`GuestVm`) | `NothingOutlivesDeath`, `MonitorNeverWaits`, `GuestIsOwned`, `StopMeansExited` |
| `QueueKept` (`AsyncRwLock`) | list and bits in step, wake-ups due (`WaitersKept`); nobody stranded, a lock nobody wants is free (`LockUsable`), unless a starved task was dropped off the list before its wake-up |
| `NotificationsKept` (`AsyncCondvar`) | list and bit in step, wake-ups due, no more takers wait beside items than notifications went with dropped waits |
| `PortsSound` (`HostPorts`) | one user per port, no leaked reservation, listeners are told, nothing left without a handler |
| `FlowSound` (`VsockFlow`) | neither side overrun; nothing lost but with a dropped packet or over a sleep; no counter below zero but by the wrap of the guest's |
| `FramesDecoded` (`BinderFrames`) | exactly the payload, no bad header passed over, an end clean only between frames |
| `VsockProgress` | liveness: `ListenerIsServed`, `ClosedIsFreed`, `GuestMaySendAgain`, `HostDataArrives`, `EndIsNoticed` |
| `MsixSound`, `QueueSound` | `OwedIsPending`, `OpenHasIrq`, `RouteIsCurrent`, `PendingLeaves`, `SentIsOpen`; `OneOwner`, `KickDue`, `InterruptDue` |
| `LineSound` (`IrqLine`) | `StatusIsPromised`, `SignalKept`, `WakeupAsked`, `InServiceIsEnded` |

Settings. Constants such as `MayFail`, `MayCancel`, `MaySleep`, `BindMayFail`,
`MayReplace` switch a fault on; each is on in one part of a run, and where progress
needs it, off in another. `QuietLimit` of `SplitQueue` restricts the driver to the case in
which the property holds (section 5). Elsewhere nothing is restricted: an order in which
the code does not keep a promise is in the model, and the property excepts it by a
history variable or a state that only that order reaches (`Late`, `MetricCycle`, `gone`,
`lost`, `dropped`, `slept`, `early`, `blind`, `stale`, `missed`). The line runs once with
one bit, failures and snapshots, and once with two bits that overtake each other, without
snapshots and wakeups. The lock runs with three of four tasks at a time where they starve,
and with all four where they do not.

Bounds.

- Four controllers cover create, start, resume and one rival in every order. Two
  request ids give a request after an answered and after an unanswered one; the ids
  matter only by their order.
- `BoundOwner` owns a service and a Guest and has 2 retained observations (30 and 31 in
  the code): an observation either ends the wait or leaves the same choices to the next.
  `OwnedJob` has root, service and Guest. `PipeLog` writes 4 units through a pipe of 2
  into a file of 3, so the pipe fills and the limit is passed.
- `CommandInput` reads 2 characters where the code reads 128 and queues 2 commands
  where it queues 32; there are 3 lines of up to 2 characters, or 2 of up to 5, cut twice. Words of `VectorAdd` have 2
  bits; carries, the top bit and the wrap of a sum occur.
- `HostRegistry` has 2 processes whose CIDs overlap, CIDs up to 4 and one instance id;
  `MacGuestStop` 3 clients and 2 observations.
- `ChannelSize` of `VsockFlow` is 1 where the code has `CHANNEL_SIZE` 256: a packet is
  dropped as soon as two are on the way. `LongWait` is 1 where the code has 19, so that a task starves after one trip, or 0,
  which stands for no task ever starving.
- `HostPorts` has one guest port and 2 attempts: a second attempt while the first one is
  draining. In `VsockFlow` counters are modulo 12, which exceeds the buffers of 10 as 2^32 exceeds
  the real ones. One flow has a peer buffer of 2 against 3 bytes of the host and our buffer
  of 10 against 14 of the guest, so both sides run out of credit and the guest's counter
  wraps; another sends 16 bytes of the host through a peer buffer of 7, so the host's
  passes the wrap; the sleeping one has 1 and 2, and 10. A frame header of 8 bytes has 3;
  3 frames of 0 to 3 bytes are cut anywhere.
- Indices of 16 bits are modulo 4 over a queue of 2. `QuietLimit` 3 keeps the driver from
  polling through a whole wrap (section 5).
- `DeferLimit` and `DelayLimit` 1: one deferred signal and one delayed event are kept
  while the other threads go on.
- `sent`, `stops`, `terms`, `closes`, `owed`, `due` are history variables.

Deadlock is checked except where a process may end (controllers, virtmgr's VM) or the
environment may fall silent (vsock); where one part of several may end, the module says
so in a disjunct of its next-state relation.

Fairness. It is asked of what the program runs, never of the operator, of the
launched programs or of failing calls to fail.

- `Supervisor`: the controller's steps, the deadline, and strong fairness of
  `FinalizeEmpty`, because the loop retries the process listing every second.
  `BoundOwner`: the owner's steps and the passing of five seconds.
- `CommandInput`, `PipeLog`: the reader thread and the controller; a pipe write or
  a queue that blocks is a disabled step. `OwnedJob`: the controller once it is out of
  the run, and the exit of a process that is being terminated.
- `GuestVm`: its threads; strong for `Monitor` and `Kill`, which wait for mutexes that
  others take again and again. `GuestEndpoint`: virtmgr's writes, the controller, and
  the end of a process that has been signalled; strong for `Retire`, which waits for
  the trace lock. `MacGuestStop`: the threads, the delivery of an exit event, the exit
  of a process that is exiting. `HostRegistry`: a forked child reaches its `exec`, a
  dropped lease is closed.
- `VsockFlow`, `HostPorts`: the device's futures, strong where they wait for the lock
  of the connections or a free descriptor; of the guest only that its driver
  receives, reads and returns credit. `SplitQueue`: the device and an idle driver;
  strong for `Take`, which polling interrupts.
- `IrqLine`: the threads; strong for the delayed events and the guest's handler; a
  guest that unmasks its pin and resumes its device.

## 4. Proofs

Everything below holds for every value of the constants that the named `ASSUME`s of
the modules allow; TLC evaluates those on every run.

`InstanceClaimProofs` proves, for any set of controllers, that `IInv` is inductive (it
contains the types), and from it `OneLiveSession`, `UnclaimedIsProven`,
`LaunchOnRecordedDisks`, `UnknownIsFinal` and `ClaimRemovedByOwner`. None of them is
inductive alone. The argument: every step from the creation of the claim on is taken by
its holder (`ClaimInv`), so nobody else writes the record, but for a handler that runs
after its controller gave the claim back and writes `UNKNOWN` (`Late`); before the launch
the record is still the proven one the holder compared under the claim (`ProvenInv`,
`EligibleInv`); from the launch to `STOPPED` it names an unfinished state or such an
`UNKNOWN` (`RecordInv`), so whoever read it earlier fails the comparison; and what is in
`record.next` is what its writer is about to publish (`WriteInv`). The only assumption is
that `None` is neither a controller nor a record.

It also proves `AttemptsAreLives`: every attempt is a life of `Lifetime`, step by step.
An attempt begins when its controller's copy of the record names it. That is its own
`STARTING` record, because nobody names it before (`Unnamed`), and its later records come
in the order of its controller's places (`Reached`, both in `LivesInv`).

The same module proves `LinesKept` of `CommandInput`, for any lines, any chunk and any
size of the queue. The reader stands at the line after those it has passed on, in the
middle of it only while it discards (`InputPlaceInv`), and what it has passed on is one
command for each line, but for the end of the input or an error as the last of them
(`PassedInv`).

`SupervisorProofs` proves the six safety properties of `supervise` and that
`Supervisor` implements `Lifetime`, for any number of requests. The invariant goes by
the place of the controller: who called the method it is in (`Callers`), what has been
published there (`Published`), whether a launcher exists (`Launched`), what has been
sent and answered (`Messages`) and which ends have been seen (`Evidence`). The
last one carries STOPPED: an exit and an empty session are observed one after the
other, and stay true because an ended session has nobody left to start a process
(`EndedStays`). The signal rests on the second look: after it a handle opened on a
stranger is closed, and one that pins the service pins it for good. The refinement maps the session to `none`, `live` or `ended`;
the steps of the controller change `state` and `released` in the order `Published`
gives, and the steps of processes only end the session.

`ControllerPartsProofs` is about the two other owners of a controller's processes.

- `BoundOwner`: for any non-empty family of processes and any budget, `OwnerSafe` and
  `OwnerSteps`. A handle opened on the wrong process has a PID that does not stand for
  its expected process any more, so the inventory after the opening cannot match
  (`PinInv`); an empty session stays empty because only its own processes fork into it
  (`SessionStep`); the TERM pass visits a member once and runs once (`OnceInv`); closes
  start with no attempt on record and end the owner when one fails.
- `OwnedJob`: for any processes that the root may start, and with any call failing,
  `JobIsOwned`. The root is resumed only after it was assigned to the Job (`RootInv`),
  what it starts is born inside (`ChildrenInv`), so a member keeps the Job's handle open
  until the owner is terminal (`HandlesInv`), and a terminal owner has counted the Job
  down to nothing before it closed that handle (`TerminalInv`). Each request to terminate
  leaves its mark before it is made (`CallsInv`).

`GuestVmProofs` proves, for any clients, guest threads and notices, `DeathIsFinal` and,
step by step, `ObeyedKeepsPromise`, the refinement of `VmPromise`. The invariant says how
process, state and exit monitor advance together (`MonitorInv`); that a start in progress
is alone and owns a VM without a process (`StartInv`); that what is owned is registered
(`RegistryInv`); that death is told once, by the monitor, after the bridge and the
callback are gone (`DeathInv`); and that while SIGKILL is obeyed nobody panics with the
lock, and who closes the channel or gets through it has seen the monitor end
(`ObeyedInv`). One lemma per thread says which places it may go to and what it leaves
alone.

`HostPartsProofs` is about the rest of virtmgr.

- `MacGuestStop`: `StopIsProven` for any clients and any number of looks, with any call
  failing. Event, process and what was concluded from them agree (`EvidenceInv`), and the
  one request is made by the thread that moved the VM to `ShuttingDown` (`RequestInv`).
- `GuestEndpoint`: `RetirementIsTrue`, with the path replaced and any process dying at any
  step. The trace follows the life of the socket (`TraceInv`, `PathInv`), the controller
  has seen no more of it than there is (`ReaderInv`), and what it concludes stays true
  because rows are never taken back (`ProofInv`).
- `HostRegistry`: `RegistrySound` for any processes, CIDs and ids. That the next CID is
  fresh is a counting argument: a contiguous run of `n` contexts from the base ends
  before `base + n`.

`HostPortsProofs` proves `PortsSound` for any ports and any number of attempts.
`OnePerPort` and `ReservedIsUsed` are inductive together with `Unused`: a host port not
yet given out is used by nobody, and a write that outlives its connection still keeps
the port. `QueuedIsTold` and `InactiveIsQuiet` follow the place of
`process_host_control`: the control is active exactly while the handler holds its
`ActiveControl`, and a sleeping worker has let it go (`ActiveIsHeld`).

`ThreadsProofs` is about two places where threads share memory.

`PipeLog`: for any amount of output, capacity of the pipe and limit of the log,
`ReceiptIsTrue`. Nothing vanishes between pipe, reader, log and drop count (`ReaderInv`),
and the fields are read in a fixed order (`OrderInv`); `reader_alive` is read before the
counts, so once it is false they are final (`FieldsInv`).

`AsyncRwLock`: for any finite set of tasks, `MutualExclusion`, and
that at most one task works on the list of waiters (`ListHasOneOwner`, a part of
`QueueKept`). `LockInv` adds that a task after the lock still
looks at its holders (`LooksAtHolders`: whatever bits it has learnt to ignore, LOCKED
is not one of them) and that the word counts the readers.

`InterruptsProofs` proves `MsixSound` and `LineSound` without any assumption on guest,
device or hypervisor: every order of writes, triggers, refusals and restores is in the
model, and the exceptions are those of the properties.

- `Msix`, for any vectors and messages: an open vector has its irq (`OpenVectorsHaveIrqs`),
  a pending bit belongs to a masked vector (`PendingIsClosed`, the strengthening of
  `OwedIsPending`) and was owed or sent (`PendingIsSent`), and a write that changes a
  message tells the route (`RouteTold`).
- `IrqLine`, for any bits and threads: a level that is serviced leaves the pin in service
  or a reason in `missed` (`ServedPin`), and the end of the service is on its way
  (`ServedEnds`); from that follows who will raise a status that stands.

Only model-checked, and why:

- all liveness (`SuperviseReturns`, `RetainedIsReleased`, `ControllerSettles`,
  `ServiceSettles`, `VsockProgress`, `ChainComesBack`, `SignalArrives`): it needs fairness
  and `ENABLED`, which are outside the proof system's reach;
- `AnswerIsJudged`: the reference adder is a recursive function of the bits, and what it
  computes for every width needs induction over them;
- `FramesDecoded` and `FlowSound`: what has been decoded or received is compared with the
  whole input, by concatenations and sums of sequences whose lengths have no bound;
- `NotificationsKept`, and the rest of `QueueKept` (what the list of waiters contains):
  sequences from whose middle elements are removed;
- `QueueSound`: ring indices in modular arithmetic with a variable modulus.

## 5. Findings

1. `native.py:405` reports `owner_terminal` for an owner that never started, but
   the attribute that `run` asks for (`runtime.py:169`) stays false. The retention
   loop then calls `session_empty`, which needs `self.child`, and gets an
   `AttributeError` every second for ever; the comment at `native.py:365` says that
   a failed launch "must be able to finish UNKNOWN without a VM". Run `failed_launch`.
2. The retention loop catches an interrupt, but its handler sleeps for a second
   outside any `try` (`runtime.py:191`). A second interrupt in that second ends the
   controller with a live owner; the comment at `runtime.py:171` says the owner is
   retained until termination is proven and that an interrupt "is not that proof".
   The claim stays in place, so the instance remains protected. Run
   `retention_interrupt`.

The models also show the following. The last column names the property that would fail,
with the exception in it that keeps the passing run passing, or the setting that leaves
the case out.

| Where | What the code does | Property, and its exception or setting |
|---|---|---|
| `runtime.py:197` | an interrupt after the unlink of the claim still runs the handler, which saves `UNKNOWN`: the record of an instance whose claim is gone, or whose next controller is at work, is replaced. "Claim is intentionally retained on failure, including controller death" (`runtime.py:128`) is not so here; nothing of the attempt runs any more | `UnclaimedIsProven`, `UnknownIsFinal`, `ClaimRemovedByOwner`: `Late` |
| `native.py:508` | the PID may be handed on between the look at the service and `pidfd_open`; the handle then pins a stranger and the owner is not terminal until that one exits | `RetainedIsReleased`: `fd = "stranger"` |
| `crosvm.rs:1911`, `virtualmachine.rs:2331` | the exit monitor holds `vm_metric` while it waits for the server's threads (1937), one of which may wait for `vm_metric` in `notifyPayloadStarted`; the monitor never ends and `kill` never returns from joining it | `KillReturns`, `ExitIsReleased`: `MetricCycle` |
| `crosvm.rs:2064` | a refused `child.kill()` drops the channel that says "shutdown is finished" (1240); a second stop then succeeds while crosvm runs | not `obeyed`: `StopMeansExited` of `GuestVm` |
| `virtualmachine.rs:1789` | a child whose identity could not be bound is let go if a concurrent stop has moved the state on; 1790 says it is retained | `BindMayFail`, without `peer`: `OwnedWhileAlive` |
| `cros_async/src/sync/mu.rs:552` | a starved waiter that is dropped between being unlinked and being woken leaves `LONG_WAIT` set when nobody else is to be woken; this is the deadlock that 545-551 name, and who comes later may wait for good | `LockUsable`: `gone` |
| `cv.rs:147` | a wait that is dropped while it takes the lock back has used up its notification | `NotifyNotLost`: `lost` |
| `mu.rs:300` | a starved task clears its own `LONG_WAIT` for the moment in which it queues again, and a newcomer gets the lock; 37 says that all others are prevented | `StarvedGoesFirst` |
| `vsock.rs:828` | the `break` on `stop_rx` leaves the inner loop only, and the worker does not stop | `MaySleep`: `StopCompletes` |
| `vsock.rs:1686` | stopping the worker drops packets of connections that are kept over a sleep | `NothingLost`: `slept` |
| `vsock.rs:1150` | a full channel drops the packet: data, or the credit update a side waits for | `NothingLost`, `VsockProgress`: `dropped` |
| `vsock.rs:714` | `tx_cnt` does not wrap and `peer_recv_cnt` does; after 2^32 bytes the difference underflows | `AbortsOnlyByWrap`: `guest.fwd >= Mod` |
| `vsock.rs:1273` | a RESPONSE for a pipe that the service has closed is answered with nothing | `ClosedIsTold` |
| `split_queue.rs:562` | `last_used` moves only with an interrupt; a driver that polls through a whole wrap and then sleeps is not woken | `QuietLimit` 4 (`Mod` 4): `InterruptDue` |
| `split_queue.rs:183` | after a reclaim the chain that wraps `next_used` to 0 raises no interrupt | `MayReclaim` with `EventIdx`: `InterruptDue` |
| `msix.rs:573` | the first unmask of a vector allocates its irq and returns before the pending bit is looked at; 589-595 say that a pending interrupt is injected when its vector is unmasked | `OwedIsPending`: `early` |
| `msix.rs:235` | clearing the function mask clears the pending bit of a vector without an irq, and sends nothing; 228-231 say that what is pending is injected | `OwedIsPending`, `OpenHasIrq`: `blind` |
| `msix.rs:576`, 583 | a message rewritten with MSI-X disabled is not routed; a refused `AddMsiRoute` is only logged | `RouteIsCurrent`: `stale` |
| `ioapic.rs:402` | a level is serviced before `setup_msi` gives the pin its event: the first unmask injects nothing | `InServiceIsEnded`, `SignalArrives`: `missed` has "event" |
| `interrupt.rs:99` | suspension is looked at under a lock that is released before the interrupt is sent | `QuietWhenSuspended` |
| `interrupt.rs:338` | a snapshot has the status only; deferred signals are gone after a restore | `SignalKept`, `SignalArrives`: `dropped` |
| `vm_control/src/lib.rs:2451` | the flush before a snapshot does not wait for the resample thread | `StatusIsPromised`, `SignalArrives`: `missed` has "resample" |

`StarvedGoesFirst`, `ClosedIsTold`, `QuietWhenSuspended` and `StopCompletes` stay in
their modules with a comment that the code does not keep them; no run checks them.

Smaller observations. In the controllers: a request whose reply was read but whose
`request_complete` note failed keeps `task_result` next to a request state of
`UNKNOWN`; a leftover `record.next` makes every later save fail, and then only the
claim protects the instance; an owner whose binding failed, or whose cleanup was
not authorized, is retained even after its session ended; the Windows owner is
retained for ever once an outcome is uncertain. In virtmgr: allocation never advances
past a CID leased by another process; a virtmgr that dies releases its leases while an
orphaned crosvm may still run. In `cros_async`: overlapping readers can keep a writer
waiting. In vsock: packets behind one that closes the port are dropped (1190), the `fwd_cnt` of a CREDIT_REQUEST is
ignored (1364), handshakes end at a sleep. In the queue, consumers that pop several
chains without `trigger_interrupt` have no full fence between their store and their load
(`split_queue.rs:254`, 318). An
unregistered event stays in the delayed events for ever (`whpx.rs:505`); the restore of a
suspended device leaves it not suspended.

## 6. Abstractions and omissions

- A process listing is one atomic step. The real one reads `/proc` or `ps` entry by
  entry, and `session_empty` lists PIDs before it asks for their sessions; a process
  forked during the listing by a process that exits during it can be missed.
- `fuser`, hashes, file identities and `instance_id` are compared as opaque values.
- The Guest disks change only through the live VM.
- Parsing of commands and responses is reduced to its outcome in `Supervisor`;
  `CommandInput` and `VectorAdd` model it by what it does. The metadata of an answer is
  one Boolean.
- Host crash is the death of controllers; file contents survive it in the order of
  the writes (the code calls `fsync` on the record and on the claim, not on the
  directory).
- `status` and `check` change nothing and have no action.
- `GuestVm` has one VM; the registry, which is shared by all, is `HostRegistry`. The
  guest's own programs, crosvm as a process and the kernel's signals are environment.
- `AsyncCondvar` takes the lock as one step, for what `AsyncRwLock` shows of it.
- `VsockFlow` models one connection and counts bytes; ports of other connections show
  only as a full rx queue. Packets carry one of two lengths.
- `SplitQueue` buffers the device's stores only; the driver's fences are taken from the
  virtio specification, as are the driver and the local apic of `Msix` and `IrqLine`
  (external in the map).
  The driver publishes well-formed chains: `peek` takes a malformed one for an empty ring
  and stays before it.
- `IrqLine`: the acknowledgement of `trigger_wakeup` is part of the step that rings it;
  edge-triggered pins, the PIC, MMIO transport and device reset are left out.

Not modelled, and why:

- composition of `BoundOwner` with `supervise`: the two meet only in `owner_terminal`,
  which both modules have;
- `mac_owner.py`, `mac_audit.py`: audit tokens in the place of pidfds, in the order that
  `BoundOwner` and `GuestEndpoint` model;
- `windows_initial.py`, `windows_state.py`, `materialize`: copies of files and checks of
  access lists before anything runs;
- strict JSON, the closure check, release verifiers: functions of files without state;
- virtmgr's composite disks, payload configuration, device tree, balloon and statistics:
  data preparation, or values nobody waits for;
- guest-initiated vsock connections, packed virtqueues, descriptor chains: only the
  connections that the host opens, and single descriptors, are followed;
- launch wrappers, image tools, simulators, build files: sequential scripts around
  external programs;
- release 14 controllers: older copies of the same files;
- the rest of crosvm, binder, minijail and libutils: upstream sources of several hundred
  thousand lines that run inside the launched session. They are by far the largest part
  of the repository; the modules cover the parts of them that the release changes or
  whose concurrency its guarantees rest on.

## 7. What would come next

1. `GuestVm` with `HostRegistry` in place of its two Booleans, for several VMs of one
   virtmgr.
2. Proofs about the sequences: the list of waiters of `AsyncRwLock`, the frames of
   `BinderFrames`; and about the ring indices of `SplitQueue`.
3. Guest-initiated vsock connections, and a connection that goes through `HostPorts`
   and `VsockFlow` in one module.
