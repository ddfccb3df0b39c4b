------------------------------ MODULE IrqLine ------------------------------
(***************************************************************************)
(* The level-triggered interrupt of one virtio device of crosvm, from the  *)
(* device thread that raises it to the guest that handles it:              *)
(*                                                                         *)
(*   - Interrupt (devices/src/virtio/interrupt.rs): the status register,   *)
(*     the signals deferred while the device is suspended, the resample    *)
(*     thread;                                                             *)
(*   - the irq threads (src/sys/windows/irq_wait.rs) and the split irq     *)
(*     chip (devices/src/irqchip/whpx.rs), which never wait for the lock   *)
(*     of the ioapic: an event that finds it taken is put off;             *)
(*   - the pin of the ioapic (devices/src/irqchip/ioapic.rs), whose lock a *)
(*     vcpu holds while it waits for the irq thread to set a route.        *)
(*                                                                         *)
(* The local apic and the driver of the guest are external.                *)
(***************************************************************************)
EXTENDS Naturals, Sequences, FiniteSets, Functions

CONSTANTS Bits,               \* bits of the interrupt status
          NoBit,              \* no bit
          Workers,            \* threads of the device
          Vcpu,               \* the thread of the guest's configuration write
          DeferLimit,         \* bound on pending_signals
          DelayLimit,         \* bound on delayed_ioapic_irq_events
          MayFail,            \* an event, a route or an injection may be refused
          MayRestore          \* snapshots are taken and restored

ASSUME BoundAssumption == DeferLimit \in Nat \ {0} /\ DelayLimit \in Nat \ {0}
ASSUME ThreadAssumption == Vcpu \notin Workers /\ NoBit \notin Bits

VARIABLES pm,       \* PmState: suspended, deferred signals, wakeup_enabled
          resend,   \* signals that set_suspended still has to send again
          status,   \* interrupt_status
          pc, bit,  \* per signalling thread: place in signal, its mask
          line,     \* the events: trigger, resample, out; the events put off
          resample, \* place of the resample thread
          pin,      \* the ioapic's pin: level, remote_irr, mask, lock, and
                    \* whether it has its out event and the event its route
          guest,    \* irr of the local apic, place of the handler
          due, rung,\* history: bits the driver must see, wakeup asked for
          missed,   \* history: why no interrupt came of a service of the pin
          dropped   \* history: deferred bits that no snapshot held

vars == <<pm, resend, status, pc, bit, line, resample, pin, guest, due, rung, missed, dropped>>

Threads == Workers \cup {Vcpu}

TypeOK ==
    /\ pm \in [suspended : BOOLEAN, deferred : Seq(Bits), wakeup : BOOLEAN]
    /\ Len(pm.deferred) <= DeferLimit
    /\ resend \in Seq(Bits) /\ Len(resend) <= DeferLimit
    /\ status \subseteq Bits
    /\ pc \in [Threads -> {"idle", "status", "trigger"}]
    /\ bit \in [Threads -> Bits \cup {NoBit}]
    /\ \A t \in Threads : pc[t] = "status" => bit[t] \in Bits
    /\ line \in [trigger : BOOLEAN, resample : BOOLEAN, out : BOOLEAN, delayed : 0..DelayLimit]
    /\ resample \in {"wait", "load", "signal"}
    /\ pin \in [level : BOOLEAN, irr : BOOLEAN, masked : BOOLEAN, locked : BOOLEAN,
                event : BOOLEAN, routed : BOOLEAN]
    /\ guest \in [irr : BOOLEAN, at : {"running", "handler", "eoi"}]
    /\ due \subseteq Bits /\ rung \in BOOLEAN
    /\ missed \subseteq {"event", "route", "resample"} /\ dropped \subseteq Bits

Init ==
    /\ pm = [suspended |-> FALSE, deferred |-> <<>>, wakeup |-> FALSE]
    /\ resend = <<>> /\ status = {}
    /\ pc = [t \in Threads |-> "idle"]
    /\ bit = [t \in Threads |-> NoBit]
    /\ line = [trigger |-> FALSE, resample |-> FALSE, out |-> FALSE, delayed |-> 0]
    /\ resample = "wait"
    /\ pin = [level |-> FALSE, irr |-> FALSE, masked |-> TRUE, locked |-> FALSE,
              event |-> FALSE, routed |-> FALSE]
    /\ guest = [irr |-> FALSE, at |-> "running"]
    /\ due = {} /\ rung = FALSE /\ missed = {} /\ dropped = {}

-----------------------------------------------------------------------------
(* Interrupt.                                                              *)

\* handle_interrupt of a suspended device.
Defer(b) ==
    /\ Len(pm.deferred) < DeferLimit
    /\ pm' = [pm EXCEPT !.deferred = Append(@, b)]
    /\ rung' = (rung \/ pm.wakeup)

\* signal: the device's state is looked at and its lock let go.
Signal(w, b) ==
    /\ pc[w] = "idle" /\ due' = due \cup {b}
    /\ IF pm.suspended
       THEN Defer(b) /\ UNCHANGED <<pc, bit>>
       ELSE /\ pc' = [pc EXCEPT ![w] = "status"] /\ bit' = [bit EXCEPT ![w] = b]
            /\ UNCHANGED <<pm, rung>>
    /\ UNCHANGED <<resend, status, line, resample, pin, guest, missed, dropped>>

\* update_interrupt_status: only the first bit raises the line.
UpdateStatus(t) ==
    /\ pc[t] = "status" /\ status' = status \cup {bit[t]}
    /\ pc' = [pc EXCEPT ![t] = IF status = {} THEN "trigger" ELSE "idle"]
    /\ bit' = [bit EXCEPT ![t] = NoBit]
    /\ UNCHANGED <<pm, resend, line, resample, pin, guest, due, rung, missed, dropped>>

Trigger(t) ==
    /\ pc[t] = "trigger" /\ pc' = [pc EXCEPT ![t] = "idle"]
    /\ line' = [line EXCEPT !.trigger = TRUE]
    /\ UNCHANGED <<pm, resend, status, bit, resample, pin, guest, due, rung, missed, dropped>>

\* PmState::set_suspended takes the deferred signals.
Taken(s) == pm.deferred

\* set_suspended, by the vcpu that holds the device: the deferred signals are
\* sent again one by one.
SetSuspended(s) ==
    /\ pc[Vcpu] = "idle" /\ resend = <<>> /\ pm.suspended # s
    /\ pm' = [pm EXCEPT !.suspended = s, !.deferred = <<>>]
    /\ resend' = Taken(s)
    /\ UNCHANGED <<status, pc, bit, line, resample, pin, guest, due, rung, missed, dropped>>

Resend ==
    /\ pc[Vcpu] = "idle" /\ resend # <<>>
    /\ pc' = [pc EXCEPT ![Vcpu] = "status"]
    /\ bit' = [bit EXCEPT ![Vcpu] = Head(resend)] /\ resend' = Tail(resend)
    /\ UNCHANGED <<pm, status, line, resample, pin, guest, due, rung, missed, dropped>>

\* set_wakeup_event_active, at a change of the power state.
SetWakeup(on) ==
    /\ pc[Vcpu] = "idle" /\ resend = <<>>
    /\ pm' = [pm EXCEPT !.wakeup = on]
    /\ rung' = (on /\ (rung \/ pm.deferred # <<>>))
    /\ UNCHANGED <<resend, status, pc, bit, line, resample, pin, guest, due, missed, dropped>>

ResampleWait ==
    /\ resample = "wait" /\ line.resample /\ resample' = "load"
    /\ line' = [line EXCEPT !.resample = FALSE]
    /\ UNCHANGED <<pm, resend, status, pc, bit, pin, guest, due, rung, missed, dropped>>

ResampleLoad ==
    /\ resample = "load" /\ resample' = IF status = {} THEN "wait" ELSE "signal"
    /\ UNCHANGED <<pm, resend, status, pc, bit, line, pin, guest, due, rung, missed, dropped>>

ResampleSignal ==
    /\ resample = "signal" /\ resample' = "wait"
    /\ line' = [line EXCEPT !.trigger = TRUE]
    /\ UNCHANGED <<pm, resend, status, pc, bit, pin, guest, due, rung, missed, dropped>>

-----------------------------------------------------------------------------
(* The irq threads and the ioapic.                                         *)

\* Mutant: a masked pin does not remember its level.
LevelUnmasked(m) == ~m

\* Ioapic::service_irq with the level high, on a level-triggered pin whose
\* mask is m: the level it leaves ...
Level(m) == TRUE

\* ... and whether the pin interrupts: it signals the out event, if it has
\* been allocated. The signal may fail.
Wants(m) == ~m /\ ~pin.irr
Injects(m, ok) == Wants(m) /\ pin.event /\ ok

ServiceIrq(m, lk, ok) ==
    /\ ok \/ MayFail
    /\ pin' = [pin EXCEPT !.level = Level(m), !.irr = @ \/ Injects(m, ok), !.masked = m,
                          !.locked = lk]
    /\ missed' = IF Injects(m, ok) THEN missed \ {"event"}
                 ELSE IF Wants(m) THEN missed \cup {"event"} ELSE missed

\* service_irq_event for the device's event; put off if the ioapic is taken.
ServiceEvent(ok) ==
    /\ line.trigger
    /\ IF pin.locked
       THEN /\ line.delayed < DelayLimit
            /\ line' = [line EXCEPT !.trigger = FALSE, !.delayed = @ + 1]
            /\ UNCHANGED <<pin, missed>>
       ELSE /\ ServiceIrq(pin.masked, FALSE, ok)
            /\ line' = [line EXCEPT !.trigger = FALSE, !.out = @ \/ Injects(pin.masked, ok)]
    /\ UNCHANGED <<pm, resend, status, pc, bit, resample, guest, due, rung, dropped>>

\* process_delayed_irq_events, for one event.
ProcessDelayed(ok) ==
    /\ line.delayed > 0 /\ ~pin.locked
    /\ ServiceIrq(pin.masked, FALSE, ok)
    /\ line' = [line EXCEPT !.delayed = @ - 1, !.out = @ \/ Injects(pin.masked, ok)]
    /\ UNCHANGED <<pm, resend, status, pc, bit, resample, guest, due, rung, dropped>>

\* service_irq_event for the event of the ioapic: send_msi, if there is a route.
DeliverMsi(ok) ==
    /\ line.out /\ line' = [line EXCEPT !.out = FALSE]
    /\ ok \/ MayFail
    /\ IF pin.routed /\ ok
       THEN guest' = [guest EXCEPT !.irr = TRUE] /\ UNCHANGED missed
       ELSE missed' = missed \cup {"route"} /\ UNCHANGED guest
    /\ UNCHANGED <<pm, resend, status, pc, bit, resample, pin, due, rung, dropped>>

\* ioapic_write of the pin's entry, up to the request of setup_msi: a level that
\* stands is serviced before the event is allocated.
WriteEntry(m, ok) ==
    /\ ~pin.locked
    /\ IF pin.level /\ ~m
       THEN /\ ServiceIrq(m, TRUE, ok)
            /\ line' = [line EXCEPT !.out = @ \/ Injects(m, ok)]
       ELSE pin' = [pin EXCEPT !.masked = m, !.locked = TRUE] /\ UNCHANGED <<line, missed>>

GuestWrites(m, ok) ==
    /\ WriteEntry(m, ok)
    /\ UNCHANGED <<pm, resend, status, pc, bit, resample, guest, due, rung, dropped>>

\* VmIrqRequest::execute by the irq thread, and the end of ioapic_write: the event
\* is allocated once, the route told every time; either may be refused.
AnswerRoute(event, routed) ==
    /\ pin.locked
    /\ pin.event => event
    /\ routed => event
    /\ ~routed => MayFail
    /\ pin' = [pin EXCEPT !.locked = FALSE, !.event = event, !.routed = @ \/ routed]
    /\ UNCHANGED <<pm, resend, status, pc, bit, line, resample, guest, due, rung, missed, dropped>>

\* end_of_interrupt of another pin's vector: a level that stands is serviced.
OtherEnds(ok) ==
    /\ pin.level /\ ~pin.locked
    /\ ServiceIrq(pin.masked, FALSE, ok)
    /\ line' = [line EXCEPT !.out = @ \/ Injects(pin.masked, ok)]
    /\ UNCHANGED <<pm, resend, status, pc, bit, resample, guest, due, rung, dropped>>

\* Mutant: the end of an interrupt is not told to the device.
ResampledNever == FALSE

\* The events that end_of_interrupt signals.
Resampled == TRUE

\* broadcast_eoi: end_of_interrupt of the pin's vector.
EndOfInterrupt ==
    /\ guest.at = "eoi" /\ ~pin.locked
    /\ guest' = [guest EXCEPT !.at = "running"]
    /\ pin' = [pin EXCEPT !.level = FALSE, !.irr = FALSE]
    /\ line' = [line EXCEPT !.resample = Resampled]
    /\ UNCHANGED <<pm, resend, status, pc, bit, resample, due, rung, missed, dropped>>

-----------------------------------------------------------------------------
(* The guest: the local apic and the driver's handler.                     *)

TakeInterrupt ==
    /\ guest.irr /\ guest.at = "running"
    /\ guest' = [irr |-> FALSE, at |-> "handler"]
    /\ UNCHANGED <<pm, resend, status, pc, bit, line, resample, pin, due, rung, missed, dropped>>

\* read_and_reset_interrupt_status; the device is free.
ReadStatus ==
    /\ guest.at = "handler" /\ pc[Vcpu] = "idle" /\ resend = <<>>
    /\ status' = {} /\ due' = due \ status
    /\ guest' = [guest EXCEPT !.at = "eoi"]
    /\ missed' = missed \ {"resample"} /\ dropped' = dropped \ status
    /\ UNCHANGED <<pm, resend, pc, bit, line, resample, pin, rung>>

\* What do_snapshot waits for: vcpus and devices have stopped, the irq
\* threads have nothing left to serve.
Flushed ==
    /\ \A t \in Threads : pc[t] = "idle"
    /\ resend = <<>> /\ ~pin.locked
    /\ ~line.trigger /\ ~line.out /\ line.delayed = 0

\* A snapshot and the restore of it: a new Interrupt has the status only, and
\* an out event without a route is not in the snapshot.
Restore ==
    /\ MayRestore /\ Flushed
    /\ missed' = IF line.resample \/ resample # "wait" THEN missed \cup {"resample"} ELSE missed
    /\ dropped' = dropped \cup Range(pm.deferred)
    /\ pin' = [pin EXCEPT !.event = @ /\ pin.routed]
    /\ pm' = [suspended |-> FALSE, deferred |-> <<>>, wakeup |-> FALSE]
    /\ rung' = FALSE
    /\ line' = [line EXCEPT !.resample = FALSE] /\ resample' = "wait"
    /\ UNCHANGED <<resend, status, pc, bit, guest, due>>

Next ==
    \/ \E w \in Workers, b \in Bits : Signal(w, b)
    \/ \E t \in Threads : UpdateStatus(t)
    \/ \E t \in Threads : Trigger(t)
    \/ \E s \in BOOLEAN : SetSuspended(s)
    \/ Resend
    \/ \E on \in BOOLEAN : SetWakeup(on)
    \/ ResampleWait
    \/ ResampleLoad
    \/ ResampleSignal
    \/ \E ok \in BOOLEAN : \/ ServiceEvent(ok) \/ ProcessDelayed(ok) \/ DeliverMsi(ok) \/ OtherEnds(ok)
    \/ \E m, ok \in BOOLEAN : GuestWrites(m, ok)
    \/ \E event, routed \in BOOLEAN : AnswerRoute(event, routed)
    \/ EndOfInterrupt
    \/ TakeInterrupt
    \/ ReadStatus
    \/ Restore

Spec == Init /\ [][Next]_vars

-----------------------------------------------------------------------------
(* Properties.                                                             *)

\* What will make somebody look at the status again.
Promised ==
    \/ \E t \in Threads : pc[t] = "trigger"
    \/ line.trigger \/ line.delayed > 0 \/ line.out \/ line.resample
    \/ resample # "wait" \/ guest.irr \/ guest.at # "running"
    \/ pin.level /\ pin.masked

\* A status that stands has an interrupt, an end of interrupt or a resample
\* on its way: as a device raises its line for the first bit only, one that
\* nothing leads the guest to silences the device.  The code lets that happen
\* in three ways, and in no other: the pin was serviced without an out event
\* that could be signalled, the event had no route, or a snapshot left a
\* resample behind.
StatusIsPromised == status # {} => Promised \/ missed # {}

\* What a device signalled and the driver has not read stands in the status,
\* is deferred, or is in the hands of a thread that is signalling it, unless a
\* snapshot was taken of the suspended device that deferred it.
SignalKept ==
    \A b \in due :
        \/ b \in status
        \/ b \in Range(pm.deferred) \cup Range(resend)
        \/ \E t \in Threads : pc[t] = "status" /\ bit[t] = b
        \/ b \in dropped

\* A suspended device with wakeup on and a deferred signal has asked for the
\* wakeup, whichever came first.
WakeupAsked == pm.wakeup /\ pm.deferred # <<>> => rung

\* A pin with an interrupt in service has it on its way or in the handler, but
\* for one whose event had no route; one nobody ends keeps the pin from
\* interrupting again.  A pin that stands open at its level is in service, but
\* for one serviced without an event: ioapic_write services a level before it
\* allocates the event.
InServiceIsEnded ==
    /\ pin.irr => line.out \/ guest.irr \/ guest.at # "running" \/ "route" \in missed
    /\ pin.level => pin.irr \/ pin.masked \/ "event" \in missed

\* A suspended device sends its driver nothing. The code does not keep this: the
\* suspension is looked at before the interrupt is sent, in another step.
QuietWhenSuspended ==
    [][\A w \in Workers : pm.suspended => ~(pc[w] = "trigger" /\ pc'[w] = "idle")]_vars

\* The driver reads everything the device signals, again and again, unless the
\* pin stays without an interrupt for one of the reasons above, or the bit was
\* dropped for good with the snapshot of a suspended device.
SignalArrives == \A b \in Bits : []<>(b \notin due) \/ <>[](missed # {} \/ b \in dropped)

\* The line is sound: a standing status bit has an interrupt promised, deferred signals
\* are kept and wake the device, and an interrupt in service ends.
LineSound == TypeOK /\ StatusIsPromised /\ SignalKept /\ WakeupAsked /\ InServiceIsEnded
=============================================================================
