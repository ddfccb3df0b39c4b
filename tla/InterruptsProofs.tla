-------------------------- MODULE InterruptsProofs --------------------------
(***************************************************************************)
(* Proofs about the interrupts of a device: the shared line for any number *)
(* of device threads, any bits of the status and any bounds on the queues, *)
(* and the MSI-X table of any size.                                        *)
(***************************************************************************)
EXTENDS Interrupts, TLAPS

\* A leaf may take longer than the default.
USE SMTT(60), ZenonT(60)

-----------------------------------------------------------------------------
(* The shared line. *)

USE BoundAssumption, ThreadAssumption DEF Threads

\* A device that is not suspended has deferred nothing.
AwakeHasNone == ~pm.suspended => pm.deferred = <<>>

-----------------------------------------------------------------------------

\* What a signal appended to pending_signals adds to it.
LEMMA SetOfAppend ==
    ASSUME NEW S, NEW s \in Seq(S), NEW x \in S
    PROVE  /\ Range(s) \subseteq Range(Append(s, x))
           /\ x \in Range(Append(s, x))
<1>1. DOMAIN Append(s, x) = 1..Len(s) + 1 /\ DOMAIN s = 1..Len(s)
  OBVIOUS
<1>2. \A i \in 1..Len(s) : Append(s, x)[i] = s[i]
  OBVIOUS
<1>3. Append(s, x)[Len(s) + 1] = x /\ Len(s) + 1 \in 1..Len(s) + 1
  OBVIOUS
<1>4. QED
  BY <1>1, <1>2, <1>3 DEF Range

\* What set_suspended leaves to send again when it has sent the first one.
LEMMA SetOfTail ==
    ASSUME NEW S, NEW s \in Seq(S), s # <<>>
    PROVE  Range(s) \subseteq {Head(s)} \cup Range(Tail(s))
<1>1. DOMAIN s = 1..Len(s) /\ DOMAIN Tail(s) = 1..Len(s) - 1 /\ Len(s) \in Nat \ {0}
  OBVIOUS
<1>2. \A i \in 1..Len(s) - 1 : Tail(s)[i] = s[i + 1]
  OBVIOUS
<1>3. SUFFICES ASSUME NEW i \in 1..Len(s), i # 1 PROVE s[i] \in Range(Tail(s))
  BY <1>1 DEF Range
<1>4. i - 1 \in 1..Len(s) - 1 /\ (i - 1) + 1 = i
  BY <1>1, <1>3
<1>5. Tail(s)[i - 1] = s[i]
  BY <1>2, <1>4
<1>6. QED
  BY <1>1, <1>4, <1>5, Zenon DEF Range

\* Nothing stands in an empty queue.
LEMMA SetOfNone == Range(<<>>) = {}
BY DEF Range

\* What Ioapic::service_irq leaves of the pin, and what it records of an interrupt
\* that did not come of it.
LEMMA ServedPin ==
    ASSUME TypeOK, NEW m \in BOOLEAN, NEW lk \in BOOLEAN, NEW ok \in BOOLEAN, ServiceIrq(m, lk, ok)
    PROVE  /\ pin' \in [level : BOOLEAN, irr : BOOLEAN, masked : BOOLEAN, locked : BOOLEAN,
                         event : BOOLEAN, routed : BOOLEAN]
           /\ pin'.level = TRUE /\ pin'.masked = m
           /\ pin'.irr = (pin.irr \/ Injects(m, ok))
           /\ Injects(m, ok) \in BOOLEAN
           /\ missed' \subseteq {"event", "route", "resample"}
           /\ "route" \in missed => "route" \in missed'
           /\ m \/ pin'.irr \/ "event" \in missed'
<1>1. Injects(m, ok) \in BOOLEAN
  BY DEF Injects, Wants
<1>2. pin' = [pin EXCEPT !.level = TRUE, !.irr = pin.irr \/ Injects(m, ok), !.masked = m, !.locked = lk]
  BY Zenon DEF ServiceIrq, Level
<1>3. (pin.irr \/ Injects(m, ok)) \in BOOLEAN
  OBVIOUS
<1>4. /\ pin' \in [level : BOOLEAN, irr : BOOLEAN, masked : BOOLEAN, locked : BOOLEAN,
                    event : BOOLEAN, routed : BOOLEAN]
      /\ pin'.level = TRUE /\ pin'.masked = m /\ pin'.irr = (pin.irr \/ Injects(m, ok))
  BY <1>2, <1>3, Zenon DEF TypeOK
<1>5. missed' = IF Injects(m, ok) THEN missed \ {"event"}
                ELSE IF Wants(m) THEN missed \cup {"event"} ELSE missed
  BY DEF ServiceIrq
<1>6. missed' \subseteq {"event", "route", "resample"} /\ ("route" \in missed => "route" \in missed')
  BY <1>5 DEF TypeOK
<1>7. m \/ pin'.irr \/ "event" \in missed'
  BY <1>4, <1>5, Zenon DEF Wants
<1>8. QED
  BY <1>1, <1>4, <1>6, <1>7

\* Every step of every thread leaves the state well-typed.
THEOREM TypeCorrect == Spec => []TypeOK
<1>1. Init => TypeOK
  <2> SUFFICES ASSUME Init PROVE TypeOK
    OBVIOUS
  <2>1. <<>> \in Seq(Bits) /\ Len(<<>>) = 0 /\ 0 \in 0..DelayLimit /\ 0 <= DeferLimit
    OBVIOUS
  <2>2. pm \in [suspended : BOOLEAN, deferred : Seq(Bits), wakeup : BOOLEAN]
        /\ Len(pm.deferred) <= DeferLimit
    BY <2>1 DEF Init
  <2>3. resend \in Seq(Bits) /\ Len(resend) <= DeferLimit
    BY <2>1 DEF Init
  <2>4. line \in [trigger : BOOLEAN, resample : BOOLEAN, out : BOOLEAN, delayed : 0..DelayLimit]
    BY <2>1, SMTT(40) DEF Init
  <2>5. QED
    BY <2>2, <2>3, <2>4, Zenon DEF Init, TypeOK
<1>2. TypeOK /\ [Next]_vars => TypeOK'
  <2> SUFFICES ASSUME TypeOK, [Next]_vars PROVE TypeOK'
    OBVIOUS
  <2> USE DEF TypeOK
  <2>1. ASSUME NEW w \in Workers, NEW b \in Bits, Signal(w, b) PROVE TypeOK'
    <3>1. CASE pm.suspended
      <4>1. Append(pm.deferred, b) \in Seq(Bits)
            /\ Len(Append(pm.deferred, b)) = Len(pm.deferred) + 1
        OBVIOUS
      <4>2. pm' \in [suspended : BOOLEAN, deferred : Seq(Bits), wakeup : BOOLEAN]
            /\ pm'.deferred = Append(pm.deferred, b)
        BY <2>1, <3>1, <4>1, ZenonT(60) DEF Signal, Defer
      <4>3. Len(pm.deferred) \in Nat /\ Len(pm.deferred) < DeferLimit
        BY <2>1, <3>1 DEF Signal, Defer
      <4>4. Len(pm'.deferred) <= DeferLimit
        BY <4>1, <4>2, <4>3
      <4>5. QED
        BY <2>1, <3>1, <4>2, <4>4 DEF Signal, Defer
    <3>2. CASE ~pm.suspended
      <4>1. pc' \in [Threads -> {"idle", "status", "trigger"}]
            /\ bit' \in [Threads -> Bits \cup {NoBit}]
        BY <2>1, <3>2, SMTT(40) DEF Signal
      <4>2. \A t \in Threads : pc'[t] = "status" => bit'[t] \in Bits
        BY <2>1, <3>2 DEF Signal
      <4>3. QED
        BY <2>1, <3>2, <4>1, <4>2 DEF Signal
    <3>3. QED
      BY <3>1, <3>2
  <2>2. ASSUME NEW t \in Threads, UpdateStatus(t) PROVE TypeOK'
    <3>1. status' \subseteq Bits
      BY <2>2 DEF UpdateStatus
    <3>2. QED
      BY <2>2, <3>1 DEF UpdateStatus
  <2>3. ASSUME NEW t \in Threads, Trigger(t) PROVE TypeOK'
    BY <2>3, ZenonT(40) DEF Trigger
  <2>4. ASSUME NEW s \in BOOLEAN, SetSuspended(s) PROVE TypeOK'
    <3>1. <<>> \in Seq(Bits) /\ Len(<<>>) = 0
      OBVIOUS
    <3>2. pm' \in [suspended : BOOLEAN, deferred : Seq(Bits), wakeup : BOOLEAN]
          /\ Len(pm'.deferred) <= DeferLimit
      BY <2>4, <3>1, Zenon DEF SetSuspended
    <3>3. QED
      BY <2>4, <3>2 DEF SetSuspended, Taken
  <2>5. CASE Resend
    BY <2>5 DEF Resend
  <2>6. ASSUME NEW on \in BOOLEAN, SetWakeup(on) PROVE TypeOK'
    BY <2>6 DEF SetWakeup
  <2>7. CASE ResampleWait
    BY <2>7, ZenonT(40) DEF ResampleWait
  <2>8. CASE ResampleLoad
    BY <2>8 DEF ResampleLoad
  <2>9. CASE ResampleSignal
    BY <2>9, ZenonT(40) DEF ResampleSignal
  <2>10. ASSUME NEW ok \in BOOLEAN, ServiceEvent(ok) PROVE TypeOK'
    <3>1. line' \in [trigger : BOOLEAN, resample : BOOLEAN, out : BOOLEAN, delayed : 0..DelayLimit]
      <4>1. CASE pin.locked
        <5>1. line.delayed + 1 \in 0..DelayLimit
          BY <2>10, <4>1 DEF ServiceEvent
        <5>2. line' = [line EXCEPT !.trigger = FALSE, !.delayed = @ + 1]
          BY <2>10, <4>1 DEF ServiceEvent
        <5>3. QED
          BY <5>1, <5>2, Zenon
      <4>2. CASE ~pin.locked
        BY <2>10, <4>2, ServedPin, ZenonT(40) DEF ServiceEvent
      <4>3. QED
        BY <4>1, <4>2
    <3>2. /\ pin' \in [level : BOOLEAN, irr : BOOLEAN, masked : BOOLEAN, locked : BOOLEAN,
                        event : BOOLEAN, routed : BOOLEAN]
          /\ missed' \subseteq {"event", "route", "resample"}
      <4>1. CASE pin.locked
        BY <2>10, <4>1 DEF ServiceEvent
      <4>2. CASE ~pin.locked
        BY <2>10, <4>2, ServedPin, ZenonT(60) DEF ServiceEvent
      <4>3. QED
        BY <4>1, <4>2
    <3>3. QED
      BY <2>10, <3>1, <3>2 DEF ServiceEvent
  <2>11. ASSUME NEW ok \in BOOLEAN, ProcessDelayed(ok) PROVE TypeOK'
    <3>1. line.delayed - 1 \in 0..DelayLimit
      BY <2>11 DEF ProcessDelayed
    <3>2. /\ pin' \in [level : BOOLEAN, irr : BOOLEAN, masked : BOOLEAN, locked : BOOLEAN,
                        event : BOOLEAN, routed : BOOLEAN]
          /\ missed' \subseteq {"event", "route", "resample"}
          /\ Injects(pin.masked, ok) \in BOOLEAN
      <4>1. pin.masked \in BOOLEAN /\ ServiceIrq(pin.masked, FALSE, ok)
        BY <2>11 DEF ProcessDelayed
      <4> HIDE DEF TypeOK
      <4>2. QED
        BY <4>1, ServedPin, Zenon
    <3>3. line' \in [trigger : BOOLEAN, resample : BOOLEAN, out : BOOLEAN, delayed : 0..DelayLimit]
      BY <2>11, <3>1, <3>2, Zenon DEF ProcessDelayed
    <3>4. QED
      BY <2>11, <3>2, <3>3 DEF ProcessDelayed
  <2>12. ASSUME NEW ok \in BOOLEAN, DeliverMsi(ok) PROVE TypeOK'
    BY <2>12, ZenonT(40) DEF DeliverMsi
  <2>13. ASSUME NEW m \in BOOLEAN, NEW ok \in BOOLEAN, GuestWrites(m, ok) PROVE TypeOK'
    <3>1. CASE pin.level /\ ~m
      <4>1. /\ pin' \in [level : BOOLEAN, irr : BOOLEAN, masked : BOOLEAN, locked : BOOLEAN,
                          event : BOOLEAN, routed : BOOLEAN]
            /\ missed' \subseteq {"event", "route", "resample"}
            /\ Injects(m, ok) \in BOOLEAN
        BY <2>13, <3>1, ServedPin, Zenon DEF GuestWrites, WriteEntry
      <4>2. line' \in [trigger : BOOLEAN, resample : BOOLEAN, out : BOOLEAN, delayed : 0..DelayLimit]
        BY <2>13, <3>1, <4>1, Zenon DEF GuestWrites, WriteEntry
      <4>3. QED
        BY <2>13, <4>1, <4>2 DEF GuestWrites
    <3>2. CASE ~(pin.level /\ ~m)
      BY <2>13, <3>2, ZenonT(40) DEF GuestWrites, WriteEntry
    <3>3. QED
      BY <3>1, <3>2
  <2>14. ASSUME NEW event \in BOOLEAN, NEW routed \in BOOLEAN, AnswerRoute(event, routed) PROVE TypeOK'
    <3>1. pin' \in [level : BOOLEAN, irr : BOOLEAN, masked : BOOLEAN, locked : BOOLEAN,
                    event : BOOLEAN, routed : BOOLEAN]
      BY <2>14 DEF AnswerRoute
    <3>2. QED
      BY <2>14, <3>1, Zenon DEF AnswerRoute
  <2>15. CASE EndOfInterrupt
    BY <2>15, Zenon DEF EndOfInterrupt, Resampled
  <2>16. CASE TakeInterrupt
    BY <2>16 DEF TakeInterrupt
  <2>17. CASE ReadStatus
    BY <2>17 DEF ReadStatus
  <2>18. CASE Restore
    <3>1. Range(pm.deferred) \subseteq Bits
      BY DEF Range
    <3>2. pin' \in [level : BOOLEAN, irr : BOOLEAN, masked : BOOLEAN, locked : BOOLEAN,
                    event : BOOLEAN, routed : BOOLEAN]
      BY <2>18, Zenon DEF Restore
    <3>3. <<>> \in Seq(Bits) /\ Len(<<>>) <= DeferLimit
      OBVIOUS
    <3>4. QED
      BY <2>18, <3>1, <3>2, <3>3, ZenonT(40) DEF Restore
  <2>19. CASE UNCHANGED vars
    BY <2>19 DEF vars
  <2>20. ASSUME NEW ok \in BOOLEAN, OtherEnds(ok) PROVE TypeOK'
    <3>1. /\ pin' \in [level : BOOLEAN, irr : BOOLEAN, masked : BOOLEAN, locked : BOOLEAN,
                        event : BOOLEAN, routed : BOOLEAN]
          /\ missed' \subseteq {"event", "route", "resample"}
          /\ Injects(pin.masked, ok) \in BOOLEAN
      BY <2>20, ServedPin, Zenon DEF OtherEnds
    <3>2. line' \in [trigger : BOOLEAN, resample : BOOLEAN, out : BOOLEAN, delayed : 0..DelayLimit]
      BY <2>20, <3>1, Zenon DEF OtherEnds
    <3>3. QED
      BY <2>20, <3>1, <3>2 DEF OtherEnds
  <2> HIDE DEF TypeOK
  <2>21. QED
    BY <2>1, <2>2, <2>3, <2>4, <2>5, <2>6, <2>7, <2>8, <2>9, <2>10,
       <2>11, <2>12, <2>13, <2>14, <2>15, <2>16, <2>17, <2>18, <2>19, <2>20 DEF Next
<1>3. QED
  BY <1>1, <1>2, PTL DEF Spec

\* A service of the pin leaves it in service, masked, or without an interrupt for one
\* of the two reasons that are recorded.
LEMMA ServedEnds ==
    ASSUME TypeOK, InServiceIsEnded,
           NEW m \in BOOLEAN, NEW lk \in BOOLEAN, NEW ok \in BOOLEAN, ServiceIrq(m, lk, ok),
           line'.out = (line.out \/ Injects(m, ok)), guest' = guest
    PROVE  InServiceIsEnded'
<1>1. /\ pin'.level = TRUE /\ pin'.masked = m /\ pin'.irr = (pin.irr \/ Injects(m, ok))
      /\ "route" \in missed => "route" \in missed'
      /\ m \/ pin'.irr \/ "event" \in missed'
  BY ServedPin, Zenon
<1>2. QED
  BY <1>1, Zenon DEF InServiceIsEnded

\* A pin in service is ended by somebody, and an asserted pin that is open is
\* in service, but for the two ways in which an interrupt does not come of a
\* service: Ioapic::service_irq, ioapic_write and end_of_interrupt, with
\* events put off while the ioapic is locked and requests refused.
THEOREM InServiceEnds == Spec => []InServiceIsEnded
<1>1. Init => InServiceIsEnded
  BY SMTT(40) DEF Init, InServiceIsEnded
<1>2. TypeOK /\ InServiceIsEnded /\ [Next]_vars => InServiceIsEnded'
  <2> SUFFICES ASSUME TypeOK, InServiceIsEnded, [Next]_vars PROVE InServiceIsEnded'
    OBVIOUS
  <2>1. pin.masked \in BOOLEAN /\ pin.locked \in BOOLEAN /\ line.out \in BOOLEAN
    BY DEF TypeOK
  <2>2. CASE line'.out = line.out /\ UNCHANGED <<pin, guest, missed>>
    BY <2>2 DEF InServiceIsEnded
  <2>3. ASSUME NEW ok \in BOOLEAN, ServiceEvent(ok) PROVE InServiceIsEnded'
    <3>1. CASE pin.locked
      <4>1. line'.out = line.out /\ UNCHANGED <<pin, guest, missed>>
        BY <2>3, <3>1 DEF ServiceEvent, TypeOK
      <4>2. QED
        BY <2>2, <4>1
    <3>2. CASE ~pin.locked
      <4>1. /\ ServiceIrq(pin.masked, FALSE, ok) /\ guest' = guest
            /\ line'.out = (line.out \/ Injects(pin.masked, ok))
        BY <2>3, <3>2, Zenon DEF ServiceEvent, TypeOK
      <4>2. QED
        BY <2>1, <4>1, ServedEnds, Zenon
    <3>3. QED
      BY <3>1, <3>2
  <2>4. ASSUME NEW ok \in BOOLEAN, ProcessDelayed(ok) \/ OtherEnds(ok) PROVE InServiceIsEnded'
    <3>1. /\ ServiceIrq(pin.masked, FALSE, ok) /\ guest' = guest
          /\ line'.out = (line.out \/ Injects(pin.masked, ok))
      BY <2>4, Zenon DEF ProcessDelayed, OtherEnds, TypeOK
    <3>2. QED
      BY <2>1, <3>1, ServedEnds, Zenon
  <2>5. ASSUME NEW ok \in BOOLEAN, DeliverMsi(ok) PROVE InServiceIsEnded'
    BY <2>5 DEF DeliverMsi, InServiceIsEnded, TypeOK
  <2>6. ASSUME NEW m \in BOOLEAN, NEW ok \in BOOLEAN, GuestWrites(m, ok) PROVE InServiceIsEnded'
    <3>1. CASE pin.level /\ ~m
      <4>1. /\ ServiceIrq(m, TRUE, ok) /\ guest' = guest
            /\ line'.out = (line.out \/ Injects(m, ok))
        BY <2>6, <3>1, Zenon DEF GuestWrites, WriteEntry, TypeOK
      <4>2. QED
        BY <4>1, ServedEnds, Zenon
    <3>2. CASE ~(pin.level /\ ~m)
      <4>1. pin'.level = pin.level /\ pin'.irr = pin.irr /\ pin'.masked = m
        BY <2>6, <3>2, Zenon DEF GuestWrites, WriteEntry, TypeOK
      <4>2. UNCHANGED <<line, guest, missed>>
        BY <2>6, <3>2, Zenon DEF GuestWrites, WriteEntry
      <4>3. QED
        BY <3>2, <4>1, <4>2, Zenon DEF InServiceIsEnded
    <3>3. QED
      BY <3>1, <3>2
  <2>7. ASSUME NEW event \in BOOLEAN, NEW routed \in BOOLEAN, AnswerRoute(event, routed)
        PROVE  InServiceIsEnded'
    BY <2>7, Zenon DEF AnswerRoute, InServiceIsEnded, TypeOK
  <2>8. CASE EndOfInterrupt
    BY <2>8, Zenon DEF EndOfInterrupt, InServiceIsEnded, TypeOK
  <2>9. CASE TakeInterrupt
    BY <2>9 DEF TakeInterrupt, InServiceIsEnded, TypeOK
  <2>10. CASE ReadStatus
    BY <2>10 DEF ReadStatus, InServiceIsEnded, TypeOK
  <2>11. CASE Restore
    <3>1. pin'.irr = pin.irr /\ pin'.level = pin.level /\ pin'.masked = pin.masked
      BY <2>11, Zenon DEF Restore, TypeOK
    <3>2. line'.out = line.out /\ guest' = guest /\ missed \subseteq missed'
      BY <2>11 DEF Restore, TypeOK
    <3>3. QED
      BY <3>1, <3>2, Zenon DEF InServiceIsEnded
  <2>12. CASE \/ \E w \in Workers, b \in Bits : Signal(w, b)
              \/ \E t \in Threads : UpdateStatus(t) \/ Trigger(t)
              \/ \E s \in BOOLEAN : SetSuspended(s) \/ SetWakeup(s)
              \/ Resend \/ ResampleWait \/ ResampleLoad \/ ResampleSignal \/ UNCHANGED vars
    BY <2>2, <2>12, ZenonT(60) DEF TypeOK, Signal, UpdateStatus, Trigger, SetSuspended, SetWakeup, Resend,
       ResampleWait, ResampleLoad, ResampleSignal, vars
  <2>13. QED
    BY <2>3, <2>4, <2>5, <2>6, <2>7, <2>8, <2>9, <2>10, <2>11, <2>12, Zenon DEF Next
<1>3. QED
  BY <1>1, <1>2, TypeCorrect, PTL DEF Spec

\* A status that stands has an interrupt, an end of interrupt or a resample on
\* its way, so that raising the line for the first bit only loses nothing but
\* where a service, a route or a snapshot let the interrupt go.
THEOREM StatusStaysPromised == Spec => []StatusIsPromised
<1>1. Init => StatusIsPromised
  BY SMTT(40) DEF Init, StatusIsPromised
<1>2. TypeOK /\ InServiceIsEnded' /\ StatusIsPromised /\ [Next]_vars => StatusIsPromised'
  <2> SUFFICES ASSUME TypeOK, InServiceIsEnded', StatusIsPromised, [Next]_vars
               PROVE  StatusIsPromised'
    OBVIOUS
  <2> USE DEF TypeOK, StatusIsPromised, Promised
  <2>1. ASSUME NEW m \in BOOLEAN, NEW lk \in BOOLEAN, NEW ok \in BOOLEAN, ServiceIrq(m, lk, ok)
        PROVE  StatusIsPromised'
    <3>1. pin'.level = TRUE
      BY <2>1, ServedPin
    <3>2. QED
      BY <3>1 DEF InServiceIsEnded
  <2>2. ASSUME NEW ok \in BOOLEAN, ServiceEvent(ok) PROVE StatusIsPromised'
    <3>1. CASE pin.locked
      <4>1. line'.delayed = line.delayed + 1
        BY <2>2, <3>1, Zenon DEF ServiceEvent
      <4>2. QED
        BY <4>1
    <3>2. CASE ~pin.locked
      BY <2>1, <2>2, <3>2, Zenon DEF ServiceEvent
    <3>3. QED
      BY <3>1, <3>2
  <2>3. ASSUME NEW ok \in BOOLEAN, ProcessDelayed(ok) \/ OtherEnds(ok) PROVE StatusIsPromised'
    BY <2>1, <2>3, Zenon DEF ProcessDelayed, OtherEnds
  <2>4. ASSUME NEW ok \in BOOLEAN, DeliverMsi(ok) PROVE StatusIsPromised'
    BY <2>4 DEF DeliverMsi
  <2>5. ASSUME NEW m \in BOOLEAN, NEW ok \in BOOLEAN, GuestWrites(m, ok) PROVE StatusIsPromised'
    <3>1. CASE pin.level /\ ~m
      BY <2>1, <2>5, <3>1, Zenon DEF GuestWrites, WriteEntry
    <3>2. CASE ~(pin.level /\ ~m)
      BY <2>5, <3>2, ZenonT(40) DEF GuestWrites, WriteEntry
    <3>3. QED
      BY <3>1, <3>2
  <2>6. ASSUME NEW event \in BOOLEAN, NEW routed \in BOOLEAN, AnswerRoute(event, routed)
        PROVE  StatusIsPromised'
    BY <2>6, Zenon DEF AnswerRoute
  <2>7. CASE EndOfInterrupt
    BY <2>7 DEF EndOfInterrupt, Resampled
  <2>8. CASE TakeInterrupt
    BY <2>8 DEF TakeInterrupt
  <2>9. CASE ReadStatus
    BY <2>9 DEF ReadStatus
  <2>10. CASE Restore
    <3>1. pin'.irr = pin.irr /\ pin'.level = pin.level /\ pin'.masked = pin.masked
      BY <2>10, Zenon DEF Restore
    <3>2. QED
      BY <2>10, <3>1 DEF Restore, Flushed
  <2>11. ASSUME NEW t \in Threads, UpdateStatus(t) PROVE StatusIsPromised'
    BY <2>11 DEF UpdateStatus
  <2>12. ASSUME NEW t \in Threads, Trigger(t) PROVE StatusIsPromised'
    BY <2>12 DEF Trigger
  <2>13. ASSUME NEW w \in Workers, NEW b \in Bits, Signal(w, b) PROVE StatusIsPromised'
    BY <2>13 DEF Signal, Defer
  <2>14. CASE Resend
    BY <2>14 DEF Resend
  <2>15. CASE ResampleWait \/ ResampleLoad \/ ResampleSignal
    BY <2>15 DEF ResampleWait, ResampleLoad, ResampleSignal
  <2>16. CASE (\E s \in BOOLEAN : SetSuspended(s) \/ SetWakeup(s)) \/ UNCHANGED vars
    BY <2>16, Zenon DEF SetSuspended, SetWakeup, vars
  <2> HIDE DEF TypeOK, StatusIsPromised, Promised
  <2>17. QED
    BY <2>2, <2>3, <2>4, <2>5, <2>6, <2>7, <2>8, <2>9, <2>10, <2>11, <2>12, <2>13, <2>14, <2>15,
       <2>16, Zenon DEF Next
<1>3. QED
  BY <1>1, <1>2, TypeCorrect, InServiceEnds, PTL DEF Spec

\* No signal of a device is lost between signal, set_suspended and the read of
\* the status, but for those deferred by a device whose snapshot is restored.
THEOREM SignalsAreKept == Spec => []SignalKept
<1> DEFINE Inv == AwakeHasNone /\ SignalKept
<1>1. Init => Inv
  BY SMTT(40) DEF Init, AwakeHasNone, SignalKept
<1>2. TypeOK /\ Inv /\ [Next]_vars => Inv'
  <2> SUFFICES ASSUME TypeOK, AwakeHasNone, SignalKept, [Next]_vars PROVE Inv'
    OBVIOUS
  <2> USE DEF TypeOK, AwakeHasNone, SignalKept
  <2>1. ASSUME NEW w \in Workers, NEW b \in Bits, Signal(w, b) PROVE Inv'
    <3>1. CASE pm.suspended
      <4>1. pm'.suspended /\ pm'.deferred = Append(pm.deferred, b)
        BY <2>1, <3>1 DEF Signal, Defer
      <4>2. Range(pm.deferred) \subseteq Range(pm'.deferred) /\ b \in Range(pm'.deferred)
        BY <4>1, SetOfAppend
      <4>3. QED
        BY <2>1, <3>1, <4>1, <4>2, SMTT(40) DEF Signal
    <3>2. CASE ~pm.suspended
      BY <2>1, <3>2 DEF Signal
    <3>3. QED
      BY <3>1, <3>2
  <2>2. ASSUME NEW t \in Threads, UpdateStatus(t) PROVE Inv'
    BY <2>2 DEF UpdateStatus
  <2>3. ASSUME NEW t \in Threads, Trigger(t) PROVE Inv'
    BY <2>3 DEF Trigger
  <2>4. ASSUME NEW s \in BOOLEAN, SetSuspended(s) PROVE Inv'
    BY <2>4, SetOfNone DEF SetSuspended, Taken
  <2>5. CASE Resend
    BY <2>5, SetOfTail DEF Resend
  <2>6. ASSUME NEW on \in BOOLEAN, SetWakeup(on) PROVE Inv'
    BY <2>6 DEF SetWakeup
  <2>7. CASE ReadStatus
    BY <2>7 DEF ReadStatus
  <2>8. CASE Restore
    BY <2>8, SetOfNone DEF Restore
  <2>9. CASE UNCHANGED <<pm, resend, status, pc, bit, due, dropped>>
    BY <2>9
  <2>10. \/ \E w \in Workers, b \in Bits : Signal(w, b)
         \/ \E t \in Threads : UpdateStatus(t) \/ Trigger(t)
         \/ \E s \in BOOLEAN : SetSuspended(s) \/ SetWakeup(s)
         \/ Resend \/ ReadStatus \/ Restore
         \/ UNCHANGED <<pm, resend, status, pc, bit, due, dropped>>
    BY ZenonT(60) DEF Next, vars, ResampleWait, ResampleLoad, ResampleSignal, ServiceEvent, ProcessDelayed,
       DeliverMsi, OtherEnds, GuestWrites, AnswerRoute, EndOfInterrupt, TakeInterrupt
  <2> HIDE DEF TypeOK, AwakeHasNone, SignalKept, Inv
  <2>11. QED
    BY <2>1, <2>2, <2>3, <2>4, <2>5, <2>6, <2>7, <2>8, <2>9, <2>10, Zenon
<1>3. Inv => SignalKept
  OBVIOUS
<1>4. QED
  BY <1>1, <1>2, <1>3, TypeCorrect, PTL DEF Spec

\* handle_interrupt, set_wakeup_event_active and set_suspended between them never leave
\* a deferred signal of a device with wakeup on without its wakeup.
THEOREM WakeupIsAsked == Spec => []WakeupAsked
<1>1. Init => WakeupAsked
  BY DEF Init, WakeupAsked
<1>2. TypeOK /\ WakeupAsked /\ [Next]_vars => WakeupAsked'
  <2> SUFFICES ASSUME TypeOK, WakeupAsked, [Next]_vars PROVE WakeupAsked'
    OBVIOUS
  <2> USE DEF TypeOK, WakeupAsked
  <2>1. ASSUME NEW w \in Workers, NEW b \in Bits, Signal(w, b) PROVE WakeupAsked'
    <3>1. CASE pm.suspended
      BY <2>1, <3>1, Zenon DEF Signal, Defer
    <3>2. CASE ~pm.suspended
      BY <2>1, <3>2 DEF Signal
    <3>3. QED
      BY <3>1, <3>2
  <2>2. ASSUME NEW s \in BOOLEAN, SetSuspended(s) PROVE WakeupAsked'
    BY <2>2 DEF SetSuspended
  <2>3. ASSUME NEW on \in BOOLEAN, SetWakeup(on) PROVE WakeupAsked'
    BY <2>3, Zenon DEF SetWakeup
  <2>4. CASE Restore
    BY <2>4 DEF Restore
  <2>5. CASE UNCHANGED <<pm, rung>>
    BY <2>5
  <2>6. \/ \E w \in Workers, b \in Bits : Signal(w, b)
        \/ \E s \in BOOLEAN : SetSuspended(s)
        \/ \E on \in BOOLEAN : SetWakeup(on)
        \/ Restore
        \/ UNCHANGED <<pm, rung>>
    BY Zenon DEF Next, vars, UpdateStatus, Trigger, Resend, ResampleWait, ResampleLoad,
       ResampleSignal, ServiceEvent, ProcessDelayed, DeliverMsi, OtherEnds, GuestWrites, AnswerRoute,
       EndOfInterrupt, TakeInterrupt, ReadStatus
  <2>7. QED
    BY <2>1, <2>2, <2>3, <2>4, <2>5, <2>6
<1>3. QED
  BY <1>1, <1>2, TypeCorrect, PTL DEF Spec

\* The line is sound for any threads and bits, whatever is refused and whatever
\* snapshots are taken: an interrupt goes missing only where the pin was serviced
\* without its event, where the event had no route, or with a snapshot.
THEOREM LineStaysSound == Spec => []LineSound
<1>1. QED
  BY StatusStaysPromised, SignalsAreKept, TypeCorrect, InServiceEnds, WakeupIsAsked, PTL DEF LineSound

-----------------------------------------------------------------------------
(* The MSI-X table, for any messages and any refusals of the hypervisor. *)

USE TableAssumption

\* What the delivery of a pending vector rests on: a vector that is owed or pending has
\* its irq, was triggered before it had one or was opened under the function mask; a
\* pending bit is of a trigger that is owed, and of a vector that is closed, unless it
\* was set before the vector had its irq.
PendingIsClosed ==
    /\ owed \subseteq irq \cup early \cup blind
    /\ pba \subseteq irq \cup early
    /\ pba \subseteq owed \cup early
    /\ \A v \in pba : masked \/ ctl[v] \/ v \in early

-----------------------------------------------------------------------------

\* Every call leaves the configuration well-typed.
THEOREM TableTypeCorrect == Table!Spec => []Table!TypeOK
<1>1. Table!Init => Table!TypeOK
  BY Zenon DEF Table!Init, Table!TypeOK
<1>2. Table!TypeOK /\ [Table!Next]_Table!vars => Table!TypeOK'
  <2> SUFFICES ASSUME Table!TypeOK, [Table!Next]_Table!vars PROVE Table!TypeOK'
    OBVIOUS
  <2> USE DEF Table!TypeOK
  <2>1. ASSUME NEW vs, NEW g \in [Vectors -> Messages], NEW bad, Table!AddMsiRoute(vs, g, bad)
        PROVE  route' \in [Vectors -> Messages]
    BY <2>1 DEF Table!AddMsiRoute
  <2>2. ASSUME NEW e \in BOOLEAN, NEW m \in BOOLEAN, NEW done \in SUBSET Vectors,
               NEW bad \in SUBSET done, Table!WriteCapability(e, m, done, bad)
        PROVE  Table!TypeOK'
    <3>1. route' \in [Vectors -> Messages]
      BY <2>1, <2>2 DEF Table!WriteCapability
    <3>2. /\ enabled' \in BOOLEAN /\ masked' \in BOOLEAN /\ ctl' = ctl /\ msg' = msg
          /\ irq' \subseteq Vectors /\ stale' \subseteq Vectors
      BY <2>2, Zenon DEF Table!WriteCapability
    <3>3. pba' \subseteq Vectors /\ owed' \subseteq Vectors /\ sent' \subseteq Vectors
      BY <2>2, <3>2, Zenon DEF Table!WriteCapability, Table!Inject
    <3>4. early' \subseteq Vectors /\ blind' \subseteq Vectors
      BY <2>2, Zenon DEF Table!WriteCapability, Table!Marks, Table!Unarmed
    <3>5. QED
      BY <3>1, <3>2, <3>3, <3>4
  <2>3. ASSUME NEW v \in Vectors, NEW g \in Messages, NEW c \in BOOLEAN,
               NEW got \in SUBSET {v}, NEW bad \in SUBSET {v}, Table!WriteTable(v, g, c, got, bad)
        PROVE  Table!TypeOK'
    <3>1. /\ enabled' = enabled /\ masked' = masked /\ msg' \in [Vectors -> Messages]
          /\ ctl' \in [Vectors -> BOOLEAN]
      BY <2>3 DEF Table!WriteTable
    <3>2. route' \in [Vectors -> Messages]
      BY <2>1, <2>3, <3>1 DEF Table!WriteTable
    <3>3. irq' \subseteq Vectors
      BY <2>3, Zenon DEF Table!WriteTable
    <3>4. stale' \subseteq Vectors
      BY <2>3, Zenon DEF Table!WriteTable
    <3>5. pba' \subseteq Vectors /\ owed' \subseteq Vectors /\ sent' \subseteq Vectors
      BY <2>3, <3>3, Zenon DEF Table!WriteTable, Table!Inject
    <3>6. early' \subseteq Vectors /\ blind' \subseteq Vectors
      BY <2>3, Zenon DEF Table!WriteTable, Table!Marks, Table!Unarmed
    <3>7. QED
      BY <3>1, <3>2, <3>3, <3>4, <3>5, <3>6
  <2>4. ASSUME NEW v \in Vectors, Table!Trigger(v) PROVE Table!TypeOK'
    <3>1. pba' \subseteq Vectors /\ sent' \subseteq Vectors /\ owed' \subseteq Vectors
      BY <2>4, Zenon DEF Table!Trigger
    <3>2. early' \subseteq Vectors /\ blind' \subseteq Vectors
      BY <2>4, Zenon DEF Table!Trigger
    <3>3. UNCHANGED <<enabled, masked, ctl, msg, irq, route, stale>>
      BY <2>4, Zenon DEF Table!Trigger
    <3>4. QED
      BY <3>1, <3>2, <3>3
  <2>5. CASE Table!Restore
    <3>1. route' \in [Vectors -> Messages]
      BY <2>1, <2>5 DEF Table!Restore
    <3>2. QED
      BY <2>5, <3>1 DEF Table!Restore
  <2>6. CASE UNCHANGED Table!vars
    BY <2>6 DEF Table!vars
  <2> HIDE DEF Table!TypeOK
  <2>7. QED
    BY <2>2, <2>3, <2>4, <2>5, <2>6 DEF Table!Next
<1>3. QED
  BY <1>1, <1>2, PTL DEF Table!Spec

\* An open vector of an enabled function has an irq, or was opened under the function
\* mask: msix_enable_all arms what is open, a first opening arms its vector or masks it
\* again, and nothing takes an irq away.
THEOREM OpenVectorsHaveIrqs == Table!Spec => []Table!OpenHasIrq
<1>1. Table!Init => Table!OpenHasIrq
  BY Zenon DEF Table!Init, Table!OpenHasIrq, Table!Unarmed
<1>2. Table!TypeOK /\ Table!OpenHasIrq /\ [Table!Next]_Table!vars => Table!OpenHasIrq'
  <2> SUFFICES ASSUME Table!TypeOK, Table!OpenHasIrq, [Table!Next]_Table!vars
               PROVE  Table!OpenHasIrq'
    OBVIOUS
  <2> USE DEF Table!OpenHasIrq
  <2>1. ASSUME NEW e \in BOOLEAN, NEW m \in BOOLEAN, NEW done \in SUBSET Vectors,
               NEW bad \in SUBSET done, Table!WriteCapability(e, m, done, bad)
        PROVE  Table!OpenHasIrq'
    <3>1. /\ ctl' = ctl /\ irq' = irq \cup done /\ masked' = m /\ sent' \subseteq irq'
          /\ blind' = (blind \ sent') \cup Table!Unarmed(enabled' /\ masked', ctl', irq')
          /\ enabled' => e /\ done = IF ~enabled /\ ~m THEN Table!Unarmed(e, ctl, irq) ELSE {}
      BY <2>1, Zenon DEF Table!WriteCapability, Table!Inject, Table!Marks
    <3>2. QED
      BY <2>1, <3>1, Zenon DEF Table!Unarmed
  <2>2. ASSUME NEW v \in Vectors, NEW g \in Messages, NEW c \in BOOLEAN,
               NEW got \in SUBSET {v}, NEW bad \in SUBSET {v}, Table!WriteTable(v, g, c, got, bad)
        PROVE  Table!OpenHasIrq'
    <3>1. /\ enabled' = enabled /\ masked' = masked /\ irq \subseteq irq' /\ sent' \subseteq irq'
          /\ blind' = (blind \ sent') \cup Table!Unarmed(enabled' /\ masked', ctl', irq')
      BY <2>2, Zenon DEF Table!WriteTable, Table!Inject, Table!Marks
    <3>2. \A w \in Vectors \ {v} : ctl'[w] = ctl[w]
      BY <2>2 DEF Table!WriteTable, Table!TypeOK
    <3>3. ctl'[v] \/ v \in irq' \/ masked \/ ~enabled \/ ~ctl[v]
      BY <2>2 DEF Table!WriteTable, Table!TypeOK
    <3>4. QED
      BY <3>1, <3>2, <3>3, Zenon DEF Table!Unarmed
  <2>3. ASSUME NEW v \in Vectors, Table!Trigger(v) PROVE Table!OpenHasIrq'
    BY <2>3, Zenon DEF Table!Trigger, Table!Unarmed
  <2>4. CASE Table!Restore
    BY <2>4, Zenon DEF Table!Restore, Table!Unarmed
  <2>5. CASE UNCHANGED Table!vars
    BY <2>5, Zenon DEF Table!vars, Table!Unarmed
  <2>6. QED
    BY <2>1, <2>2, <2>3, <2>4, <2>5 DEF Table!Next
<1>3. QED
  BY <1>1, <1>2, TableTypeCorrect, PTL DEF Table!Spec

\* A write sends pending vectors that it leaves open, and clears a pending bit by sending
\* the vector if it has its irq.
PendingIsSent ==
    /\ \A v \in sent' : v \in pba /\ ~masked' /\ ~ctl'[v]
    /\ \A v \in pba \ pba' : v \in sent' \/ v \notin irq'

\* What an injection keeps: the vectors vs, which are pending, are the ones that a write
\* opens, and irq' is what the write leaves of the irqs.
LEMMA InjectKeeps ==
    ASSUME Table!TypeOK, Table!OwedIsPending, PendingIsClosed,
           NEW vs \in SUBSET pba, Table!Inject(vs, irq'), irq \subseteq irq',
           early' = early \cap (pba' \cup owed'), blind \ sent' \subseteq blind',
           \A v \in pba \ vs : masked \/ ctl[v] => masked' \/ ctl'[v] \/ v \in early
    PROVE  PendingIsClosed' /\ Table!OwedIsPending' /\ \A v \in sent' : v \in vs
<1> USE DEF Table!Inject, PendingIsClosed
<1>1. owed' \subseteq irq' \cup early' \cup blind'
  BY Zenon
<1>2. pba' \subseteq irq' \cup early' /\ pba' \subseteq owed' \cup early'
  BY Zenon
<1>3. \A v \in pba' : masked' \/ ctl'[v] \/ v \in early'
  BY Zenon
<1>4. ASSUME NEW v \in owed'
      PROVE  (v \in pba' /\ (masked' \/ ctl'[v])) \/ v \in early' \cup blind'
  <2>1. v \in owed /\ v \notin sent' /\ (v \in early => v \in early') /\ (v \in blind => v \in blind')
    BY <1>4, Zenon
  <2>2. CASE v \in early \cup blind
    BY <2>1, <2>2, Zenon
  <2>3. CASE v \notin early \cup blind
    <3>1. v \in pba /\ (masked \/ ctl[v]) /\ v \in irq
      BY <2>1, <2>3, Zenon DEF Table!OwedIsPending
    <3>2. v \notin vs
      BY <2>1, <3>1, Zenon
    <3>3. QED
      BY <2>3, <3>1, <3>2, Zenon
  <2>4. QED
    BY <2>2, <2>3
<1>5. QED
  BY <1>1, <1>2, <1>3, <1>4, Zenon DEF Table!OwedIsPending

\* What a write to the capability or to the table does to the pending vectors.
LEMMA WriteKeeps ==
    ASSUME Table!TypeOK, Table!OwedIsPending, PendingIsClosed, Table!Next,
           \A v \in Vectors : ~Table!Trigger(v), ~Table!Restore
    PROVE  PendingIsClosed' /\ Table!OwedIsPending' /\ PendingIsSent
<1>1. ASSUME NEW e \in BOOLEAN, NEW m \in BOOLEAN, NEW done \in SUBSET Vectors,
             NEW bad \in SUBSET done, Table!WriteCapability(e, m, done, bad)
      PROVE  PendingIsClosed' /\ Table!OwedIsPending' /\ PendingIsSent
  <2> DEFINE vs == Table!Flush(m, ctl)
  <2>1. /\ Table!Inject(vs, irq') /\ irq \subseteq irq' /\ early' = early \cap (pba' \cup owed')
        /\ blind \ sent' \subseteq blind' /\ ctl' = ctl /\ masked' = m
    BY <1>1, Zenon DEF Table!WriteCapability, Table!Marks
  <2>2. vs \in SUBSET pba /\ \A v \in vs : ~m /\ ~ctl[v]
    BY Zenon DEF Table!Flush
  <2>3. \A v \in pba \ vs : masked \/ ctl[v] => masked' \/ ctl'[v] \/ v \in early
    BY <2>1, Zenon DEF Table!Flush
  <2>4. \A v \in pba \ pba' : v \in sent' \/ v \notin irq'
    BY <2>1, Zenon DEF Table!Inject
  <2> HIDE DEF vs
  <2>5. PendingIsClosed' /\ Table!OwedIsPending' /\ \A v \in sent' : v \in vs
    BY <2>1, <2>2, <2>3, InjectKeeps, Zenon
  <2>6. QED
    BY <2>1, <2>2, <2>4, <2>5, Zenon DEF PendingIsSent
<1>2. ASSUME NEW v \in Vectors, NEW g \in Messages, NEW c \in BOOLEAN,
             NEW got \in SUBSET {v}, NEW bad \in SUBSET {v}, Table!WriteTable(v, g, c, got, bad)
      PROVE  PendingIsClosed' /\ Table!OwedIsPending' /\ PendingIsSent
  <2> DEFINE first == enabled /\ ~masked /\ v \notin irq /\ ctl[v] /\ ~c
             vs == IF first THEN {} ELSE Table!Pending(v, c)
  <2>1. /\ Table!Inject(vs, irq') /\ irq \subseteq irq' /\ early' = early \cap (pba' \cup owed')
        /\ blind \ sent' \subseteq blind' /\ masked' = masked
    BY <1>2, Zenon DEF Table!WriteTable, Table!Marks, Table!Inject
  <2>2. \A w \in Vectors \ {v} : ctl'[w] = ctl[w]
    BY <1>2 DEF Table!WriteTable, Table!TypeOK
  <2>3. c \/ ~first => ctl'[v] = c
    BY <1>2 DEF Table!WriteTable, Table!TypeOK
  <2>4. vs \in SUBSET pba /\ \A w \in vs : ~masked' /\ ~ctl'[w]
    BY <2>1, <2>3, Zenon DEF Table!Pending
  <2>5. ASSUME NEW w \in pba \ vs, masked \/ ctl[w] PROVE masked' \/ ctl'[w] \/ w \in early
    <3>1. CASE w # v
      BY <2>1, <2>2, <2>5, <3>1, Zenon DEF Table!TypeOK
    <3>2. CASE w = v /\ first
      BY <2>5, <3>2, Zenon DEF PendingIsClosed
    <3>3. CASE w = v /\ ~first
      BY <2>1, <2>3, <2>5, <3>3, Zenon DEF Table!Pending
    <3>4. QED
      BY <3>1, <3>2, <3>3
  <2>6. \A w \in pba \ pba' : w \in sent' \/ w \notin irq'
    BY <2>1, Zenon DEF Table!Inject
  <2> HIDE DEF vs
  <2>7. PendingIsClosed' /\ Table!OwedIsPending' /\ \A w \in sent' : w \in vs
    BY <2>1, <2>4, <2>5, InjectKeeps, Zenon
  <2>8. QED
    BY <2>1, <2>4, <2>6, <2>7, Zenon DEF PendingIsSent
<1>3. QED
  BY <1>1, <1>2 DEF Table!Next

\* write_msix_capability, write_msix_table and trigger between them never forget an
\* interrupt: a vector the device triggered and the guest was not sent is pending and
\* masked, but for the two orders that leave a pending bit behind.
THEOREM OwedStaysPending == Table!Spec => [](PendingIsClosed /\ Table!OwedIsPending)
<1>1. Table!Init => PendingIsClosed /\ Table!OwedIsPending
  BY Zenon DEF Table!Init, PendingIsClosed, Table!OwedIsPending
<1>2. Table!TypeOK /\ PendingIsClosed /\ Table!OwedIsPending /\ [Table!Next]_Table!vars
        => PendingIsClosed' /\ Table!OwedIsPending'
  <2> SUFFICES ASSUME Table!TypeOK, PendingIsClosed, Table!OwedIsPending,
                      [Table!Next]_Table!vars
               PROVE  PendingIsClosed' /\ Table!OwedIsPending'
    OBVIOUS
  <2>1. ASSUME NEW v \in Vectors, Table!Trigger(v)
        PROVE  PendingIsClosed' /\ Table!OwedIsPending'
    <3>1. /\ masked' = masked /\ ctl' = ctl /\ irq' = irq
          /\ early \cap (pba' \cup owed') \subseteq early' /\ blind \ sent' \subseteq blind'
          /\ owed' = (owed \cup {v}) \ sent' /\ (v \notin irq /\ v \notin sent' => v \in early')
      BY <2>1, Zenon DEF Table!Trigger
    <3>2. CASE masked \/ ctl[v]
      <4>1. pba' = pba \cup {v} /\ sent' = {}
        BY <2>1, <3>2, Zenon DEF Table!Trigger, Table!Closed
      <4>2. PendingIsClosed'
        BY <3>1, <3>2, <4>1, Zenon DEF PendingIsClosed
      <4>3. QED
        BY <3>1, <3>2, <4>1, <4>2, Zenon DEF Table!OwedIsPending
    <3>3. CASE ~(masked \/ ctl[v])
      <4>1. pba' = pba /\ sent' = {v} \cap irq
        BY <2>1, <3>3, Zenon DEF Table!Trigger, Table!Closed
      <4>2. PendingIsClosed'
        <5>1. pba' \subseteq irq' \cup early' /\ pba' \subseteq owed' \cup early'
          BY <3>1, <3>3, <4>1, Zenon DEF PendingIsClosed
        <5>2. owed' \subseteq irq' \cup early' \cup blind'
          BY <3>1, <4>1, Zenon DEF PendingIsClosed
        <5>3. QED
          BY <3>1, <4>1, <5>1, <5>2, Zenon DEF PendingIsClosed
      <4>3. ASSUME NEW w \in owed'
            PROVE  (w \in pba' /\ (masked' \/ ctl'[w])) \/ w \in early' \cup blind'
        BY <3>1, <4>1, <4>3, Zenon DEF Table!OwedIsPending
      <4>4. QED
        BY <4>2, <4>3 DEF Table!OwedIsPending
    <3>4. QED
      BY <3>2, <3>3
  <2>2. CASE Table!Restore
    BY <2>2, Zenon DEF Table!Restore, PendingIsClosed, Table!OwedIsPending
  <2>3. CASE UNCHANGED Table!vars
    BY <2>3, Zenon DEF Table!vars, PendingIsClosed, Table!OwedIsPending
  <2>4. QED
    BY <2>1, <2>2, <2>3, WriteKeeps
<1>3. QED
  BY <1>1, <1>2, TableTypeCorrect, PTL DEF Table!Spec

\* A pending bit is cleared by sending the vector, or where there is no irq to send it
\* with; nothing is sent through a masked vector, or that was not triggered.
THEOREM SentThroughOpen == Table!Spec => Table!PendingLeaves /\ Table!SentIsOpen
<1>1. /\ Table!TypeOK /\ PendingIsClosed /\ Table!OwedIsPending
      /\ [Table!Next]_Table!vars
      => [\A v \in pba \ pba' : v \in sent' \/ v \notin irq']_Table!vars
  <2> SUFFICES ASSUME Table!TypeOK, PendingIsClosed, Table!OwedIsPending, Table!Next,
                      NEW v \in pba \ pba'
               PROVE  v \in sent' \/ v \notin irq'
    BY Zenon
  <2>1. CASE \E w \in Vectors : Table!Trigger(w)
    BY <2>1, Zenon DEF Table!Trigger
  <2>2. CASE Table!Restore
    BY <2>2, Zenon DEF Table!Restore
  <2>3. QED
    BY <2>1, <2>2, WriteKeeps DEF PendingIsSent
<1>2. /\ Table!TypeOK /\ PendingIsClosed /\ Table!OwedIsPending
      /\ [Table!Next]_Table!vars
      => [\A v \in sent' : ~masked' /\ ~ctl'[v] /\ (v \in owed \/ enabled \/ v \in early)]_Table!vars
  <2> SUFFICES ASSUME Table!TypeOK, PendingIsClosed, Table!OwedIsPending, Table!Next,
                      NEW v \in sent'
               PROVE  ~masked' /\ ~ctl'[v] /\ (v \in owed \/ enabled \/ v \in early)
    BY Zenon
  <2>1. CASE \E w \in Vectors : Table!Trigger(w)
    <3>1. PICK w \in Vectors : Table!Trigger(w)
      BY <2>1
    <3>2. enabled /\ masked' = masked /\ ctl' = ctl /\ v = w /\ ~Table!Closed(w)
      BY <3>1, Zenon DEF Table!Trigger
    <3>3. QED
      BY <3>2, Zenon DEF Table!Closed
  <2>2. CASE Table!Restore
    BY <2>2, Zenon DEF Table!Restore
  <2>3. CASE (\A w \in Vectors : ~Table!Trigger(w)) /\ ~Table!Restore
    <3>1. v \in pba /\ ~masked' /\ ~ctl'[v]
      BY <2>3, WriteKeeps DEF PendingIsSent
    <3>2. QED
      BY <3>1, Zenon DEF PendingIsClosed
  <2>4. QED
    BY <2>1, <2>2, <2>3
<1>3. QED
  BY <1>1, <1>2, TableTypeCorrect, OwedStaysPending, PTL
  DEF Table!Spec, Table!PendingLeaves, Table!SentIsOpen

\* What add_msi_route leaves as the route of a vector.
LEMMA RouteTold ==
    ASSUME NEW vs, NEW g, NEW bad, Table!AddMsiRoute(vs, g, bad)
    PROVE  \A v \in Vectors : /\ v \in vs \ bad => route'[v] = g[v] \/ g[v] = 0
                              /\ v \notin vs => route'[v] = route[v]
BY DEF Table!AddMsiRoute

\* The message a vector sends is the one in the table, unless it changed with MSI-X
\* disabled or the hypervisor refused the route: every other write tells the route.
THEOREM RoutesStayCurrent == Table!Spec => []Table!RouteIsCurrent
<1>1. Table!Init => Table!RouteIsCurrent
  BY Zenon DEF Table!Init, Table!RouteIsCurrent
<1>2. Table!TypeOK /\ Table!RouteIsCurrent /\ [Table!Next]_Table!vars => Table!RouteIsCurrent'
  <2> SUFFICES ASSUME Table!TypeOK, Table!RouteIsCurrent, [Table!Next]_Table!vars
               PROVE  Table!RouteIsCurrent'
    OBVIOUS
  <2> USE DEF Table!RouteIsCurrent
  <2>1. ASSUME NEW e \in BOOLEAN, NEW m \in BOOLEAN, NEW done \in SUBSET Vectors,
               NEW bad \in SUBSET done, Table!WriteCapability(e, m, done, bad)
        PROVE  Table!RouteIsCurrent'
    <3>1. /\ irq' = irq \cup done /\ msg' = msg /\ stale' = (stale \ done) \cup bad
          /\ Table!AddMsiRoute(done, msg, bad)
      BY <2>1, Zenon DEF Table!WriteCapability
    <3>2. irq' \subseteq Vectors
      BY <2>1, <3>1, Zenon DEF Table!TypeOK
    <3>3. \A v \in Vectors : /\ v \in done \ bad => route'[v] = msg[v] \/ msg[v] = 0
                             /\ v \notin done => route'[v] = route[v]
      BY <3>1, RouteTold
    <3>4. ASSUME NEW v \in irq' PROVE route'[v] = msg'[v] \/ msg'[v] = 0 \/ v \in stale'
      <4>1. CASE v \in done
        <5>1. v \in bad => v \in stale'
          BY <3>1, Zenon
        <5>2. v \notin bad => route'[v] = msg[v] \/ msg[v] = 0
          BY <3>2, <3>3, <3>4, <4>1, Zenon
        <5>3. QED
          BY <3>1, <5>1, <5>2
      <4>2. CASE v \notin done
        BY <3>1, <3>2, <3>3, <3>4, <4>2, Zenon
      <4>3. QED
        BY <4>1, <4>2
    <3>5. QED
      BY <3>4
  <2>2. ASSUME NEW v \in Vectors, NEW g \in Messages, NEW c \in BOOLEAN,
               NEW got \in SUBSET {v}, NEW bad \in SUBSET {v}, Table!WriteTable(v, g, c, got, bad)
        PROVE  Table!RouteIsCurrent'
    <3> DEFINE first == enabled /\ ~masked /\ v \notin irq /\ ctl[v] /\ ~c
               told == IF first THEN {v} \cap got ELSE Table!Rewritten(v, g)
    <3>1. Table!AddMsiRoute(told, msg', bad) /\ told \subseteq {v}
      BY <2>2, Zenon DEF Table!WriteTable, Table!Rewritten
    <3>2. /\ told \subseteq {v}
          /\ \A w \in Vectors : /\ w \in told \ bad => route'[w] = msg'[w] \/ msg'[w] = 0
                                /\ w \notin told => route'[w] = route[w]
      <4> HIDE DEF told
      <4>1. QED
        BY <3>1, RouteTold
    <3>3. msg'[v] = g /\ \A w \in Vectors \ {v} : msg'[w] = msg[w]
      BY <2>2 DEF Table!WriteTable, Table!TypeOK
    <3>4. irq' = (IF first THEN irq \cup got ELSE irq) /\ irq' \subseteq irq \cup {v}
      BY <2>2, Zenon DEF Table!WriteTable
    <3>5. /\ stale' = (IF ~enabled /\ v \in irq /\ msg[v] # g THEN stale \cup {v} ELSE stale \ told)
                      \cup bad
          /\ stale \ {v} \subseteq stale'
      BY <2>2, <3>2, Zenon DEF Table!WriteTable
    <3>6. ASSUME NEW w \in irq', w # v
          PROVE  route'[w] = msg'[w] \/ msg'[w] = 0 \/ w \in stale'
      <4>1. w \in irq /\ w \in Vectors /\ w \notin told
        BY <3>2, <3>4, <3>6, Zenon DEF Table!TypeOK
      <4>2. route'[w] = route[w] /\ msg'[w] = msg[w]
        BY <3>2, <3>3, <3>6, <4>1, Zenon
      <4>3. QED
        BY <3>5, <3>6, <4>1, <4>2, Zenon
    <3>7. ASSUME v \in irq' PROVE route'[v] = g \/ g = 0 \/ v \in stale'
      <4>1. CASE v \in told
        <5> HIDE DEF told
        <5>1. v \in bad => v \in stale'
          BY <3>5, Zenon
        <5>2. v \notin bad => route'[v] = g \/ g = 0
          BY <3>2, <3>3, <4>1, Zenon
        <5>3. QED
          BY <5>1, <5>2
      <4>2. CASE v \notin told
        <5>1. route'[v] = route[v] /\ v \in irq
          BY <3>2, <3>4, <3>7, <4>2, Zenon
        <5>2. msg[v] = g \/ ~enabled
          BY <4>2, <5>1, Zenon DEF Table!Rewritten
        <5>3. QED
          BY <3>5, <4>2, <5>1, <5>2, Zenon
      <4>3. QED
        BY <4>1, <4>2
    <3>8. QED
      BY <3>3, <3>6, <3>7, Zenon
  <2>3. ASSUME NEW v \in Vectors, Table!Trigger(v) PROVE Table!RouteIsCurrent'
    BY <2>3, Zenon DEF Table!Trigger
  <2>4. CASE Table!Restore
    <3>1. irq' = irq /\ msg' = msg /\ Table!AddMsiRoute(irq, msg, {}) /\ irq \subseteq Vectors
      BY <2>4, Zenon DEF Table!Restore, Table!TypeOK
    <3>2. \A v \in Vectors : v \in irq => route'[v] = msg[v] \/ msg[v] = 0
      <4>1. \A v \in Vectors : v \in irq \ {} => route'[v] = msg[v] \/ msg[v] = 0
        BY <3>1, RouteTold
      <4>2. QED
        BY <4>1, Zenon
    <3>3. QED
      BY <3>1, <3>2, Zenon
  <2>5. CASE UNCHANGED Table!vars
    BY <2>5, Zenon DEF Table!vars
  <2> HIDE DEF Table!RouteIsCurrent
  <2>6. QED
    BY <2>1, <2>2, <2>3, <2>4, <2>5 DEF Table!Next
<1>3. QED
  BY <1>1, <1>2, TableTypeCorrect, PTL DEF Table!Spec

\* The table is sound for every guest, device and hypervisor: what is owed is pending,
\* what is sent goes through an open vector with the present message, but for the orders
\* that the histories record.
THEOREM MsixStaysSound == Table!Spec => MsixSound
BY TableTypeCorrect, OpenVectorsHaveIrqs, OwedStaysPending, SentThroughOpen, RoutesStayCurrent, PTL
DEF MsixSound, Table!MsixSound
=============================================================================
