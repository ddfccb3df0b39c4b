---------------------------- MODULE MCInterrupts ----------------------------
(***************************************************************************)
(* The interrupts of a device, for TLC: a behaviour runs the line or the   *)
(* table.  The line is run with one bit and everything that may fail and   *)
(* be restored, and with two bits that overtake each other while nothing   *)
(* is restored or asks for a wakeup.  The messages of the table are        *)
(* written to one of its vectors.                                          *)
(***************************************************************************)
EXTENDS Interrupts

VARIABLE part       \* the one that runs

tableVars == <<enabled, masked, ctl, msg, pba, irq, route, owed, sent, early, blind, stale>>

OneBit == INSTANCE IrqLine WITH Bits <- {CHOOSE b \in Bits : TRUE}
TwoBits == INSTANCE IrqLine WITH MayRestore <- FALSE

PartsInit == part \in {"line", "two bits", "table"} /\ Init /\ Table!Init

PartsNext ==
    /\ UNCHANGED part
    /\ \/ part = "line" /\ OneBit!Next /\ UNCHANGED tableVars
       \/ part = "two bits" /\ TwoBits!Next /\ ~pm'.wakeup /\ UNCHANGED tableVars
       \/ part = "table" /\ Table!Next /\ (\A v \in Vectors \ {0} : msg'[v] = 0) /\ UNCHANGED vars

Line(A) == part # "table" /\ A

\* Every thread of the line runs, the guest unmasks its pin and handles its interrupts.
\* The lock of the ioapic is free again and again.
LineFairness ==
    /\ \A t \in Threads : WF_vars(Line(UpdateStatus(t))) /\ WF_vars(Line(Trigger(t)))
    /\ WF_vars(Line(ResampleWait)) /\ WF_vars(Line(ResampleLoad))
    /\ WF_vars(Line(ResampleSignal)) /\ WF_vars(Line(\E ok \in BOOLEAN : ServiceEvent(ok)))
    /\ SF_vars(Line(\E ok \in BOOLEAN : ProcessDelayed(ok)))
    /\ WF_vars(Line(\E ok \in BOOLEAN : DeliverMsi(ok)))
    /\ WF_vars(Line(\E event, routed \in BOOLEAN : AnswerRoute(event, routed)))
    /\ SF_vars(Line(EndOfInterrupt))
    /\ WF_vars(Line(Resend)) /\ WF_vars(Line(TakeInterrupt)) /\ SF_vars(Line(ReadStatus))
    /\ SF_vars(Line(pin.masked /\ \E ok \in BOOLEAN : GuestWrites(FALSE, ok)))
    /\ WF_vars(Line(SetSuspended(FALSE)))

PartsSpec == PartsInit /\ [][PartsNext]_<<part, vars, tableVars>> /\ LineFairness
=============================================================================
