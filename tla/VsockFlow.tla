----------------------------- MODULE VsockFlow -----------------------------
(* One open connection of the Windows vsock device (vsock.rs): the bytes a    *)
(* host service writes to the named pipe and the guest's bytes on their way   *)
(* to it, with the credit both sides keep, until the pipe is closed or breaks *)
(* (HostPorts has what becomes of the port). process_rx_queue and the packet    *)
(* handler of the port are futures of one executor that meet at the lock on   *)
(* `connections`; both hold it while they wait for a descriptor of the rx     *)
(* queue. virtio_sleep stops the worker in the order of Worker::run and keeps *)
(* the connection for virtio_wake. Counters on the wire are modulo Mod.       *)
EXTENDS Integers, Sequences, SequencesExt, FiniteSetsExt

CONSTANTS
    Mod,            \* 2^32: fwd_cnt is a u32 on the wire
    Temp,           \* TEMP_READ_BUF_SIZE_BYTES, the most one read returns
    Chunks,         \* how much the service's writes carry, up to Temp
    PeerBuf,        \* the guest's buf_alloc
    BufAlloc,       \* ours
    Lens,           \* how much the guest's packets carry
    RxQueue,        \* descriptors the guest provides in the rx queue
    ChannelSize,    \* CHANNEL_SIZE, packets kept for the port
    HostBytes,      \* bound: bytes the service writes
    GuestBytes,     \* bound: bytes the guest sends
    MaySleep        \* the device is put to sleep once

VARIABLES
    conn,       \* the counters of VsockConnection
    read,       \* the overlapped read: "reading", "ready", "closed", "none"
    chunk,      \* what it returned
    rx,         \* process_rx_queue: "top", "select", "ready", "write", "done"
    tx,         \* process_tx_packets_for_port: where it is and the bytes it writes
    lock,       \* who holds `connections`
    stop,       \* the worker: "run", "rx" (waits for rx_handler), "asleep"; "ended" for
                \* this connection, "aborted" with crosvm
    stopRx,     \* rx_handler's oneshot has a value
    avail,      \* packets in the tx queue
    pkts,       \* packets taken from it, in the channel of the port
    toGuest,    \* used descriptors of the rx queue
    guest,      \* the guest's own counters
    sent,       \* bytes the service has written to the pipe
    slept,
    \* history
    dropped     \* a packet found the channel of the port full

vars == <<conn, read, chunk, rx, tx, lock, stop, stopRx, avail, pkts, toGuest,
          guest, sent, slept, dropped>>
stopVars == <<stop, stopRx, slept>>

Ops == {"RW", "CREDIT_UPDATE", "CREDIT_REQUEST"}
Packets == [op : Ops, len : {0} \cup 1..BufAlloc, fwd : 0..(Mod - 1)]
Bytes(q) == FoldSeq(LAMBDA p, n : p.len + n, 0, q)

TypeOK ==
    /\ conn \in [tx_cnt : 0..HostBytes, peer_recv_cnt : 0..(Mod - 1),
                 recv_cnt : 0..GuestBytes, prev_recv_cnt : 0..GuestBytes]
    /\ read \in {"reading", "ready", "closed", "none"} /\ chunk \in 0..Temp
    /\ rx \in {"top", "select", "ready", "write", "done"}
    /\ tx \in [pc : {"idle", "writing", "check", "update", "credit"}, len : 0..BufAlloc]
    /\ lock \in {"free", "rx", "tx"}
    /\ stop \in {"run", "rx", "asleep", "ended", "aborted"} /\ stopRx \in BOOLEAN
    /\ avail \in Seq(Packets) /\ pkts \in Seq(Packets) /\ Len(pkts) <= ChannelSize
    /\ toGuest \in Seq([len : 0..Temp, fwd : 0..(Mod - 1)]) /\ Len(toGuest) <= RxQueue
    /\ guest \in [tx : 0..GuestBytes, peer_fwd : 0..(Mod - 1), held : 0..HostBytes,
                  fwd : 0..HostBytes, told : 0..HostBytes, asked : BOOLEAN]
    /\ sent \in 0..HostBytes /\ slept \in BOOLEAN /\ dropped \in BOOLEAN

Init ==
    /\ conn = [tx_cnt |-> 0, peer_recv_cnt |-> 0, recv_cnt |-> 0, prev_recv_cnt |-> 0]
    /\ read = "reading" /\ chunk = 0 /\ rx = "top"
    /\ tx = [pc |-> "idle", len |-> 0]
    /\ lock = "free" /\ stop = "run" /\ stopRx = FALSE
    /\ avail = <<>> /\ pkts = <<>> /\ toGuest = <<>>
    /\ guest = [tx |-> 0, peer_fwd |-> 0, held |-> 0, fwd |-> 0, told |-> 0, asked |-> FALSE]
    /\ sent = 0 /\ slept = FALSE /\ dropped = FALSE

-----------------------------------------------------------------------------
(* The service and the guest's driver and program.                           *)

HostWrite ==
    /\ read = "reading"
    /\ \E n \in Chunks : sent + n <= HostBytes /\ chunk' = n /\ sent' = sent + n
    /\ read' = "ready"
    /\ UNCHANGED <<conn, rx, tx, lock, stopVars, avail, pkts, toGuest, guest, dropped>>

\* The pipe is closed or breaks, or what is read fails the checks of its owner: the
\* lease, the service's liveness, the frame.
HostClose ==
    /\ read = "reading"
    /\ read' = "closed"
    /\ UNCHANGED <<conn, chunk, rx, tx, lock, stopVars, avail, pkts, toGuest, guest, sent, dropped>>

Credit == BufAlloc - ((guest.tx - guest.peer_fwd) % Mod)

Packet(op, n) == [op |-> op, len |-> n, fwd |-> guest.fwd % Mod]

GuestUnchanged == UNCHANGED <<conn, read, chunk, rx, tx, lock, stopVars, pkts, sent, dropped>>

GuestSend(n) ==
    /\ n <= Credit /\ guest.tx + n <= GuestBytes
    /\ avail' = Append(avail, Packet("RW", n))
    /\ guest' = [guest EXCEPT !.tx = @ + n, !.told = guest.fwd]
    /\ UNCHANGED toGuest /\ GuestUnchanged

\* A driver that is out of credit may ask for an update.
GuestAsk ==
    /\ Credit = 0 /\ ~guest.asked
    /\ avail' = Append(avail, Packet("CREDIT_REQUEST", 0))
    /\ guest' = [guest EXCEPT !.asked = TRUE]
    /\ UNCHANGED toGuest /\ GuestUnchanged

GuestReceive ==
    /\ toGuest # <<>>
    /\ guest' = [guest EXCEPT !.peer_fwd = Head(toGuest).fwd, !.held = @ + Head(toGuest).len,
                              !.asked = FALSE]
    /\ toGuest' = Tail(toGuest)
    /\ UNCHANGED avail /\ GuestUnchanged

\* The program reads, and the driver tells the device about the room.
GuestRead ==
    /\ guest.held > 0
    /\ guest' = [guest EXCEPT !.fwd = @ + guest.held, !.held = 0]
    /\ UNCHANGED <<avail, toGuest>> /\ GuestUnchanged

GuestUpdate ==
    /\ guest.told # guest.fwd
    /\ avail' = Append(avail, Packet("CREDIT_UPDATE", 0))
    /\ guest' = [guest EXCEPT !.told = guest.fwd]
    /\ UNCHANGED toGuest /\ GuestUnchanged

-----------------------------------------------------------------------------
(* process_rx_queue. overflow-checks are on and a panic aborts crosvm: a      *)
(* difference below zero ends the process.                                    *)

Up == stop \in {"run", "rx"}
RxUnchanged == UNCHANGED <<tx, avail, pkts, guest, sent, stopRx, slept, dropped>>

\* The loop collects the events of the connections under the lock, waits for one
\* of them or for the stop, and takes the lock again.
RxCollect ==
    /\ rx = "top" /\ Up /\ lock = "free" /\ rx' = "select"
    /\ UNCHANGED <<conn, read, chunk, lock, toGuest, stop>> /\ RxUnchanged

RxReady ==
    /\ rx = "select" /\ Up /\ read \in {"ready", "closed"} /\ rx' = "ready"
    /\ UNCHANGED <<conn, read, chunk, lock, toGuest, stop>> /\ RxUnchanged

\* tx_cnt counts on, peer_recv_cnt is what was on the wire.
InFlight == conn.tx_cnt - conn.peer_recv_cnt
RxLocked == rx = "ready" /\ Up /\ lock = "free"

RxAbort ==
    /\ RxLocked /\ InFlight \notin 0..PeerBuf
    /\ stop' = "aborted"
    /\ UNCHANGED <<conn, read, chunk, rx, lock, toGuest>> /\ RxUnchanged

RxNoRoom ==
    /\ RxLocked /\ InFlight \in 0..PeerBuf /\ PeerBuf - InFlight < Temp
    /\ rx' = "top"
    /\ UNCHANGED <<conn, read, chunk, lock, toGuest, stop>> /\ RxUnchanged

RxRoom == RxLocked /\ InFlight \in 0..PeerBuf /\ PeerBuf - InFlight >= Temp

\* The end of the pipe, or an error, is looked at only when the guest has room: the
\* connection is retired, or the handler returns the error.
RxEnds ==
    /\ RxRoom /\ read = "closed"
    /\ stop' = "ended" /\ rx' = "done"
    /\ UNCHANGED <<conn, read, chunk, lock, toGuest>> /\ RxUnchanged

Full == Len(toGuest) = RxQueue
\* Mutant: bytes still being written to the pipe are counted.
HeaderEager(n) == [len |-> n, fwd |-> (conn.recv_cnt + tx.len) % Mod]

Header(n) == [len |-> n, fwd |-> conn.recv_cnt % Mod]

\* A descriptor is there: write_bytes_to_queue does not wait.
Deliver ==
    /\ ~Full
    /\ toGuest' = Append(toGuest, Header(chunk))
    /\ conn' = [conn EXCEPT !.tx_cnt = @ + chunk, !.prev_recv_cnt = conn.recv_cnt]
    /\ chunk' = 0 /\ read' = "reading" /\ lock' = "free" /\ rx' = "top"
    /\ RxUnchanged

RxDeliver == RxRoom /\ read = "ready" /\ Deliver /\ UNCHANGED stop

RxWait ==
    /\ RxRoom /\ read = "ready" /\ Full
    /\ conn' = [conn EXCEPT !.prev_recv_cnt = conn.recv_cnt]
    /\ read' = "none" /\ lock' = "rx" /\ rx' = "write"
    /\ UNCHANGED <<chunk, toGuest, stop>> /\ RxUnchanged

\* What the loop does with the lock taken again.
RxLook == RxAbort \/ RxNoRoom \/ RxEnds \/ RxDeliver \/ RxWait

RxWrite == rx = "write" /\ Up /\ Deliver /\ UNCHANGED stop

\* The stop arrives while the queue is full: `break` leaves the loop over the
\* ready ports only, and the oneshot has given its value.
RxStopWriting ==
    /\ rx = "write" /\ Up /\ stopRx /\ Full
    /\ chunk' = 0 /\ lock' = "free" /\ rx' = "top" /\ stopRx' = FALSE
    /\ UNCHANGED <<conn, read, tx, stop, slept, avail, pkts, toGuest, guest, sent, dropped>>

RxStop ==
    /\ rx = "select" /\ Up /\ stopRx
    /\ rx' = "done" /\ stopRx' = FALSE
    /\ UNCHANGED <<conn, read, chunk, tx, lock, stop, slept, avail, pkts, toGuest, guest, sent,
                   dropped>>

-----------------------------------------------------------------------------
(* process_tx_queue, process_tx_packets and handle_tx_packet. They are polled *)
(* while the worker runs and, in its stop, once rx_handler has returned.      *)

TxPolled == stop = "run" \/ (stop = "rx" /\ rx = "done")
TxUnchanged == UNCHANGED <<read, chunk, rx, stopVars, guest, sent, dropped>>

\* try_send: a packet that finds the channel full is dropped.
TrySend(p) ==
    IF Len(pkts) < ChannelSize THEN pkts' = Append(pkts, p) /\ UNCHANGED dropped
                               ELSE dropped' = TRUE /\ UNCHANGED pkts

Forward ==
    /\ TxPolled /\ avail # <<>>
    /\ avail' = Tail(avail) /\ TrySend(Head(avail))
    /\ UNCHANGED <<conn, tx, lock, toGuest, read, chunk, rx, stopVars, guest, sent>>

NextPacket(op) == TxPolled /\ tx.pc = "idle" /\ pkts # <<>> /\ Head(pkts).op = op /\ lock = "free"

HandleGuestData ==
    /\ NextPacket("RW")
    /\ conn' = [conn EXCEPT !.peer_recv_cnt = Head(pkts).fwd]
    /\ tx' = [pc |-> "writing", len |-> Head(pkts).len]
    /\ pkts' = Tail(pkts)
    /\ UNCHANGED <<lock, avail, toGuest>> /\ TxUnchanged

CreditUpdate ==
    /\ NextPacket("CREDIT_UPDATE")
    /\ conn' = [conn EXCEPT !.peer_recv_cnt = Head(pkts).fwd]
    /\ pkts' = Tail(pkts)
    /\ UNCHANGED <<tx, lock, avail, toGuest>> /\ TxUnchanged

CreditRequest ==
    /\ NextPacket("CREDIT_REQUEST")
    /\ tx' = [tx EXCEPT !.pc = "update"]
    /\ pkts' = Tail(pkts)
    /\ UNCHANGED <<conn, lock, avail, toGuest>> /\ TxUnchanged

\* write_owned has ended: the bytes are in the pipe.
Written ==
    /\ TxPolled /\ tx.pc = "writing" /\ lock = "free"
    /\ conn' = [conn EXCEPT !.recv_cnt = @ + tx.len]
    /\ tx' = [pc |-> "check", len |-> 0]
    /\ UNCHANGED <<lock, avail, pkts, toGuest>> /\ TxUnchanged

OurFree == BufAlloc - (conn.recv_cnt - conn.prev_recv_cnt)

Threshold == BufAlloc \div 10

CheckFreeBufferThreshold ==
    /\ TxPolled /\ tx.pc = "check" /\ lock = "free"
    /\ stop' = IF OurFree < 0 THEN "aborted" ELSE stop
    /\ tx' = [tx EXCEPT !.pc = IF OurFree < Threshold THEN "update" ELSE "idle"]
    /\ UNCHANGED <<conn, lock, avail, pkts, toGuest, read, chunk, rx, stopRx, slept, guest, sent,
                   dropped>>

Told == [conn EXCEPT !.prev_recv_cnt = conn.recv_cnt]

SendCreditUpdate ==
    /\ TxPolled /\ tx.pc = "update" /\ lock = "free" /\ ~Full
    /\ conn' = Told /\ toGuest' = Append(toGuest, Header(0))
    /\ tx' = [tx EXCEPT !.pc = "idle"]
    /\ UNCHANGED <<lock, avail, pkts>> /\ TxUnchanged

\* Mutant: an update that finds no descriptor is given up.
WaitToUpdateNever ==
    /\ TxPolled /\ tx.pc = "update" /\ lock = "free" /\ Full
    /\ conn' = Told
    /\ tx' = [tx EXCEPT !.pc = "idle"]
    /\ UNCHANGED <<lock, avail, pkts, toGuest>> /\ TxUnchanged

WaitToUpdate ==
    /\ TxPolled /\ tx.pc = "update" /\ lock = "free" /\ Full
    /\ conn' = Told
    /\ lock' = "tx" /\ tx' = [tx EXCEPT !.pc = "credit"]
    /\ UNCHANGED <<avail, pkts, toGuest>> /\ TxUnchanged

WriteCreditUpdate ==
    /\ TxPolled /\ tx.pc = "credit" /\ ~Full
    /\ toGuest' = Append(toGuest, Header(0))
    /\ lock' = "free" /\ tx' = [tx EXCEPT !.pc = "idle"]
    /\ UNCHANGED <<conn, avail, pkts>> /\ TxUnchanged

-----------------------------------------------------------------------------
(* virtio_sleep and virtio_wake. Worker::run awaits rx_handler before the     *)
(* packet handler, whose futures and channels end with it.                    *)

Sleep ==
    /\ MaySleep /\ ~slept /\ stop = "run"
    /\ stop' = "rx" /\ stopRx' = TRUE /\ slept' = TRUE
    /\ UNCHANGED <<conn, read, chunk, rx, tx, lock, avail, pkts, toGuest, guest, sent, dropped>>

Stopped ==
    /\ stop = "rx" /\ rx = "done"
    /\ stop' = "asleep" /\ pkts' = <<>>
    /\ tx' = [pc |-> "idle", len |-> 0]
    /\ lock' = "free"
    /\ UNCHANGED <<conn, read, chunk, rx, stopRx, slept, avail, toGuest, guest, sent, dropped>>

Wake ==
    /\ stop = "asleep"
    /\ stop' = "run" /\ rx' = "top"
    /\ UNCHANGED <<conn, read, chunk, tx, lock, stopRx, slept, avail, pkts, toGuest, guest,
                   sent, dropped>>

Tx == \/ HandleGuestData \/ CreditUpdate \/ CreditRequest \/ Written
      \/ CheckFreeBufferThreshold \/ SendCreditUpdate \/ WaitToUpdate

Next ==
    \/ HostWrite \/ HostClose \/ GuestAsk \/ GuestReceive \/ GuestRead \/ GuestUpdate
    \/ \E n \in Lens : GuestSend(n)
    \/ RxCollect \/ RxReady \/ RxLook \/ RxWrite \/ RxStopWriting \/ RxStop
    \/ Forward \/ Tx \/ WriteCreditUpdate
    \/ Sleep \/ Stopped \/ Wake

Spec == Init /\ [][Next]_vars

\* The executor polls what was woken; whoever waits for the lock gets it in the
\* end (AsyncRwLock); the driver returns descriptors and the program reads.
Fairness ==
    /\ WF_vars(GuestReceive) /\ WF_vars(GuestRead) /\ WF_vars(GuestUpdate)
    /\ SF_vars(RxCollect) /\ WF_vars(RxReady) /\ SF_vars(RxLook)
    /\ SF_vars(RxWrite) /\ WF_vars(RxStopWriting) /\ SF_vars(RxStop)
    /\ WF_vars(Forward) /\ SF_vars(Tx) /\ SF_vars(WriteCreditUpdate)
    /\ WF_vars(Stopped) /\ WF_vars(Wake)

FairSpec == Spec /\ Fairness

-----------------------------------------------------------------------------
(* The device never sends the guest more than the guest has room for: what    *)
(* waits in the rx queue and what the program has not read fit in the guest's *)
(* buf_alloc, with the credit checked before a read of unknown length         *)
(* (process_rx_queue) and updates that arrive late.                           *)
PeerNotOverrun == guest.held + Bytes(toGuest) <= PeerBuf

(* A guest that keeps to the credit it was given never has more than our      *)
(* buf_alloc on the way to the pipe: recv_cnt counts bytes only once they are *)
(* in the pipe (handle_vsock_guest_data), whichever header carries it, also   *)
(* when the counters wrap.                                                    *)
HostNotOverrun == Bytes(avail) + Bytes(pkts) + tx.len <= BufAlloc

(* Every byte is in exactly one place: what the service wrote is with the     *)
(* guest, in the read buffer or about to be written to the queue; what the    *)
(* guest sent is in the pipe, being written, or in a queue. Bytes go missing  *)
(* only when a packet finds the channel of its port full, or over a sleep.    *)
NothingLost ==
    dropped \/ slept \/
    /\ sent = conn.tx_cnt + chunk
    /\ guest.tx = conn.recv_cnt + Bytes(avail) + Bytes(pkts) + tx.len

(* The traffic of a guest that keeps to its credit takes a difference of      *)
(* counters below zero, which aborts crosvm, in one way only: the guest has   *)
(* read a whole wrap of its u32 counter, and tx_cnt, which is wider, has not  *)
(* wrapped with it (process_rx_queue).                                        *)
AbortsOnlyByWrap ==
    /\ stop = "aborted" => guest.fwd >= Mod
    /\ OurFree >= 0

Over == stop \in {"ended", "aborted"}

(* A guest without credit gets credit again, by an update that crosses the    *)
(* threshold or with data that flows the other way, unless a packet of its    *)
(* own was dropped.                                                           *)
GuestMaySendAgain == (Credit = 0) ~> (Credit > 0 \/ dropped \/ Over)

(* What the service has written reaches the guest's program, also when the    *)
(* guest was full and its update comes late, unless that update was dropped.  *)
HostDataArrives == []<>(guest.fwd = sent \/ dropped \/ Over)

(* The end of the pipe is noticed, although it is looked at only when the     *)
(* guest has room.                                                            *)
EndIsNoticed == (read = "closed") ~> (dropped \/ Over)

(* A request to stop the worker is granted: virtio_sleep returns. The code    *)
(* does not keep this when the signal reaches the loop that waits for a       *)
(* descriptor, which consumes it.                                             *)
StopCompletes == (stop = "rx") ~> (stop = "asleep")

(* The connection keeps to the credit of both sides, also over a sleep; no    *)
(* byte is lost but with a dropped packet or a sleep, and no counter          *)
(* underflows but when the guest's counter has wrapped.                       *)
FlowSound ==
    TypeOK /\ PeerNotOverrun /\ HostNotOverrun /\ NothingLost /\ AbortsOnlyByWrap
=============================================================================
