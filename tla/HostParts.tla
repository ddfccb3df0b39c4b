------------------------------ MODULE HostParts ------------------------------
(***************************************************************************)
(* The parts of virtmgr that the proofs are about, side by side: the       *)
(* registry and its leases (HostRegistry), the stop of a VM on macOS and   *)
(* the guest's RPC endpoint with its trace, both with every failure.       *)
(***************************************************************************)
EXTENDS HostRegistry, Sequences

CONSTANTS MacClients, Observations      \* MacGuestStop

ASSUME ObservationsAssumption == Observations \in Nat \ {0}

VARIABLES
    \* MacGuestStop
    vmState, macRegistered, macOwned, proc, event, peer, agent, termAttempted, pc, mon,
    looks, requests, stopped,
    \* GuestEndpoint
    guest, service, path, host, rows, writing, tail, failed, ctl, seen, original, verdict,
    signals, receipt, taken

Mac == INSTANCE MacGuestStop WITH
    Clients <- MacClients, BindMayFail <- TRUE, MayFail <- TRUE,
    registered <- macRegistered, owned <- macOwned
Socket == INSTANCE GuestEndpoint WITH MayReplace <- TRUE, MayFail <- TRUE

\* MacGuestStop: Ok and Dead mean that the process has exited, after one request
\* however many clients stop it; a VM whose process could be bound is owned until
\* its exit is proved and published.
StopIsProven == Mac!StopIsProven

\* GuestEndpoint: a receipt proves that virtmgr's destructor has retired the socket,
\* the TERM of the controller does not cut it off, and a trace or a path in the middle
\* of a change raises no alarm.
RetirementIsTrue == Socket!RetirementIsTrue
=============================================================================
