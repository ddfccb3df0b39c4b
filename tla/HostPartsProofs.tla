-------------------------- MODULE HostPartsProofs --------------------------
(***************************************************************************)
(* Proofs about the parts of the host service: the stop of a guest on      *)
(* macOS for any clients, the endpoint of a guest's socket, and the        *)
(* registry of guests for any processes, CIDs and instance ids.            *)
(***************************************************************************)
EXTENDS HostParts, TLAPS

\* A leaf may take longer than the default.
USE SMTT(60), ZenonT(60)

-----------------------------------------------------------------------------
(* The stop of a guest on macOS. *)

\* The places of a start that has registered its VM.
Starting == {"start", "failed", "release"}

\* The event, the process and what was made of them agree.
EvidenceInv ==
    /\ proc = "none" => mon = "none" /\ event = "none" /\ ~peer
                        /\ vmState \in {"NotStarted", "Failed"}
    /\ proc # "none" => vmState \in {"Running", "ShuttingDown", "Dead"}
    /\ event # "none" => proc = "exited" /\ peer
    /\ mon \in {"observe", "dead"} => proc = "exited"
    /\ mon = "dead" \/ vmState = "Dead" \/ stopped => event = "seen"

\* A start in progress owns a VM without a process, and it is the only one.
StartInv ==
    \A c \in MacClients : pc[c] \in Starting =>
        /\ macOwned /\ macRegistered /\ ~peer
        /\ pc[c] = "start" => vmState = "NotStarted"
        /\ \A d \in MacClients : pc[d] \in Starting => d = c

\* A VM whose process was bound is registered and owned until it is dead.
OwnerInv ==
    /\ macOwned => macRegistered
    /\ macRegistered /\ ~macOwned => vmState = "NotStarted"
    /\ peer /\ ~macRegistered => vmState = "Dead"

\* One request is made of the guest, by the thread that moved the VM to ShuttingDown.
RequestInv ==
    /\ requests["rpc"] + requests["term"] <= 1
    /\ vmState \in {"NotStarted", "Running", "Failed"} =>
          /\ requests["rpc"] + requests["term"] = 0
          /\ \A c \in MacClients : pc[c] # "request"
    /\ \A c \in MacClients : pc[c] = "request" =>
          /\ requests["rpc"] + requests["term"] = 0
          /\ \A d \in MacClients : pc[d] = "request" => d = c

\* The inductive invariant of the stop on macOS.
MacIInv == Mac!TypeOK /\ looks > 0 /\ EvidenceInv /\ StartInv /\ OwnerInv /\ RequestInv

LooksInv == looks > 0

\* The two halves of the types: the flags, and the rest.
Flags ==
    /\ macRegistered \in BOOLEAN /\ macOwned \in BOOLEAN /\ peer \in BOOLEAN
    /\ agent \in BOOLEAN /\ termAttempted \in BOOLEAN /\ stopped \in BOOLEAN
Places ==
    /\ vmState \in {"NotStarted", "Running", "ShuttingDown", "Dead", "Failed"}
    /\ proc \in {"none", "running", "exiting", "exited"}
    /\ event \in {"none", "queued", "seen", "lost"}
    /\ pc \in [MacClients ->
                 {"idle", "start", "failed", "release", "request", "wait", "observe"}]
    /\ mon \in {"none", "wait", "observe", "dead", "done"}
    /\ looks \in 0..Observations
    /\ requests \in [{"rpc", "term"} -> 0..2]

\* Every step of the clients, the monitor, the process and the kernel keeps the invariant.
LEMMA MacIInvStep == MacIInv /\ [Mac!Next]_Mac!vars => MacIInv'
<1> SUFFICES ASSUME MacIInv, [Mac!Next]_Mac!vars PROVE MacIInv'
  OBVIOUS
<1> USE DEF Mac!registry, Mac!history, Mac!Go
<1>1. CASE Mac!Exit
  <2>1. Mac!TypeOK'
    <3>1. Flags'
      BY <1>1, Zenon DEF Mac!Exit, MacIInv, Mac!TypeOK, Flags
    <3>2. Places'
      BY <1>1 DEF Mac!Exit, MacIInv, Mac!TypeOK, Places
    <3> QED BY <3>1, <3>2, Zenon DEF Mac!TypeOK, Flags, Places
  <2>2. LooksInv'
    BY <1>1 DEF Mac!Exit, MacIInv, LooksInv, Mac!TypeOK
  <2>3. EvidenceInv'
    BY <1>1 DEF Mac!Exit, MacIInv, EvidenceInv, Mac!TypeOK, StartInv, Starting
  <2>4. StartInv'
    BY <1>1 DEF Mac!Exit, MacIInv, StartInv, Starting, Mac!TypeOK, EvidenceInv
  <2>5. OwnerInv'
    BY <1>1 DEF Mac!Exit, MacIInv, OwnerInv, Mac!TypeOK, EvidenceInv, StartInv, Starting
  <2>6. RequestInv'
    BY <1>1 DEF Mac!Exit, MacIInv, RequestInv, Starting, Mac!TypeOK, EvidenceInv
  <2> QED BY <2>1, <2>2, <2>3, <2>4, <2>5, <2>6 DEF MacIInv, LooksInv
<1>2. CASE Mac!Deliver
  <2>1. Mac!TypeOK'
    BY <1>2, ObservationsAssumption DEF Mac!Deliver, MacIInv, Mac!TypeOK, Starting
  <2>2. LooksInv'
    BY <1>2 DEF Mac!Deliver, MacIInv, LooksInv, Mac!TypeOK
  <2>3. EvidenceInv'
    BY <1>2 DEF Mac!Deliver, MacIInv, EvidenceInv, Mac!TypeOK, StartInv, Starting
  <2>4. StartInv'
    BY <1>2 DEF Mac!Deliver, MacIInv, StartInv, Starting, Mac!TypeOK, EvidenceInv
  <2>5. OwnerInv'
    BY <1>2 DEF Mac!Deliver, MacIInv, OwnerInv, Mac!TypeOK, EvidenceInv, StartInv, Starting
  <2>6. RequestInv'
    BY <1>2 DEF Mac!Deliver, MacIInv, RequestInv, Starting, Mac!TypeOK, EvidenceInv
  <2> QED BY <2>1, <2>2, <2>3, <2>4, <2>5, <2>6 DEF MacIInv, LooksInv
<1>3. CASE Mac!AgentRegisters
  <2>1. Mac!TypeOK'
    BY <1>3, ObservationsAssumption DEF Mac!AgentRegisters, MacIInv, Mac!TypeOK, Starting
  <2>2. LooksInv'
    BY <1>3 DEF Mac!AgentRegisters, MacIInv, LooksInv, Mac!TypeOK
  <2>3. EvidenceInv'
    BY <1>3 DEF Mac!AgentRegisters, MacIInv, EvidenceInv, Mac!TypeOK, StartInv, Starting
  <2>4. StartInv'
    BY <1>3 DEF Mac!AgentRegisters, MacIInv, StartInv, Starting, Mac!TypeOK, EvidenceInv
  <2>5. OwnerInv'
    BY <1>3 DEF Mac!AgentRegisters, MacIInv, OwnerInv, Mac!TypeOK, EvidenceInv, StartInv, Starting
  <2>6. RequestInv'
    BY <1>3 DEF Mac!AgentRegisters, MacIInv, RequestInv, Starting, Mac!TypeOK, EvidenceInv
  <2> QED BY <2>1, <2>2, <2>3, <2>4, <2>5, <2>6 DEF MacIInv, LooksInv
<1>4. CASE Mac!MonitorWait
  <2>1. Mac!TypeOK'
    BY <1>4, ObservationsAssumption DEF Mac!MonitorWait, MacIInv, Mac!TypeOK, Starting
  <2>2. LooksInv'
    BY <1>4 DEF Mac!MonitorWait, MacIInv, LooksInv, Mac!TypeOK
  <2>3. EvidenceInv'
    BY <1>4 DEF Mac!MonitorWait, MacIInv, EvidenceInv, Mac!TypeOK, StartInv, Starting
  <2>4. StartInv'
    BY <1>4 DEF Mac!MonitorWait, MacIInv, StartInv, Starting, Mac!TypeOK, EvidenceInv
  <2>5. OwnerInv'
    BY <1>4 DEF Mac!MonitorWait, MacIInv, OwnerInv, Mac!TypeOK, EvidenceInv, StartInv, Starting
  <2>6. RequestInv'
    BY <1>4 DEF Mac!MonitorWait, MacIInv, RequestInv, Starting, Mac!TypeOK, EvidenceInv
  <2> QED BY <2>1, <2>2, <2>3, <2>4, <2>5, <2>6 DEF MacIInv, LooksInv
<1>5. CASE Mac!MonitorObserve
  <2>1. Mac!TypeOK'
    BY <1>5, ObservationsAssumption DEF Mac!MonitorObserve, Mac!Exited, MacIInv, Mac!TypeOK,
       Starting
  <2>2. LooksInv'
    BY <1>5 DEF Mac!MonitorObserve, Mac!Exited, MacIInv, LooksInv, Mac!TypeOK
  <2>3. EvidenceInv'
    BY <1>5 DEF Mac!MonitorObserve, Mac!Exited, MacIInv, EvidenceInv, Mac!TypeOK, StartInv, Starting
  <2>4. StartInv'
    BY <1>5 DEF Mac!MonitorObserve, Mac!Exited, MacIInv, StartInv, Starting, Mac!TypeOK, EvidenceInv
  <2>5. OwnerInv'
    BY <1>5 DEF Mac!MonitorObserve, Mac!Exited, MacIInv, OwnerInv, Mac!TypeOK, EvidenceInv,
       StartInv, Starting
  <2>6. RequestInv'
    BY <1>5 DEF Mac!MonitorObserve, Mac!Exited, MacIInv, RequestInv, Starting, Mac!TypeOK,
       EvidenceInv
  <2> QED BY <2>1, <2>2, <2>3, <2>4, <2>5, <2>6 DEF MacIInv, LooksInv
<1>6. CASE Mac!MonitorDead
  <2>1. Mac!TypeOK'
    <3>1. Flags'
      BY <1>6, Zenon DEF Mac!MonitorDead, MacIInv, Mac!TypeOK, Flags
    <3>2. Places'
      BY <1>6 DEF Mac!MonitorDead, MacIInv, Mac!TypeOK, Places
    <3> QED BY <3>1, <3>2, Zenon DEF Mac!TypeOK, Flags, Places
  <2>2. LooksInv'
    BY <1>6 DEF Mac!MonitorDead, MacIInv, LooksInv, Mac!TypeOK
  <2>3. EvidenceInv'
    BY <1>6 DEF Mac!MonitorDead, MacIInv, EvidenceInv, Mac!TypeOK, StartInv, Starting
  <2>4. StartInv'
    BY <1>6 DEF Mac!MonitorDead, MacIInv, StartInv, Starting, Mac!TypeOK, EvidenceInv
  <2>5. OwnerInv'
    BY <1>6 DEF Mac!MonitorDead, MacIInv, OwnerInv, Mac!TypeOK, EvidenceInv, StartInv, Starting
  <2>6. RequestInv'
    BY <1>6 DEF Mac!MonitorDead, MacIInv, RequestInv, Starting, Mac!TypeOK, EvidenceInv
  <2> QED BY <2>1, <2>2, <2>3, <2>4, <2>5, <2>6 DEF MacIInv, LooksInv
<1>7. ASSUME NEW c \in MacClients, Mac!StartRetain(c) PROVE MacIInv'
  <2>1. Mac!TypeOK'
    BY <1>7, ObservationsAssumption DEF Mac!StartRetain, MacIInv, Mac!TypeOK, Starting
  <2>2. LooksInv'
    BY <1>7 DEF Mac!StartRetain, MacIInv, LooksInv, Mac!TypeOK
  <2>3. EvidenceInv'
    BY <1>7 DEF Mac!StartRetain, MacIInv, EvidenceInv, Mac!TypeOK, StartInv, Starting
  <2>4. StartInv'
    BY <1>7 DEF Mac!StartRetain, MacIInv, OwnerInv, StartInv, Starting, Mac!TypeOK, EvidenceInv
  <2>5. OwnerInv'
    BY <1>7 DEF Mac!StartRetain, MacIInv, OwnerInv, Mac!TypeOK, EvidenceInv, StartInv, Starting
  <2>6. RequestInv'
    BY <1>7 DEF Mac!StartRetain, MacIInv, RequestInv, Starting, Mac!TypeOK, EvidenceInv
  <2> QED BY <2>1, <2>2, <2>3, <2>4, <2>5, <2>6 DEF MacIInv, LooksInv
<1>8. ASSUME NEW c \in MacClients, Mac!StartVm(c) PROVE MacIInv'
  <2>1. Mac!TypeOK'
    <3>1. pc' \in [MacClients -> {"idle", "start", "failed", "release", "request", "wait",
                                  "observe"}]
      BY <1>8 DEF Mac!StartVm, MacIInv, Mac!TypeOK
    <3>2. /\ vmState' \in {"NotStarted", "Running", "ShuttingDown", "Dead", "Failed"}
          /\ proc' \in {"none", "running", "exiting", "exited"}
          /\ mon' \in {"none", "wait", "observe", "dead", "done"}
          /\ peer' \in BOOLEAN /\ macRegistered' \in BOOLEAN /\ macOwned' \in BOOLEAN
      BY <1>8, Zenon DEF Mac!StartVm, MacIInv, Mac!TypeOK
    <3> QED BY <1>8, <3>1, <3>2 DEF Mac!StartVm, MacIInv, Mac!TypeOK
  <2>2. LooksInv'
    BY <1>8 DEF Mac!StartVm, MacIInv, LooksInv, Mac!TypeOK
  <2>3. EvidenceInv'
    BY <1>8 DEF Mac!StartVm, MacIInv, EvidenceInv, Mac!TypeOK, StartInv, Starting
  <2>4. StartInv'
    BY <1>8 DEF Mac!StartVm, MacIInv, StartInv, Starting, Mac!TypeOK, EvidenceInv
  <2>5. OwnerInv'
    BY <1>8 DEF Mac!StartVm, MacIInv, OwnerInv, Mac!TypeOK, EvidenceInv, StartInv, Starting
  <2>6. RequestInv'
    BY <1>8 DEF Mac!StartVm, MacIInv, RequestInv, Starting, Mac!TypeOK, EvidenceInv
  <2> QED BY <2>1, <2>2, <2>3, <2>4, <2>5, <2>6 DEF MacIInv, LooksInv
<1>9. ASSUME NEW c \in MacClients, Mac!StartFailed(c) PROVE MacIInv'
  <2>1. Mac!TypeOK'
    BY <1>9, ObservationsAssumption DEF Mac!StartFailed, MacIInv, Mac!TypeOK, Starting
  <2>2. LooksInv'
    BY <1>9 DEF Mac!StartFailed, MacIInv, LooksInv, Mac!TypeOK
  <2>3. EvidenceInv'
    BY <1>9 DEF Mac!StartFailed, MacIInv, EvidenceInv, Mac!TypeOK, StartInv, Starting
  <2>4. StartInv'
    BY <1>9 DEF Mac!StartFailed, MacIInv, StartInv, Starting, Mac!TypeOK, EvidenceInv
  <2>5. OwnerInv'
    BY <1>9 DEF Mac!StartFailed, MacIInv, OwnerInv, Mac!TypeOK, EvidenceInv, StartInv, Starting
  <2>6. RequestInv'
    BY <1>9 DEF Mac!StartFailed, MacIInv, RequestInv, Starting, Mac!TypeOK, EvidenceInv
  <2> QED BY <2>1, <2>2, <2>3, <2>4, <2>5, <2>6 DEF MacIInv, LooksInv
<1>10. ASSUME NEW c \in MacClients, Mac!StartRelease(c) PROVE MacIInv'
  <2>1. Mac!TypeOK'
    <3>1. pc' \in [MacClients -> {"idle", "start", "failed", "release", "request", "wait",
                                  "observe"}]
      BY <1>10 DEF Mac!StartRelease, MacIInv, Mac!TypeOK
    <3>2. /\ vmState' \in {"NotStarted", "Running", "ShuttingDown", "Dead", "Failed"}
          /\ proc' \in {"none", "running", "exiting", "exited"}
          /\ mon' \in {"none", "wait", "observe", "dead", "done"}
          /\ peer' \in BOOLEAN /\ macRegistered' \in BOOLEAN /\ macOwned' \in BOOLEAN
      BY <1>10, Zenon DEF Mac!StartRelease, MacIInv, Mac!TypeOK
    <3> QED BY <1>10, <3>1, <3>2 DEF Mac!StartRelease, MacIInv, Mac!TypeOK
  <2>2. LooksInv'
    BY <1>10 DEF Mac!StartRelease, MacIInv, LooksInv, Mac!TypeOK
  <2>3. EvidenceInv'
    BY <1>10 DEF Mac!StartRelease, MacIInv, EvidenceInv, Mac!TypeOK, StartInv, Starting
  <2>4. StartInv'
    BY <1>10 DEF Mac!StartRelease, MacIInv, StartInv, Starting, Mac!TypeOK, EvidenceInv
  <2>5. OwnerInv'
    BY <1>10 DEF Mac!StartRelease, MacIInv, OwnerInv, Mac!TypeOK, EvidenceInv, StartInv, Starting
  <2>6. RequestInv'
    BY <1>10 DEF Mac!StartRelease, MacIInv, RequestInv, Starting, Mac!TypeOK, EvidenceInv
  <2> QED BY <2>1, <2>2, <2>3, <2>4, <2>5, <2>6 DEF MacIInv, LooksInv
<1>11. ASSUME NEW c \in MacClients, Mac!Kill(c) PROVE MacIInv'
  <2>1. Mac!TypeOK'
    BY <1>11, ObservationsAssumption DEF Mac!Kill, MacIInv, Mac!TypeOK, Starting
  <2>2. LooksInv'
    BY <1>11 DEF Mac!Kill, MacIInv, LooksInv, Mac!TypeOK
  <2>3. EvidenceInv'
    BY <1>11 DEF Mac!Kill, MacIInv, EvidenceInv, Mac!TypeOK, StartInv, Starting
  <2>4. StartInv'
    BY <1>11 DEF Mac!Kill, MacIInv, StartInv, Starting, Mac!TypeOK, EvidenceInv
  <2>5. OwnerInv'
    BY <1>11 DEF Mac!Kill, MacIInv, OwnerInv, Mac!TypeOK, EvidenceInv, StartInv, Starting
  <2>6. RequestInv'
    BY <1>11 DEF Mac!Kill, MacIInv, RequestInv, Starting, Mac!TypeOK, EvidenceInv
  <2> QED BY <2>1, <2>2, <2>3, <2>4, <2>5, <2>6 DEF MacIInv, LooksInv
<1>12. ASSUME NEW c \in MacClients, Mac!Wait(c) PROVE MacIInv'
  <2>1. Mac!TypeOK'
    BY <1>12, ObservationsAssumption DEF Mac!Wait, MacIInv, Mac!TypeOK, Starting
  <2>2. LooksInv'
    BY <1>12 DEF Mac!Wait, MacIInv, LooksInv, Mac!TypeOK
  <2>3. EvidenceInv'
    BY <1>12 DEF Mac!Wait, MacIInv, EvidenceInv, Mac!TypeOK, StartInv, Starting
  <2>4. StartInv'
    BY <1>12 DEF Mac!Wait, MacIInv, StartInv, Starting, Mac!TypeOK, EvidenceInv
  <2>5. OwnerInv'
    BY <1>12 DEF Mac!Wait, MacIInv, OwnerInv, Mac!TypeOK, EvidenceInv, StartInv, Starting
  <2>6. RequestInv'
    BY <1>12 DEF Mac!Wait, MacIInv, RequestInv, Starting, Mac!TypeOK, EvidenceInv
  <2> QED BY <2>1, <2>2, <2>3, <2>4, <2>5, <2>6 DEF MacIInv, LooksInv
<1>13. ASSUME NEW c \in MacClients, Mac!Observe(c) PROVE MacIInv'
  <2>1. Mac!TypeOK'
    BY <1>13, ObservationsAssumption DEF Mac!Observe, Mac!Exited, MacIInv, Mac!TypeOK, Starting
  <2>2. LooksInv'
    BY <1>13 DEF Mac!Observe, Mac!Exited, MacIInv, LooksInv, Mac!TypeOK
  <2>3. EvidenceInv'
    BY <1>13 DEF Mac!Observe, Mac!Exited, MacIInv, EvidenceInv, Mac!TypeOK, StartInv, Starting
  <2>4. StartInv'
    BY <1>13 DEF Mac!Observe, Mac!Exited, MacIInv, StartInv, Starting, Mac!TypeOK, EvidenceInv
  <2>5. OwnerInv'
    BY <1>13 DEF Mac!Observe, Mac!Exited, MacIInv, OwnerInv, Mac!TypeOK, EvidenceInv, StartInv,
       Starting
  <2>6. RequestInv'
    BY <1>13 DEF Mac!Observe, Mac!Exited, MacIInv, RequestInv, Starting, Mac!TypeOK, EvidenceInv
  <2> QED BY <2>1, <2>2, <2>3, <2>4, <2>5, <2>6 DEF MacIInv, LooksInv
<1>14. ASSUME NEW c \in MacClients, Mac!ShutdownAsync(c), Mac!Request(c) PROVE MacIInv'
  <2>1. Mac!TypeOK'
    BY <1>14, ObservationsAssumption DEF Mac!ShutdownAsync, Mac!Request, Mac!Requested, MacIInv,
       Mac!TypeOK, Starting
  <2>2. LooksInv'
    BY <1>14 DEF Mac!ShutdownAsync, Mac!Request, Mac!Requested, MacIInv, LooksInv, Mac!TypeOK
  <2>3. EvidenceInv'
    BY <1>14 DEF Mac!ShutdownAsync, Mac!Request, Mac!Requested, MacIInv, EvidenceInv, Mac!TypeOK,
       StartInv, Starting
  <2>4. StartInv'
    BY <1>14 DEF Mac!ShutdownAsync, Mac!Request, Mac!Requested, MacIInv, StartInv, Starting,
       Mac!TypeOK, EvidenceInv
  <2>5. OwnerInv'
    BY <1>14 DEF Mac!ShutdownAsync, Mac!Request, Mac!Requested, MacIInv, OwnerInv, Mac!TypeOK,
       EvidenceInv, StartInv, Starting
  <2>6. RequestInv'
    BY <1>14 DEF Mac!ShutdownAsync, Mac!Request, Mac!Requested, MacIInv, RequestInv, Starting,
       Mac!TypeOK, EvidenceInv
  <2> QED BY <2>1, <2>2, <2>3, <2>4, <2>5, <2>6 DEF MacIInv, LooksInv
<1>15. ASSUME NEW c \in MacClients, Mac!Terminate(c), Mac!Request(c) PROVE MacIInv'
  <2>1. Mac!TypeOK'
    <3>1. pc' \in [MacClients -> {"idle", "start", "failed", "release", "request", "wait",
                                  "observe"}]
      BY <1>15 DEF Mac!Terminate, MacIInv, Mac!TypeOK
    <3>2. event' \in {"none", "queued", "seen", "lost"}
      BY <1>15 DEF Mac!Terminate, Mac!Exited, MacIInv, Mac!TypeOK
    <3>3. requests' \in [{"rpc", "term"} -> 0..2]
      BY <1>15 DEF Mac!Terminate, Mac!Requested, MacIInv, Mac!TypeOK
    <3>4. proc' \in {"none", "running", "exiting", "exited"} /\ termAttempted' \in BOOLEAN
      BY <1>15, Zenon DEF Mac!Terminate, MacIInv, Mac!TypeOK
    <3> QED BY <1>15, <3>1, <3>2, <3>3, <3>4 DEF Mac!Request, MacIInv, Mac!TypeOK
  <2>2. LooksInv'
    BY <1>15 DEF Mac!Terminate, Mac!Request, Mac!Requested, Mac!Exited, MacIInv, LooksInv,
       Mac!TypeOK
  <2>3. EvidenceInv'
    BY <1>15 DEF Mac!Terminate, Mac!Request, Mac!Requested, Mac!Exited, MacIInv, EvidenceInv,
       Mac!TypeOK, StartInv, Starting
  <2>4. StartInv'
    BY <1>15 DEF Mac!Terminate, Mac!Request, Mac!Requested, Mac!Exited, MacIInv, StartInv,
       Starting, Mac!TypeOK, EvidenceInv
  <2>5. OwnerInv'
    BY <1>15 DEF Mac!Terminate, Mac!Request, Mac!Requested, Mac!Exited, MacIInv, OwnerInv,
       Mac!TypeOK, EvidenceInv, StartInv, Starting
  <2>6. RequestInv'
    BY <1>15 DEF Mac!Terminate, Mac!Request, Mac!Requested, Mac!Exited, MacIInv, RequestInv,
       Starting, Mac!TypeOK, EvidenceInv
  <2> QED BY <2>1, <2>2, <2>3, <2>4, <2>5, <2>6 DEF MacIInv, LooksInv
<1>16. CASE UNCHANGED Mac!vars
  BY <1>16 DEF Mac!vars, MacIInv, Mac!TypeOK, EvidenceInv, StartInv, OwnerInv, RequestInv, Starting
<1>17. ASSUME NEW c \in MacClients, Mac!Request(c) PROVE MacIInv'
  BY <1>17, <1>14, <1>15 DEF Mac!Request
<1> QED BY <1>1, <1>2, <1>3, <1>4, <1>5, <1>6, <1>7, <1>8, <1>9, <1>10, <1>11, <1>12, <1>13, <1>14,
           <1>15, <1>16, <1>17 DEF Mac!Next, Mac!Monitor, Mac!Call, Mac!Step

\* MacGuestStop, for any clients, any number of observations and every failure: Ok and Dead
\* mean that the process has exited, one request is made of it however many clients stop it,
\* and a VM whose process could be bound is owned until its exit is proved and published.
THEOREM StopStaysProven == Mac!Spec => []StopIsProven
<1>1. Mac!Init => MacIInv
  <2> SUFFICES ASSUME Mac!Init PROVE MacIInv
    OBVIOUS
  <2>1. Mac!TypeOK
    <3>1. looks \in 0..Observations /\ requests \in [{"rpc", "term"} -> 0..2]
      BY ObservationsAssumption DEF Mac!Init
    <3> QED BY <3>1, Zenon DEF Mac!Init, Mac!TypeOK
  <2>2. looks > 0 /\ EvidenceInv /\ StartInv /\ OwnerInv
    BY ObservationsAssumption DEF Mac!Init, EvidenceInv, StartInv, OwnerInv, Starting
  <2>3. RequestInv
    BY DEF Mac!Init, RequestInv
  <2> QED BY <2>1, <2>2, <2>3 DEF MacIInv
<1>2. MacIInv => StopIsProven
  BY DEF MacIInv, StopIsProven, Mac!StopIsProven, Mac!StopMeansExited, Mac!OneRequest,
     Mac!OwnedWhileAlive,
     Mac!ReleasedIsProven, EvidenceInv, OwnerInv, RequestInv, Mac!TypeOK
<1> QED BY <1>1, <1>2, MacIInvStep, PTL DEF Mac!Spec

-----------------------------------------------------------------------------
(* The endpoint of a guest's socket, and what its controller makes of it. *)

\* The two traces that are not empty.
Bound == <<"bound">>
Both == <<"bound", "retired">>

\* The trace follows the life of the endpoint in virtmgr.
TraceInv ==
    /\ host \in {"new", "bound"} => rows = <<>> /\ writing = "none"
    /\ writing = "bound" => host = "open" /\ rows = <<>>
    /\ writing = "retired" => host = "gone" /\ rows = Bound
    /\ writing = "notice" => rows = Bound
    /\ rows = Both => host = "gone" /\ writing = "none"
    /\ host \notin {"new", "bound"} /\ rows = <<>> => writing = "bound" \/ failed
    /\ failed => writing = "none"
    /\ writing # "none" => tail

\* What is at the path of the socket.
PathInv ==
    /\ path = "other" => taken
    /\ path = "own" => host \in {"bound", "open", "serving", "drop", "remove"}

\* The controller has seen no more of the trace than there is.
ReaderInv ==
    /\ seen.rows = Both => rows = Both
    /\ seen.rows = Bound => rows # <<>>
    /\ ctl \in {"confirm", "armed", "poll", "look", "found", "observe", "look2", "found2"} =>
          rows # <<>>
    /\ ctl \in {"look", "look2"} => seen.rows # <<>>

\* What the controller says rests on the trace, and an alarm on a replaced path.
ProofInv ==
    /\ receipt => rows = Both
    /\ ctl = "found" \/ "service" \in signals => receipt
    /\ verdict = "error" => taken

\* The inductive invariant of the endpoint and its reader.
SocketIInv == Socket!TypeOK /\ TraceInv /\ PathInv /\ ReaderInv /\ ProofInv

\* The three traces, and how a record is appended.
LEMMA RowFacts ==
  /\ Socket!Records = {<<>>, Bound, Both}
  /\ <<>> # Bound /\ <<>> # Both /\ Bound # Both
  /\ Append(<<>>, "bound") = Bound /\ Append(Bound, "retired") = Both
  /\ Len(<<>>) = 0 /\ Len(Bound) = 1 /\ Len(Both) = 2
<1>1. Socket!Records = {<<>>, Bound, Both}
  BY DEF Socket!Records, Bound, Both
<1>2. Len(<<>>) = 0 /\ Len(Bound) = 1 /\ Len(Both) = 2
  BY DEF Bound, Both
<1>3. Append(<<>>, "bound") = Bound
  BY DEF Bound
<1>4. Append(Bound, "retired") = Both
  <2> DEFINE S == {"bound", "retired"}
  <2>1. "bound" \in S /\ "retired" \in S
    OBVIOUS
  <2> HIDE DEF S
  <2>2. Bound \in Seq(S) /\ Both \in Seq(S)
    BY <2>1 DEF Bound, Both
  <2>3. Append(Bound, "retired") \in Seq(S) /\ Len(Append(Bound, "retired")) = Len(Bound) + 1
    BY <2>1, <2>2
  <2>4. Append(Bound, "retired")[1] = "bound" /\ Append(Bound, "retired")[2] = "retired"
    BY <1>2, <2>2 DEF Bound
  <2>5. Both[1] = "bound" /\ Both[2] = "retired"
    BY DEF Both
  <2> QED BY <1>2, <2>2, <2>3, <2>4, <2>5
<1> QED BY <1>1, <1>2, <1>3, <1>4

\* Every step of virtmgr, of the guest, of the controller and of others at the path keeps the
\* invariant.
LEMMA SocketIInvStep == SocketIInv /\ [Socket!Next]_Socket!vars => SocketIInv'
<1> SUFFICES ASSUME SocketIInv, [Socket!Next]_Socket!vars PROVE SocketIInv'
  OBVIOUS
<1> USE DEF Socket!hostVars, Socket!ctlVars
<1>1. CASE Socket!Bind
  <2>1. Socket!TypeOK'
    BY <1>1, RowFacts DEF Socket!Bind, SocketIInv, Socket!TypeOK, TraceInv
  <2>2. TraceInv'
    BY <1>1, RowFacts DEF Socket!Bind, SocketIInv, TraceInv, Socket!TypeOK
  <2>3. PathInv'
    BY <1>1, RowFacts DEF Socket!Bind, SocketIInv, PathInv, Socket!TypeOK, TraceInv
  <2>4. ReaderInv'
    BY <1>1, RowFacts DEF Socket!Bind, SocketIInv, ReaderInv, Socket!TypeOK, TraceInv
  <2>5. ProofInv'
    BY <1>1, RowFacts DEF Socket!Bind, SocketIInv, ProofInv, Socket!TypeOK, TraceInv, PathInv,
       ReaderInv
  <2> QED BY <2>1, <2>2, <2>3, <2>4, <2>5 DEF SocketIInv
<1>2. CASE Socket!Announce
  <2>1. Socket!TypeOK'
    <3>1. writing' \in {"none", "bound", "retired", "notice"} /\ tail' \in BOOLEAN
      BY <1>2, Zenon DEF Socket!Announce, Socket!Record, SocketIInv, Socket!TypeOK
    <3> QED BY <1>2, <3>1 DEF Socket!Announce, SocketIInv, Socket!TypeOK
  <2>2. TraceInv'
    BY <1>2, RowFacts DEF Socket!Announce, Socket!Record, SocketIInv, TraceInv, Socket!TypeOK
  <2>3. PathInv'
    BY <1>2, RowFacts DEF Socket!Announce, Socket!Record, SocketIInv, PathInv, Socket!TypeOK,
       TraceInv
  <2>4. ReaderInv'
    BY <1>2, RowFacts DEF Socket!Announce, Socket!Record, SocketIInv, ReaderInv, Socket!TypeOK,
       TraceInv
  <2>5. ProofInv'
    BY <1>2, RowFacts DEF Socket!Announce, Socket!Record, SocketIInv, ProofInv, Socket!TypeOK,
       TraceInv, PathInv, ReaderInv
  <2> QED BY <2>1, <2>2, <2>3, <2>4, <2>5 DEF SocketIInv
<1>3. CASE Socket!Serve
  <2>1. Socket!TypeOK'
    BY <1>3, RowFacts DEF Socket!Serve, SocketIInv, Socket!TypeOK, TraceInv
  <2>2. TraceInv'
    BY <1>3, RowFacts DEF Socket!Serve, SocketIInv, TraceInv, Socket!TypeOK
  <2>3. PathInv'
    BY <1>3, RowFacts DEF Socket!Serve, SocketIInv, PathInv, Socket!TypeOK, TraceInv
  <2>4. ReaderInv'
    BY <1>3, RowFacts DEF Socket!Serve, SocketIInv, ReaderInv, Socket!TypeOK, TraceInv
  <2>5. ProofInv'
    BY <1>3, RowFacts DEF Socket!Serve, SocketIInv, ProofInv, Socket!TypeOK, TraceInv, PathInv,
       ReaderInv
  <2> QED BY <2>1, <2>2, <2>3, <2>4, <2>5 DEF SocketIInv
<1>4. CASE Socket!Notice
  <2>1. Socket!TypeOK'
    BY <1>4, RowFacts DEF Socket!Notice, Socket!Record, SocketIInv, Socket!TypeOK, TraceInv
  <2>2. TraceInv'
    BY <1>4, RowFacts DEF Socket!Notice, Socket!Record, SocketIInv, TraceInv, Socket!TypeOK
  <2>3. PathInv'
    BY <1>4, RowFacts DEF Socket!Notice, Socket!Record, SocketIInv, PathInv, Socket!TypeOK, TraceInv
  <2>4. ReaderInv'
    BY <1>4, RowFacts DEF Socket!Notice, Socket!Record, SocketIInv, ReaderInv, Socket!TypeOK,
       TraceInv
  <2>5. ProofInv'
    BY <1>4, RowFacts DEF Socket!Notice, Socket!Record, SocketIInv, ProofInv, Socket!TypeOK,
       TraceInv, PathInv, ReaderInv
  <2> QED BY <2>1, <2>2, <2>3, <2>4, <2>5 DEF SocketIInv
<1>5. CASE Socket!Commit
  <2>1. Socket!TypeOK'
    <3>1. rows' \in Socket!Records
      BY <1>5, RowFacts DEF Socket!Commit, SocketIInv, Socket!TypeOK, TraceInv
    <3>2. guest' = guest /\ service' = service /\ path' = path /\ host' = host /\ failed' = failed
          /\ taken' = taken /\ ctl' = ctl /\ seen' = seen /\ original' = original
          /\ verdict' = verdict /\ signals' = signals /\ receipt' = receipt /\ writing' = "none"
          /\ tail' = FALSE
      BY <1>5 DEF Socket!Commit
    <3>3. tail' \in BOOLEAN /\ failed' \in BOOLEAN /\ original' \in BOOLEAN /\ receipt' \in BOOLEAN
          /\ taken' \in BOOLEAN
      BY <3>2, Zenon DEF SocketIInv, Socket!TypeOK
    <3>4. /\ seen' \in [rows : Socket!Records, tail : BOOLEAN]
          /\ signals' \subseteq {"guest", "service"}
      BY <3>2 DEF SocketIInv, Socket!TypeOK
    <3> QED BY <3>1, <3>2, <3>3, <3>4 DEF SocketIInv, Socket!TypeOK
  <2>2. TraceInv'
    BY <1>5, RowFacts DEF Socket!Commit, SocketIInv, TraceInv, Socket!TypeOK
  <2>3. PathInv'
    BY <1>5, RowFacts DEF Socket!Commit, SocketIInv, PathInv, Socket!TypeOK, TraceInv
  <2>4. ReaderInv'
    BY <1>5, RowFacts DEF Socket!Commit, SocketIInv, ReaderInv, Socket!TypeOK, TraceInv
  <2>5. ProofInv'
    BY <1>5, RowFacts DEF Socket!Commit, SocketIInv, ProofInv, Socket!TypeOK, TraceInv, PathInv,
       ReaderInv
  <2> QED BY <2>1, <2>2, <2>3, <2>4, <2>5 DEF SocketIInv
<1>6. CASE Socket!CommitFails
  <2>1. Socket!TypeOK'
    BY <1>6, RowFacts DEF Socket!CommitFails, SocketIInv, Socket!TypeOK, TraceInv
  <2>2. TraceInv'
    BY <1>6, RowFacts DEF Socket!CommitFails, SocketIInv, TraceInv, Socket!TypeOK
  <2>3. PathInv'
    BY <1>6, RowFacts DEF Socket!CommitFails, SocketIInv, PathInv, Socket!TypeOK, TraceInv
  <2>4. ReaderInv'
    BY <1>6, RowFacts DEF Socket!CommitFails, SocketIInv, ReaderInv, Socket!TypeOK, TraceInv
  <2>5. ProofInv'
    BY <1>6, RowFacts DEF Socket!CommitFails, SocketIInv, ProofInv, Socket!TypeOK, TraceInv,
       PathInv, ReaderInv
  <2> QED BY <2>1, <2>2, <2>3, <2>4, <2>5 DEF SocketIInv
<1>7. CASE Socket!Drop
  <2>1. Socket!TypeOK'
    BY <1>7, RowFacts DEF Socket!Drop, SocketIInv, Socket!TypeOK, TraceInv
  <2>2. TraceInv'
    BY <1>7, RowFacts DEF Socket!Drop, SocketIInv, TraceInv, Socket!TypeOK
  <2>3. PathInv'
    BY <1>7, RowFacts DEF Socket!Drop, SocketIInv, PathInv, Socket!TypeOK, TraceInv
  <2>4. ReaderInv'
    BY <1>7, RowFacts DEF Socket!Drop, SocketIInv, ReaderInv, Socket!TypeOK, TraceInv
  <2>5. ProofInv'
    BY <1>7, RowFacts DEF Socket!Drop, SocketIInv, ProofInv, Socket!TypeOK, TraceInv, PathInv,
       ReaderInv
  <2> QED BY <2>1, <2>2, <2>3, <2>4, <2>5 DEF SocketIInv
<1>8. CASE Socket!DropChecks
  <2>1. Socket!TypeOK'
    BY <1>8, RowFacts DEF Socket!DropChecks, SocketIInv, Socket!TypeOK, TraceInv
  <2>2. TraceInv'
    BY <1>8, RowFacts DEF Socket!DropChecks, SocketIInv, TraceInv, Socket!TypeOK
  <2>3. PathInv'
    BY <1>8, RowFacts DEF Socket!DropChecks, SocketIInv, PathInv, Socket!TypeOK, TraceInv
  <2>4. ReaderInv'
    BY <1>8, RowFacts DEF Socket!DropChecks, SocketIInv, ReaderInv, Socket!TypeOK, TraceInv
  <2>5. ProofInv'
    BY <1>8, RowFacts DEF Socket!DropChecks, SocketIInv, ProofInv, Socket!TypeOK, TraceInv,
       PathInv, ReaderInv
  <2> QED BY <2>1, <2>2, <2>3, <2>4, <2>5 DEF SocketIInv
<1>9. CASE Socket!Remove
  <2>1. Socket!TypeOK'
    BY <1>9, RowFacts DEF Socket!Remove, SocketIInv, Socket!TypeOK, TraceInv
  <2>2. TraceInv'
    BY <1>9, RowFacts DEF Socket!Remove, SocketIInv, TraceInv, Socket!TypeOK
  <2>3. PathInv'
    BY <1>9, RowFacts DEF Socket!Remove, SocketIInv, PathInv, Socket!TypeOK, TraceInv
  <2>4. ReaderInv'
    BY <1>9, RowFacts DEF Socket!Remove, SocketIInv, ReaderInv, Socket!TypeOK, TraceInv
  <2>5. ProofInv'
    BY <1>9, RowFacts DEF Socket!Remove, SocketIInv, ProofInv, Socket!TypeOK, TraceInv, PathInv,
       ReaderInv
  <2> QED BY <2>1, <2>2, <2>3, <2>4, <2>5 DEF SocketIInv
<1>10. CASE Socket!Retire
  <2>1. Socket!TypeOK'
    <3>1. writing' \in {"none", "bound", "retired", "notice"} /\ tail' \in BOOLEAN
      BY <1>10, Zenon DEF Socket!Retire, Socket!Record, SocketIInv, Socket!TypeOK
    <3> QED BY <1>10, <3>1 DEF Socket!Retire, SocketIInv, Socket!TypeOK
  <2>2. TraceInv'
    BY <1>10, RowFacts DEF Socket!Retire, Socket!Record, SocketIInv, TraceInv, Socket!TypeOK
  <2>3. PathInv'
    BY <1>10, RowFacts DEF Socket!Retire, Socket!Record, SocketIInv, PathInv, Socket!TypeOK,
       TraceInv
  <2>4. ReaderInv'
    BY <1>10, RowFacts DEF Socket!Retire, Socket!Record, SocketIInv, ReaderInv, Socket!TypeOK,
       TraceInv
  <2>5. ProofInv'
    BY <1>10, RowFacts DEF Socket!Retire, Socket!Record, SocketIInv, ProofInv, Socket!TypeOK,
       TraceInv, PathInv, ReaderInv
  <2> QED BY <2>1, <2>2, <2>3, <2>4, <2>5 DEF SocketIInv
<1>11. CASE Socket!GuestEnds
  <2>1. Socket!TypeOK'
    BY <1>11, RowFacts DEF Socket!GuestEnds, SocketIInv, Socket!TypeOK, TraceInv
  <2>2. TraceInv'
    BY <1>11, RowFacts DEF Socket!GuestEnds, SocketIInv, TraceInv, Socket!TypeOK
  <2>3. PathInv'
    BY <1>11, RowFacts DEF Socket!GuestEnds, SocketIInv, PathInv, Socket!TypeOK, TraceInv
  <2>4. ReaderInv'
    BY <1>11, RowFacts DEF Socket!GuestEnds, SocketIInv, ReaderInv, Socket!TypeOK, TraceInv
  <2>5. ProofInv'
    BY <1>11, RowFacts DEF Socket!GuestEnds, SocketIInv, ProofInv, Socket!TypeOK, TraceInv,
       PathInv, ReaderInv
  <2> QED BY <2>1, <2>2, <2>3, <2>4, <2>5 DEF SocketIInv
<1>12. CASE Socket!ServiceEnds
  <2>1. Socket!TypeOK'
    BY <1>12, RowFacts DEF Socket!ServiceEnds, SocketIInv, Socket!TypeOK, TraceInv
  <2>2. TraceInv'
    BY <1>12, RowFacts DEF Socket!ServiceEnds, SocketIInv, TraceInv, Socket!TypeOK
  <2>3. PathInv'
    BY <1>12, RowFacts DEF Socket!ServiceEnds, SocketIInv, PathInv, Socket!TypeOK, TraceInv
  <2>4. ReaderInv'
    BY <1>12, RowFacts DEF Socket!ServiceEnds, SocketIInv, ReaderInv, Socket!TypeOK, TraceInv
  <2>5. ProofInv'
    BY <1>12, RowFacts DEF Socket!ServiceEnds, SocketIInv, ProofInv, Socket!TypeOK, TraceInv,
       PathInv, ReaderInv
  <2> QED BY <2>1, <2>2, <2>3, <2>4, <2>5 DEF SocketIInv
<1>13. CASE Socket!NextService
  <2>1. Socket!TypeOK'
    BY <1>13, RowFacts DEF Socket!NextService, SocketIInv, Socket!TypeOK, TraceInv
  <2>2. TraceInv'
    BY <1>13, RowFacts DEF Socket!NextService, SocketIInv, TraceInv, Socket!TypeOK
  <2>3. PathInv'
    BY <1>13, RowFacts DEF Socket!NextService, SocketIInv, PathInv, Socket!TypeOK, TraceInv
  <2>4. ReaderInv'
    BY <1>13, RowFacts DEF Socket!NextService, SocketIInv, ReaderInv, Socket!TypeOK, TraceInv
  <2>5. ProofInv'
    BY <1>13, RowFacts DEF Socket!NextService, SocketIInv, ProofInv, Socket!TypeOK, TraceInv,
       PathInv, ReaderInv
  <2> QED BY <2>1, <2>2, <2>3, <2>4, <2>5 DEF SocketIInv
<1>14. CASE Socket!Replace
  <2>1. Socket!TypeOK'
    BY <1>14, RowFacts DEF Socket!Replace, SocketIInv, Socket!TypeOK, TraceInv
  <2>2. TraceInv'
    BY <1>14, RowFacts DEF Socket!Replace, SocketIInv, TraceInv, Socket!TypeOK
  <2>3. PathInv'
    BY <1>14, RowFacts DEF Socket!Replace, SocketIInv, PathInv, Socket!TypeOK, TraceInv
  <2>4. ReaderInv'
    BY <1>14, RowFacts DEF Socket!Replace, SocketIInv, ReaderInv, Socket!TypeOK, TraceInv
  <2>5. ProofInv'
    BY <1>14, RowFacts DEF Socket!Replace, SocketIInv, ProofInv, Socket!TypeOK, TraceInv, PathInv,
       ReaderInv
  <2> QED BY <2>1, <2>2, <2>3, <2>4, <2>5 DEF SocketIInv
<1>15. CASE Socket!BindBegins
  <2>1. Socket!TypeOK'
    BY <1>15, RowFacts DEF Socket!BindBegins, SocketIInv, Socket!TypeOK, TraceInv
  <2>2. TraceInv'
    BY <1>15, RowFacts DEF Socket!BindBegins, SocketIInv, TraceInv, Socket!TypeOK
  <2>3. PathInv'
    BY <1>15, RowFacts DEF Socket!BindBegins, SocketIInv, PathInv, Socket!TypeOK, TraceInv
  <2>4. ReaderInv'
    BY <1>15, RowFacts DEF Socket!BindBegins, SocketIInv, ReaderInv, Socket!TypeOK, TraceInv
  <2>5. ProofInv'
    BY <1>15, RowFacts DEF Socket!BindBegins, SocketIInv, ProofInv, Socket!TypeOK, TraceInv,
       PathInv, ReaderInv
  <2> QED BY <2>1, <2>2, <2>3, <2>4, <2>5 DEF SocketIInv
<1>16. CASE Socket!BindReads
  <2>1. Socket!TypeOK'
    BY <1>16, RowFacts DEF Socket!BindReads, Socket!Events, SocketIInv, Socket!TypeOK, TraceInv
  <2>2. TraceInv'
    BY <1>16, RowFacts DEF Socket!BindReads, Socket!Events, SocketIInv, TraceInv, Socket!TypeOK
  <2>3. PathInv'
    BY <1>16, RowFacts DEF Socket!BindReads, Socket!Events, SocketIInv, PathInv, Socket!TypeOK,
       TraceInv
  <2>4. ReaderInv'
    BY <1>16, RowFacts DEF Socket!BindReads, Socket!Events, SocketIInv, ReaderInv, Socket!TypeOK,
       TraceInv
  <2>5. ProofInv'
    BY <1>16, RowFacts DEF Socket!BindReads, Socket!Events, SocketIInv, ProofInv, Socket!TypeOK,
       TraceInv, PathInv, ReaderInv
  <2> QED BY <2>1, <2>2, <2>3, <2>4, <2>5 DEF SocketIInv
<1>17. CASE Socket!BindLooks
  <2>1. Socket!TypeOK'
    BY <1>17, RowFacts DEF Socket!BindLooks, SocketIInv, Socket!TypeOK, TraceInv
  <2>2. TraceInv'
    BY <1>17, RowFacts DEF Socket!BindLooks, SocketIInv, TraceInv, Socket!TypeOK
  <2>3. PathInv'
    BY <1>17, RowFacts DEF Socket!BindLooks, SocketIInv, PathInv, Socket!TypeOK, TraceInv
  <2>4. ReaderInv'
    BY <1>17, RowFacts DEF Socket!BindLooks, SocketIInv, ReaderInv, Socket!TypeOK, TraceInv
  <2>5. ProofInv'
    BY <1>17, RowFacts DEF Socket!BindLooks, SocketIInv, ProofInv, Socket!TypeOK, TraceInv,
       PathInv, ReaderInv
  <2> QED BY <2>1, <2>2, <2>3, <2>4, <2>5 DEF SocketIInv
<1>18. CASE Socket!BindConfirms
  <2>1. Socket!TypeOK'
    BY <1>18, RowFacts DEF Socket!BindConfirms, SocketIInv, Socket!TypeOK, TraceInv
  <2>2. TraceInv'
    BY <1>18, RowFacts DEF Socket!BindConfirms, SocketIInv, TraceInv, Socket!TypeOK
  <2>3. PathInv'
    BY <1>18, RowFacts DEF Socket!BindConfirms, SocketIInv, PathInv, Socket!TypeOK, TraceInv
  <2>4. ReaderInv'
    BY <1>18, RowFacts DEF Socket!BindConfirms, SocketIInv, ReaderInv, Socket!TypeOK, TraceInv
  <2>5. ProofInv'
    BY <1>18, RowFacts DEF Socket!BindConfirms, SocketIInv, ProofInv, Socket!TypeOK, TraceInv,
       PathInv, ReaderInv
  <2> QED BY <2>1, <2>2, <2>3, <2>4, <2>5 DEF SocketIInv
<1>19. CASE Socket!SignalGuest
  <2>1. Socket!TypeOK'
    BY <1>19, RowFacts DEF Socket!SignalGuest, SocketIInv, Socket!TypeOK, TraceInv
  <2>2. TraceInv'
    BY <1>19, RowFacts DEF Socket!SignalGuest, SocketIInv, TraceInv, Socket!TypeOK
  <2>3. PathInv'
    BY <1>19, RowFacts DEF Socket!SignalGuest, SocketIInv, PathInv, Socket!TypeOK, TraceInv
  <2>4. ReaderInv'
    BY <1>19, RowFacts DEF Socket!SignalGuest, SocketIInv, ReaderInv, Socket!TypeOK, TraceInv
  <2>5. ProofInv'
    BY <1>19, RowFacts DEF Socket!SignalGuest, SocketIInv, ProofInv, Socket!TypeOK, TraceInv,
       PathInv, ReaderInv
  <2> QED BY <2>1, <2>2, <2>3, <2>4, <2>5 DEF SocketIInv
<1>20. CASE Socket!PollReads
  <2>1. Socket!TypeOK'
    BY <1>20, RowFacts DEF Socket!PollReads, Socket!Events, SocketIInv, Socket!TypeOK, TraceInv
  <2>2. TraceInv'
    BY <1>20, RowFacts DEF Socket!PollReads, Socket!Events, SocketIInv, TraceInv, Socket!TypeOK
  <2>3. PathInv'
    BY <1>20, RowFacts DEF Socket!PollReads, Socket!Events, SocketIInv, PathInv, Socket!TypeOK,
       TraceInv
  <2>4. ReaderInv'
    BY <1>20, RowFacts DEF Socket!PollReads, Socket!Events, SocketIInv, ReaderInv, Socket!TypeOK,
       TraceInv
  <2>5. ProofInv'
    BY <1>20, RowFacts DEF Socket!PollReads, Socket!Events, SocketIInv, ProofInv, Socket!TypeOK,
       TraceInv, PathInv, ReaderInv
  <2> QED BY <2>1, <2>2, <2>3, <2>4, <2>5 DEF SocketIInv
<1>21. CASE Socket!PollLooks
  <2>1. Socket!TypeOK'
    BY <1>21, RowFacts DEF Socket!PollLooks, Socket!Retired, SocketIInv, Socket!TypeOK, TraceInv
  <2>2. TraceInv'
    BY <1>21, RowFacts DEF Socket!PollLooks, Socket!Retired, SocketIInv, TraceInv, Socket!TypeOK
  <2>3. PathInv'
    BY <1>21, RowFacts DEF Socket!PollLooks, Socket!Retired, SocketIInv, PathInv, Socket!TypeOK,
       TraceInv
  <2>4. ReaderInv'
    BY <1>21, RowFacts DEF Socket!PollLooks, Socket!Retired, SocketIInv, ReaderInv, Socket!TypeOK,
       TraceInv
  <2>5. ProofInv'
    <3>1. Socket!Retired = "retired" => rows = Both
      BY <1>21, RowFacts DEF Socket!PollLooks, Socket!Retired, SocketIInv, Socket!TypeOK, ReaderInv
    <3>2. Socket!Retired = "error" => taken
      BY <1>21, RowFacts DEF Socket!PollLooks, Socket!Retired, Bound, Both, SocketIInv,
         Socket!TypeOK, TraceInv, PathInv, ReaderInv
    <3>3. /\ receipt' = (receipt \/ Socket!Retired = "retired") /\ verdict' = Socket!Retired
          /\ ctl' # "found" \/ Socket!Retired = "retired"
      BY <1>21 DEF Socket!PollLooks
    <3> QED BY <1>21, <3>1, <3>2, <3>3, Zenon DEF Socket!PollLooks, SocketIInv, ProofInv
  <2> QED BY <2>1, <2>2, <2>3, <2>4, <2>5 DEF SocketIInv
<1>22. CASE Socket!SignalService
  <2>1. Socket!TypeOK'
    BY <1>22, RowFacts DEF Socket!SignalService, SocketIInv, Socket!TypeOK, TraceInv
  <2>2. TraceInv'
    BY <1>22, RowFacts DEF Socket!SignalService, SocketIInv, TraceInv, Socket!TypeOK
  <2>3. PathInv'
    BY <1>22, RowFacts DEF Socket!SignalService, SocketIInv, PathInv, Socket!TypeOK, TraceInv
  <2>4. ReaderInv'
    BY <1>22, RowFacts DEF Socket!SignalService, SocketIInv, ReaderInv, Socket!TypeOK, TraceInv
  <2>5. ProofInv'
    BY <1>22, RowFacts DEF Socket!SignalService, SocketIInv, ProofInv, Socket!TypeOK, TraceInv,
       PathInv, ReaderInv
  <2> QED BY <2>1, <2>2, <2>3, <2>4, <2>5 DEF SocketIInv
<1>23. CASE Socket!Reaped
  <2>1. Socket!TypeOK'
    BY <1>23, RowFacts DEF Socket!Reaped, SocketIInv, Socket!TypeOK, TraceInv
  <2>2. TraceInv'
    BY <1>23, RowFacts DEF Socket!Reaped, SocketIInv, TraceInv, Socket!TypeOK
  <2>3. PathInv'
    BY <1>23, RowFacts DEF Socket!Reaped, SocketIInv, PathInv, Socket!TypeOK, TraceInv
  <2>4. ReaderInv'
    BY <1>23, RowFacts DEF Socket!Reaped, SocketIInv, ReaderInv, Socket!TypeOK, TraceInv
  <2>5. ProofInv'
    BY <1>23, RowFacts DEF Socket!Reaped, SocketIInv, ProofInv, Socket!TypeOK, TraceInv, PathInv,
       ReaderInv
  <2> QED BY <2>1, <2>2, <2>3, <2>4, <2>5 DEF SocketIInv
<1>24. CASE Socket!Deadline
  <2>1. Socket!TypeOK'
    BY <1>24, RowFacts DEF Socket!Deadline, SocketIInv, Socket!TypeOK, TraceInv
  <2>2. TraceInv'
    BY <1>24, RowFacts DEF Socket!Deadline, SocketIInv, TraceInv, Socket!TypeOK
  <2>3. PathInv'
    BY <1>24, RowFacts DEF Socket!Deadline, SocketIInv, PathInv, Socket!TypeOK, TraceInv
  <2>4. ReaderInv'
    BY <1>24, RowFacts DEF Socket!Deadline, SocketIInv, ReaderInv, Socket!TypeOK, TraceInv
  <2>5. ProofInv'
    BY <1>24, RowFacts DEF Socket!Deadline, SocketIInv, ProofInv, Socket!TypeOK, TraceInv, PathInv,
       ReaderInv
  <2> QED BY <2>1, <2>2, <2>3, <2>4, <2>5 DEF SocketIInv
<1>25. CASE UNCHANGED Socket!vars
  <2> USE <1>25 DEF Socket!vars, SocketIInv
  <2>1. Socket!TypeOK'
    BY DEF Socket!TypeOK
  <2>2. TraceInv' /\ PathInv'
    BY DEF TraceInv, PathInv
  <2>3. ReaderInv' /\ ProofInv'
    BY DEF ReaderInv, ProofInv
  <2> QED BY <2>1, <2>2, <2>3
<1> QED BY <1>1, <1>2, <1>3, <1>4, <1>5, <1>6, <1>7, <1>8, <1>9, <1>10, <1>11, <1>12, <1>13, <1>14,
           <1>15, <1>16, <1>17, <1>18, <1>19, <1>20, <1>21, <1>22, <1>23, <1>24, <1>25
           DEF Socket!Next, Socket!Virtmgr, Socket!Controller

\* GuestEndpoint, with every failure and replacement of the path: a receipt proves that
\* the destructor in virtmgr retired the socket, the TERM of the controller does not cut it
\* off, and a trace or a path in the middle of a change raises no alarm.
THEOREM RetirementStaysTrue == Socket!Spec => []RetirementIsTrue
<1>1. Socket!Init => SocketIInv
  <2> SUFFICES ASSUME Socket!Init PROVE SocketIInv
    OBVIOUS
  <2>1. Socket!TypeOK
    <3>1. rows \in Socket!Records /\ seen \in [rows : Socket!Records, tail : BOOLEAN]
      BY DEF Socket!Init, Socket!Nothing, Socket!Records
    <3> QED BY <3>1, Zenon DEF Socket!Init, Socket!TypeOK
  <2>2. TraceInv /\ PathInv /\ ReaderInv /\ ProofInv
    BY RowFacts DEF Socket!Init, Socket!Nothing, TraceInv, PathInv, ReaderInv, ProofInv
  <2> QED BY <2>1, <2>2 DEF SocketIInv
<1>2. SocketIInv => RetirementIsTrue
  BY RowFacts DEF SocketIInv, Socket!TypeOK, TraceInv, PathInv, ReaderInv, ProofInv,
     RetirementIsTrue, Socket!RetirementIsTrue, Socket!RetirementProven, Socket!ServiceMayFinish,
     Socket!NoFalseAlarm, Both
<1> QED BY <1>1, <1>2, SocketIInvStep, PTL DEF Socket!Spec

-----------------------------------------------------------------------------
(* The registry's invariants for every set of processes, every choice of      *)
(* their base CIDs and every set of instance ids.                             *)

INSTANCE FiniteSetTheorems


USE CidAssumption, IdAssumption

\* There are finitely many CIDs, so the contexts of a process can be counted.
LEMMA ContextsFinite ==
    ASSUME TypeOK, NEW p \in Process
    PROVE  IsFiniteSet(contexts[p]) /\ Cardinality(contexts[p]) \in Nat
<1>1. IsFiniteSet(Cid)
  BY FS_Interval DEF Cid
<1>2. contexts[p] \subseteq Cid
  BY DEF TypeOK
<1> QED BY <1>1, <1>2, FS_Subset, FS_CardinalityType

\* A new element is counted.
LEMMA OneMore ==
    ASSUME NEW S, IsFiniteSet(S), NEW x, x \notin S
    PROVE  Cardinality(S \cup {x}) = Cardinality(S) + 1
BY FS_AddElement

\* The CIDs of a process that has none.
LEMMA EmptyInterval == \A b \in Int : b .. b + 0 - 1 = {}
OBVIOUS

\* The CIDs of a process grow by the next one.
LEMMA IntervalGrows ==
    ASSUME NEW b \in Int, NEW k \in Nat
    PROVE  (b .. b + k - 1) \cup {b + k} = b .. b + (k + 1) - 1
OBVIOUS

\* The CID an allocation takes is new to every process and in range.
LEMMA AllocatedCid ==
    ASSUME TypeOK, NEW p \in Process, AllocateVmContext(p)
    PROVE  /\ NextCid(p) \in Cid
           /\ \A q \in Process : NextCid(p) \notin contexts[q]
           /\ contexts' = [contexts EXCEPT ![p] = @ \cup {NextCid(p)}]
           /\ client' = [client EXCEPT ![p] = @ \cup {NextCid(p)}]
           /\ UNCHANGED <<registered, owned, claims, child, dropping>>
<1>1. NextCid(p) \in Int /\ NextCid(p) >= 3
  BY ContextsFinite DEF NextCid
<1>2. NextCid(p) <= CidMax
  BY DEF AllocateVmContext, InRange
<1>3. NextCid(p) \in Cid
  BY <1>1, <1>2 DEF Cid
<1> QED BY <1>3 DEF AllocateVmContext, Acquire, Open

\* The state keeps its type, whatever processes allocate, fork and crash.
THEOREM TypeCorrect == Spec => []TypeOK
<1>1. Init => TypeOK
  BY DEF Init, TypeOK, Nothing
<1>2. TypeOK /\ [Next]_vars => TypeOK'
  <2> SUFFICES ASSUME TypeOK, [Next]_vars PROVE TypeOK'
    OBVIOUS
  <2> USE DEF TypeOK
  <2>1. CASE UNCHANGED vars
    BY <2>1 DEF vars
  <2>2. ASSUME NEW p \in Process, AllocateVmContext(p) PROVE TypeOK'
    BY <2>2, AllocatedCid
  <2>3. ASSUME NEW p \in Process, Fork(p) \/ Exec(p) \/ Crash(p) PROVE TypeOK'
    <3>1. CASE Fork(p)
      BY <3>1 DEF Fork, Key
    <3>2. CASE Exec(p)
      BY <3>2 DEF Exec
    <3>3. CASE Crash(p)
      BY <3>3 DEF Crash
    <3> QED BY <2>3, <3>1, <3>2, <3>3
  <2>4. ASSUME NEW p \in Process, NEW cid \in Cid,
               \/ RegisterVirtualMachine(p, cid) \/ RetainForStart(p, cid)
               \/ ReleaseOwnedRegistration(p, cid) \/ Dropped(p, cid) \/ ClientDrops(p, cid)
        PROVE  TypeOK'
    <3>1. CASE RegisterVirtualMachine(p, cid)
      BY <3>1 DEF RegisterVirtualMachine
    <3>2. CASE RetainForStart(p, cid)
      BY <3>2 DEF RetainForStart
    <3>3. CASE ReleaseOwnedRegistration(p, cid)
      BY <3>3 DEF ReleaseOwnedRegistration
    <3>4. CASE Dropped(p, cid)
      BY <3>4 DEF Dropped
    <3>5. CASE ClientDrops(p, cid)
      BY <3>5 DEF ClientDrops
    <3> QED BY <2>4, <3>1, <3>2, <3>3, <3>4, <3>5
  <2>5. ASSUME NEW p \in Process, NEW id \in Id, ClaimVmInstance(p, id) \/ RemoveVmInstance(p, id)
        PROVE  TypeOK'
    <3>1. CASE ClaimVmInstance(p, id)
      BY <3>1 DEF ClaimVmInstance
    <3>2. CASE RemoveVmInstance(p, id)
      BY <3>2 DEF RemoveVmInstance
    <3> QED BY <2>5, <3>1, <3>2
  <2> QED
    BY <2>1, <2>2, <2>3, <2>4, <2>5 DEF Next, Step
<1> QED BY <1>1, <1>2, PTL DEF Spec

\* No CID and no instance id has two owners: inductive together with the types,
\* for a lease is taken only where no process and no child has the file open.
THEOREM LeasesStayExclusive == Spec => []LeasesExclusive
<1>1. Init => LeasesExclusive
  BY DEF Init, LeasesExclusive, Nothing
<1>2. TypeOK /\ LeasesExclusive /\ [Next]_vars => LeasesExclusive'
  <2> SUFFICES ASSUME TypeOK, LeasesExclusive, [Next]_vars PROVE LeasesExclusive'
    OBVIOUS
  <2> USE DEF LeasesExclusive
  <2>1. CASE UNCHANGED vars
    BY <2>1, Zenon DEF vars
  <2>2. ASSUME NEW p \in Process, AllocateVmContext(p) PROVE LeasesExclusive'
    BY <2>2, AllocatedCid DEF TypeOK
  <2>3. ASSUME NEW p \in Process, Crash(p) PROVE LeasesExclusive'
    BY <2>3 DEF Crash, TypeOK
  <2>4. ASSUME NEW p \in Process, NEW id \in Id, ClaimVmInstance(p, id) PROVE LeasesExclusive'
    BY <2>4 DEF ClaimVmInstance, Acquire, Open, TypeOK
  <2>5. ASSUME NEW p \in Process, NEW id \in Id, RemoveVmInstance(p, id) PROVE LeasesExclusive'
    BY <2>5 DEF RemoveVmInstance, TypeOK
  <2>6. ASSUME NEW p \in Process, NEW cid \in Cid,
               \/ RegisterVirtualMachine(p, cid) \/ RetainForStart(p, cid)
               \/ ReleaseOwnedRegistration(p, cid) \/ Dropped(p, cid) \/ ClientDrops(p, cid)
        PROVE  LeasesExclusive'
    <3>1. UNCHANGED <<contexts, claims, child>>
      BY <2>6 DEF RegisterVirtualMachine, RetainForStart, ReleaseOwnedRegistration, Dropped,
         ClientDrops
    <3> QED BY <3>1
  <2>7. ASSUME NEW p \in Process, Fork(p) \/ Exec(p) PROVE LeasesExclusive'
    BY <2>7 DEF Fork, Exec
  <2> QED
    BY <2>1, <2>2, <2>3, <2>4, <2>5, <2>6, <2>7, Zenon DEF Next, Step
<1> QED BY <1>1, <1>2, TypeCorrect, PTL DEF Spec

\* The number of contexts always names the next free CID of the process.
THEOREM ContextsStayContiguous == Spec => []Contiguous
<1>1. Init => Contiguous
  <2>1. ASSUME Init, NEW p \in Process
        PROVE  contexts[p] = base[p] .. base[p] + Cardinality(contexts[p]) - 1
    <3>1. contexts[p] = {} /\ Cardinality(contexts[p]) = 0
      BY <2>1, FS_EmptySet DEF Init, Nothing
    <3> QED BY <3>1
  <2> QED BY <2>1 DEF Contiguous
<1>2. TypeOK /\ Contiguous /\ [Next]_vars => Contiguous'
  <2> SUFFICES ASSUME TypeOK, Contiguous, [Next]_vars PROVE Contiguous'
    OBVIOUS
  <2>1. ASSUME contexts' = contexts PROVE Contiguous'
    BY <2>1 DEF Contiguous
  <2>2. ASSUME NEW p \in Process, AllocateVmContext(p) PROVE Contiguous'
    <3> SUFFICES ASSUME NEW q \in Process
                 PROVE  contexts'[q] = base[q] .. base[q] + Cardinality(contexts'[q]) - 1
      BY DEF Contiguous
    <3> DEFINE n == Cardinality(contexts[p])
    <3>1. IsFiniteSet(contexts[p]) /\ n \in Nat /\ base[p] \in Int
      BY ContextsFinite DEF Cid
    <3>2. NextCid(p) = base[p] + n /\ NextCid(p) \notin contexts[p]
      BY <2>2, AllocatedCid DEF NextCid
    <3>3. CASE q = p
      <4>1. contexts'[p] = contexts[p] \cup {NextCid(p)}
        BY <2>2, AllocatedCid DEF TypeOK
      <4>2. Cardinality(contexts'[p]) = n + 1
        <5>1. Cardinality(contexts[p] \cup {NextCid(p)}) = Cardinality(contexts[p]) + 1
          BY <3>1, <3>2, OneMore
        <5> QED BY <4>1, <5>1
      <4>3. contexts[p] = base[p] .. base[p] + n - 1
        BY DEF Contiguous
      <4>4. contexts'[p] = base[p] .. base[p] + (n + 1) - 1
        <5> HIDE DEF n
        <5> QED BY <4>1, <4>3, <3>1, <3>2, IntervalGrows
      <4> QED BY <3>3, <4>2, <4>4
    <3>4. CASE q # p
      <4>1. contexts'[q] = contexts[q]
        BY <2>2, <3>4, AllocatedCid DEF TypeOK
      <4> QED BY <4>1 DEF Contiguous
    <3> QED BY <3>3, <3>4
  <2>3. ASSUME NEW p \in Process, Crash(p) PROVE Contiguous'
    <3> SUFFICES ASSUME NEW q \in Process
                 PROVE  contexts'[q] = base[q] .. base[q] + Cardinality(contexts'[q]) - 1
      BY DEF Contiguous
    <3>1. CASE q = p
      <4>1. contexts'[q] = {} /\ Cardinality(contexts'[q]) = 0
        BY <2>3, <3>1, FS_EmptySet DEF Crash, TypeOK
      <4> QED BY <4>1, EmptyInterval DEF Cid
    <3>2. CASE q # p
      <4>1. contexts'[q] = contexts[q]
        BY <2>3, <3>2 DEF Crash, TypeOK
      <4> QED BY <4>1 DEF Contiguous
    <3> QED BY <3>1, <3>2
  <2>4. CASE UNCHANGED vars
    BY <2>1, <2>4 DEF vars
  <2> QED
    <3>1. CASE contexts' = contexts
      BY <2>1, <3>1
    <3>2. CASE contexts' # contexts
      <4>1. PICK p \in Process : Step(p)
        BY <2>4, <3>2 DEF Next, vars
      <4>2. AllocateVmContext(p) \/ Crash(p)
        BY <3>2, <4>1, ZenonT(60) DEF Step, Fork, Exec, RegisterVirtualMachine, RetainForStart,
           ReleaseOwnedRegistration, Dropped, ClientDrops, ClaimVmInstance, RemoveVmInstance
      <4> QED BY <2>2, <2>3, <4>2
    <3> QED BY <3>1, <3>2
<1> QED BY <1>1, <1>2, TypeCorrect, PTL DEF Spec

\* What the service owns is registered, what is registered is leased.
THEOREM OwnedStaysRegistered == Spec => []OwnedIsRegistered
<1>1. Init => OwnedIsRegistered
  BY DEF Init, OwnedIsRegistered, Nothing
<1>2. TypeOK /\ OwnedIsRegistered /\ [Next]_vars => OwnedIsRegistered'
  <2> SUFFICES ASSUME TypeOK, OwnedIsRegistered, [Next]_vars PROVE OwnedIsRegistered'
    OBVIOUS
  <2> USE DEF OwnedIsRegistered, TypeOK
  <2>1. CASE UNCHANGED vars
    BY <2>1 DEF vars
  <2>2. ASSUME NEW p \in Process, AllocateVmContext(p) PROVE OwnedIsRegistered'
    BY <2>2, AllocatedCid
  <2>3. ASSUME NEW p \in Process, Fork(p) \/ Exec(p) \/ Crash(p) PROVE OwnedIsRegistered'
    <3>1. CASE Fork(p) \/ Exec(p)
      BY <3>1 DEF Fork, Exec
    <3>2. CASE Crash(p)
      BY <3>2 DEF Crash
    <3> QED BY <2>3, <3>1, <3>2
  <2>4. ASSUME NEW p \in Process, NEW cid \in Cid,
               \/ RegisterVirtualMachine(p, cid) \/ RetainForStart(p, cid)
               \/ ReleaseOwnedRegistration(p, cid) \/ Dropped(p, cid) \/ ClientDrops(p, cid)
        PROVE  OwnedIsRegistered'
    <3>1. CASE RegisterVirtualMachine(p, cid)
      BY <3>1 DEF RegisterVirtualMachine
    <3>2. CASE RetainForStart(p, cid)
      BY <3>2 DEF RetainForStart
    <3>3. CASE ReleaseOwnedRegistration(p, cid)
      BY <3>3 DEF ReleaseOwnedRegistration
    <3>4. CASE Dropped(p, cid) \/ ClientDrops(p, cid)
      BY <3>4 DEF Dropped, ClientDrops
    <3> QED BY <2>4, <3>1, <3>2, <3>3, <3>4
  <2>5. ASSUME NEW p \in Process, NEW id \in Id, ClaimVmInstance(p, id) \/ RemoveVmInstance(p, id)
        PROVE  OwnedIsRegistered'
    BY <2>5 DEF ClaimVmInstance, RemoveVmInstance
  <2> QED
    BY <2>1, <2>2, <2>3, <2>4, <2>5, ZenonT(60) DEF Next, Step
<1> QED BY <1>1, <1>2, TypeCorrect, PTL DEF Spec

\* The registry is sound for any processes, CIDs and instances: leases are exclusive
\* between processes, contexts contiguous, and what is owned is registered.
THEOREM RegistryStaysSound == Spec => []RegistrySound
  BY TypeCorrect, LeasesStayExclusive, ContextsStayContiguous, OwnedStaysRegistered, PTL
  DEF RegistrySound
=============================================================================
