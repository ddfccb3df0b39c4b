-------------------------------- MODULE Msix --------------------------------
(***************************************************************************)
(* MsixConfig of crosvm (devices/src/pci/msix.rs): the MSI-X capability,   *)
(* table and pending bits of one PCI device.  The guest writes the         *)
(* capability and the table, the device triggers vectors; both hold the    *)
(* lock of the configuration, so every call is one step.  The interrupt a  *)
(* vector sends (irqfd, gsi) is allocated when the vector is first open,   *)
(* and the hypervisor's route for it is told when its message changes.     *)
(*                                                                         *)
(* owed is a history: the device triggered the vector and the guest has    *)
(* not been sent it.  early, blind and stale are histories of the orders   *)
(* in which the code does not deliver: a vector triggered before it had an *)
(* irq, one opened under the function mask, and one whose message changed  *)
(* with MSI-X disabled or whose route was refused.                         *)
(***************************************************************************)
EXTENDS Naturals, FiniteSets

CONSTANTS Vectors,       \* indices of the table
          Messages,      \* message addresses and data, zero for none
          MayFail        \* AllocateOneMsi and AddMsiRoute may be refused

VARIABLES enabled, masked,  \* the two bits of the capability
          ctl,              \* per vector: the mask bit of vector_ctl
          msg,              \* per vector: msg_addr and msg_data
          pba,              \* the vectors whose pending bit is set
          irq,              \* the vectors that have an irqfd and a gsi
          route,            \* per vector: the message the hypervisor sends
          owed, sent,       \* history: vectors owed, vectors sent by the last step
          early, blind,     \* history: see above
          stale

vars == <<enabled, masked, ctl, msg, pba, irq, route, owed, sent, early, blind, stale>>

TypeOK ==
    /\ enabled \in BOOLEAN /\ masked \in BOOLEAN
    /\ ctl \in [Vectors -> BOOLEAN] /\ msg \in [Vectors -> Messages]
    /\ pba \subseteq Vectors /\ irq \subseteq Vectors
    /\ route \in [Vectors -> Messages]
    /\ owed \subseteq Vectors /\ sent \subseteq Vectors
    /\ early \subseteq Vectors /\ blind \subseteq Vectors /\ stale \subseteq Vectors

Init ==
    /\ enabled = FALSE /\ masked = FALSE
    /\ ctl = [v \in Vectors |-> TRUE] /\ msg = [v \in Vectors |-> 0]
    /\ pba = {} /\ irq = {} /\ route = [v \in Vectors |-> 0]
    /\ owed = {} /\ sent = {} /\ early = {} /\ blind = {} /\ stale = {}

-----------------------------------------------------------------------------

\* The vectors that an enabled function would have open without an irq.
Unarmed(e, c, ii) == {v \in Vectors : e /\ ~c[v] /\ v \notin ii}

\* add_msi_route for the vectors vs and the table g, refused for those of bad:
\* nothing is told for a message without an address.
AddMsiRoute(vs, g, bad) ==
    route' = [v \in Vectors |-> IF v \in vs \ bad /\ g[v] # 0 THEN g[v] ELSE route[v]]

\* What the last call leaves of the histories: a vector that was sent is owed
\* no more; opened under the function mask is what the capability or the table
\* leaves open, without an irq, in an enabled function.
Marks ==
    /\ early' = early \cap (pba' \cup owed')
    /\ blind' = (blind \ sent') \cup Unarmed(enabled' /\ masked', ctl', irq')

\* inject_msix_and_clear_pba for the vectors vs, with the irqs of ii.
Inject(vs, ii) ==
    /\ pba' = pba \ vs /\ sent' = vs \cap ii /\ owed' = owed \ (vs \cap ii)

\* Mutant: a vector that was pending is not looked for.
FlushNothing(m, c) == {}

\* The vectors to inject when the function mask is cleared.
Flush(m, c) == IF masked /\ ~m THEN {v \in pba : ~c[v]} ELSE {}

\* write_msix_capability.  msix_enable_all goes up the table until a vector
\* is refused its irq, or has its irq and is refused the route.
WriteCapability(e, m, done, bad) ==
    LET wanted == IF ~enabled /\ ~m THEN Unarmed(e, ctl, irq) ELSE {}
    IN  /\ done \subseteq wanted /\ bad \subseteq done
        /\ done # wanted \/ bad # {} => MayFail
        /\ \A v \in done : \A w \in wanted \ done : v < w
        /\ \A v \in bad : msg[v] # 0 /\ \A w \in done : w <= v
        /\ irq' = irq \cup done /\ AddMsiRoute(done, msg, bad)
        /\ masked' = m /\ enabled' = (e /\ done = wanted /\ bad = {})
        /\ Inject(Flush(m, ctl), irq')
        /\ stale' = (stale \ done) \cup bad
        /\ UNCHANGED <<ctl, msg>>
        /\ Marks

\* The vector to inject when its own mask is cleared.
Pending(v, c) == IF ~masked /\ ctl[v] /\ ~c THEN pba \cap {v} ELSE {}

\* The route is told again when the message changed.
Rewritten(v, g) == IF enabled /\ msg[v] # g THEN {v} \cap irq ELSE {}

\* write_msix_table of a vector's message, its control or both.  A vector open
\* for the first time gets its irq and its route, and is masked again when one
\* of them is refused; another one is injected.  A route refused to a vector
\* that has its irq is only logged.
WriteTable(v, g, c, got, bad) ==
    LET first == enabled /\ ~masked /\ v \notin irq /\ ctl[v] /\ ~c
        told == IF first THEN {v} \cap got ELSE Rewritten(v, g)
    IN  /\ msg' = [msg EXCEPT ![v] = g]
        /\ got = {v} \/ (first /\ MayFail)
        /\ bad # {} => MayFail /\ g # 0
        /\ bad \subseteq told
        /\ ctl' = [ctl EXCEPT ![v] = c \/ (first /\ (got = {} \/ bad # {}))]
        /\ irq' = IF first THEN irq \cup got ELSE irq
        /\ AddMsiRoute(told, msg', bad)
        /\ IF first THEN Inject({}, {}) ELSE Inject(Pending(v, c), irq)
        /\ stale' = (IF ~enabled /\ v \in irq /\ msg[v] # g THEN stale \cup {v} ELSE stale \ told)
                    \cup bad
        /\ UNCHANGED <<enabled, masked>>
        /\ Marks

Closed(v) == ctl[v] \/ masked

\* trigger, called while MSI-X is enabled.
Trigger(v) ==
    /\ enabled
    /\ pba' = IF Closed(v) THEN pba \cup {v} ELSE pba
    /\ sent' = IF Closed(v) THEN {} ELSE {v} \cap irq
    /\ owed' = (owed \cup {v}) \ sent'
    /\ early' = (early \cup ({v} \ irq)) \cap (pba' \cup owed')
    /\ blind' = blind \ sent'
    /\ UNCHANGED <<enabled, masked, ctl, msg, irq, route, stale>>

\* restore of the device's own snapshot: every irq is released and made
\* again at its gsi, and its route told from the table.
Restore ==
    /\ irq # {} /\ AddMsiRoute(irq, msg, {})
    /\ sent' = {} /\ stale' = stale \ irq
    /\ UNCHANGED <<enabled, masked, ctl, msg, pba, irq, owed, early, blind>>

Next ==
    \/ \E e, m \in BOOLEAN, done \in SUBSET Vectors : \E bad \in SUBSET done :
           WriteCapability(e, m, done, bad)
    \/ \E v \in Vectors, g \in Messages, c \in BOOLEAN : \E got, bad \in SUBSET {v} :
           WriteTable(v, g, c, got, bad)
    \/ \E v \in Vectors : Trigger(v)
    \/ Restore

Spec == Init /\ [][Next]_vars

-----------------------------------------------------------------------------
(* Properties.                                                             *)

\* A triggered vector is sent, or its pending bit stands while it is masked:
\* whatever the guest masks, unmasks, disables or enables around the trigger
\* no interrupt is forgotten (trigger, inject_msix_and_clear_pba).  The code
\* does not keep this for a vector triggered before it had its irq, whose
\* first opening injects nothing, nor for one opened under the function mask,
\* which clearing that mask gives no irq.
OwedIsPending ==
    \A v \in owed : (v \in pba /\ (masked \/ ctl[v])) \/ v \in early \cup blind

\* An open vector of an enabled function has an irq to send with, unless it
\* was opened under the function mask.
OpenHasIrq == Unarmed(enabled, ctl, irq) \subseteq blind

\* A pending bit is cleared by sending, or where there is no irq to send with.
PendingLeaves == [][\A v \in pba \ pba' : v \in sent' \/ v \notin irq']_vars

\* Nothing is sent through a vector that the guest has masked, and nothing
\* is sent that the device did not trigger; the pending bit of a vector
\* triggered before it had its irq may be sent a second time.
SentIsOpen ==
    [][\A v \in sent' : ~masked' /\ ~ctl'[v] /\ (v \in owed \/ enabled \/ v \in early)]_vars

\* What a vector sends is the message that stands in the table, unless that
\* changed with MSI-X disabled, which tells nobody, or the hypervisor refused
\* the route, which the code only logs.
RouteIsCurrent == \A v \in irq : route[v] = msg[v] \/ msg[v] = 0 \/ v \in stale

\* The table delivers: what is owed stays pending, an open vector sends the message of
\* the table, and nothing is sent through a masked one.
MsixSound ==
    [](TypeOK /\ OwedIsPending /\ OpenHasIrq /\ RouteIsCurrent) /\ PendingLeaves /\ SentIsOpen
=============================================================================
