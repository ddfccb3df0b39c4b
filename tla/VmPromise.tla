------------------------------ MODULE VmPromise ------------------------------
(***************************************************************************)
(* What virtmgr promises about one VM, whatever its threads do: the guest  *)
(* process is launched once and under an owner, the owner lets go only of  *)
(* a guest that does not run, the clients are told of the death once and   *)
(* after it, and a stop that succeeds has seen the end of the guest.       *)
(***************************************************************************)
VARIABLES
    guest,      \* the crosvm process: "none", "live", or "ended" for good
    owned,      \* the registry holds the VM for the service
    told,       \* how often the clients have been told that the VM died
    stopped     \* some stop has answered with success

vars == <<guest, owned, told, stopped>>

Init == guest = "none" /\ owned = FALSE /\ told = 0 /\ stopped = FALSE

Own ==
    /\ guest = "none" /\ ~owned
    /\ owned' = TRUE
    /\ UNCHANGED <<guest, told, stopped>>

Launch ==
    /\ guest = "none" /\ owned
    /\ guest' = "live"
    /\ UNCHANGED <<owned, told, stopped>>

End ==
    /\ guest = "live"
    /\ guest' = "ended"
    /\ UNCHANGED <<owned, told, stopped>>

Tell ==
    /\ guest = "ended" /\ told = 0
    /\ told' = 1
    /\ UNCHANGED <<guest, owned, stopped>>

Release ==
    /\ guest # "live" /\ owned
    /\ owned' = FALSE
    /\ UNCHANGED <<guest, told, stopped>>

Stop ==
    /\ guest = "ended"
    /\ stopped' = TRUE
    /\ UNCHANGED <<guest, owned, told>>

Next == Own \/ Launch \/ End \/ Tell \/ Release \/ Stop

Spec == Init /\ [][Next]_vars

=============================================================================
