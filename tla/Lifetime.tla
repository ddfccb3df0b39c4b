------------------------------- MODULE Lifetime -------------------------------
(***************************************************************************)
(* What one attempt promises to the rest of the system, whatever its       *)
(* platform: the states it publishes and how they relate to the session of *)
(* processes it launched.  STOPPED needs an ended session, UNKNOWN is      *)
(* final, and a session is launched once.                                  *)
(***************************************************************************)
VARIABLES
    state,      \* the published state of the attempt
    session,    \* "none" before the launch, "live", or "ended" for good
    released    \* the controller has let go of the attempt

vars == <<state, session, released>>

Init == state = "STARTING" /\ session = "none" /\ released = FALSE

Launch ==
    /\ state = "STARTING" /\ session = "none"
    /\ session' = "live"
    /\ UNCHANGED <<state, released>>

End ==
    /\ session = "live"
    /\ session' = "ended"
    /\ UNCHANGED <<state, released>>

\* A healthy attempt moves forward; only an ended session is STOPPED.
Advance ==
    /\ ~released
    /\ \/ state = "STARTING" /\ session # "none" /\ state' = "RUNNING"
       \/ state = "RUNNING" /\ state' = "STOPPING"
       \/ state = "STOPPING" /\ session = "ended" /\ state' = "STOPPED"
    /\ UNCHANGED <<session, released>>

\* Any state may be given up, STOPPED included while it is being published.
Fail ==
    /\ ~released
    /\ state' = "UNKNOWN"
    /\ released' \in BOOLEAN
    /\ UNCHANGED session

Release ==
    /\ ~released
    /\ state \in {"STOPPED", "UNKNOWN"}
    /\ released' = TRUE
    /\ UNCHANGED <<state, session>>

Next == Launch \/ End \/ Advance \/ Fail \/ Release

Spec == Init /\ [][Next]_vars

=============================================================================
