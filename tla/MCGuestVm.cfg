SPECIFICATION Spec
CONSTANTS
    Clients = {c1, c2}
    Guests = {g1, g2}
    Notices = {"Started", "Ready", "Finished", "Agent"}
    DetectHangup = TRUE
SYMMETRY Symmetry
CHECK_DEADLOCK FALSE
INVARIANTS DeathIsFinal
PROPERTIES ObeyedKeepsPromise
