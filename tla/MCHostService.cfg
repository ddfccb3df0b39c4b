SPECIFICATION PartsSpec
CONSTANTS
    Process = {"a", "b"}
    base <- Bases
    CidMax = 4
    Id = {i1}
    MacClients = {c1, c2, c3}
    Observations = 2
INVARIANTS RegistrySound StopIsProven RetirementIsTrue
PROPERTIES ServiceSettles
