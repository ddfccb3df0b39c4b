SPECIFICATION PartsSpec
CONSTANTS
    Members = {virtmgr, guest}
    MaxCalls = 2
    Children = {"service", "guest"}
    Guests = {"guest"}
    MaxWritten = 4
    PipeCapacity = 2
    Limit = 3
    Chunk = 2
    QueueSize = 2
    MaxLines = 3
    MaxLength = 5
INVARIANTS OwnerSafe JobIsOwned ReceiptIsTrue LinesKept AnswerIsJudged
PROPERTIES OwnerSteps ControllerSettles
