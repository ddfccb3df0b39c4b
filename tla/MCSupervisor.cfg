SPECIFICATION Spec
CONSTANT MaxRequest = 2
CHECK_DEADLOCK FALSE
INVARIANTS StoppedIsProven TerminalOwnsNothing StopSentOnce TaskResultIsAnswered
PROPERTIES SilentAfterUnanswered SignalOnlyIdleService ImplementsLifetime
