CONSTANTS
    NoChain = NoChain
SPECIFICATION PartsSpec
INVARIANTS QueueSound
PROPERTIES ChainComesBack
