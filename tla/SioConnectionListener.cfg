SPECIFICATION Spec
CONSTANTS
    Attempts = 1
    MaxReady = 2
INVARIANT CloseListenerCalled
