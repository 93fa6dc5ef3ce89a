SPECIFICATION Spec
CONSTANTS
    Attempts = 0
    MaxReady = 2
PROPERTY SyncCloseReturns
