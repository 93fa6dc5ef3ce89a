\* A thread past the guards when the network thread clears m_client.
CONSTANTS
    Net = net
    AppThreads = {a1}
    MaxEmits = 2
    MaxAcks = 0
    MaxLinks = 1
SPECIFICATION Spec
INVARIANT ClientPresentWhenUsed
CHECK_DEADLOCK FALSE
