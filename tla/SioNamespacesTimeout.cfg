\* A late answer and the timeout of the request.
SPECIFICATION Spec
CONSTANTS
    MaxSockets = 1
    MaxLinks = 1
    MaxCloses = 0
PROPERTY TimeoutOnlyUnanswered
CHECK_DEADLOCK FALSE
