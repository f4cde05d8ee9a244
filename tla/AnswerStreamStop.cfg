SPECIFICATION Spec
CONSTANTS
    Width <- MCWidth
    NewLine = "nl"
    Space = "sp"
    Requests <- MCRequests
    Earlier = {0, 1, 3}
INVARIANTS StopWordNeverSent
CHECK_DEADLOCK FALSE
