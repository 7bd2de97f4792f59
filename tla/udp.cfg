SPECIFICATION FairSpec
CONSTANTS
    SnMod = 16
    StartSn = 15
    SndWnd = 2
    RcvWnd = 3
    Mss = 16
    Overhead = 8
    FastResend = 1
    FastLimit = 0
    DeadLink = 1
    Sizes = {2}
    MaxSend <- ClientSends
    MaxNet <- ReorderData
    MaxInbox = 1
    MaxAcks = 1
INVARIANTS NothingLost WindowsAligned
PROPERTIES Reliable 
CHECK_DEADLOCK FALSE
