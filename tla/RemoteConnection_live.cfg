SPECIFICATION FairSpec
CONSTANTS
    MaxMessages <- BothSend
    MaxSockets = 1
    MaxWire = 1
    MaxDrops = 0
PROPERTIES Delivered
CHECK_DEADLOCK FALSE
