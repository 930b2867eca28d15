SPECIFICATION Spec
CONSTANTS
    MaxMessages <- ClientSends
    MaxSockets = 2
    MaxWire = 1
    MaxDrops = 1
INVARIANTS TypeOK NothingForgotten MessagesWatched HandshakeKeepsOut
    EndsKnow
PROPERTIES Implements
CHECK_DEADLOCK FALSE
