SPECIFICATION Spec
CONSTANTS
    Senders = {s1, s2}
    Main = main
    Self = self
    MaxSend = 2
    MaxCommands = 1
INVARIANTS NoLostWakeup AtMostOneUpdate
PROPERTY ImplementsMailbox
CHECK_DEADLOCK FALSE
