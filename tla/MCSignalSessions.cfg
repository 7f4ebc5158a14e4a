SPECIFICATION Spec
CONSTANTS
    alice = alice
    bob = bob
    Parties = {alice, bob}
    Lenient = {bob}
    PreKeyIds = {1}
    MaxClosed = 0
    MaxSkipped = 1
    MaxSessions = 3
    MaxMessages = 4
    MaxDeletions = 1
    MaxKeyPairs = 7
INVARIANTS
    OneOpen
    KeysUsedOnce
    ReadOnce
    UnreadReadable
    KeptForUnread
\* The bounds are reached.
CHECK_DEADLOCK FALSE
