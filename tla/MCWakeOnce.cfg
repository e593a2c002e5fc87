SPECIFICATION WakeFairSpec
CONSTANTS
    Senders = {s1, w1}
    MaxSends = 2
    Wakers = {w1}
    Handles = {h1, h2, h3}
INVARIANTS NoLostWakeup ExactlyOnceInOrder ClosureOnce
PROPERTIES ImplementsQueue
CHECK_DEADLOCK FALSE
