CONSTANTS
    h1 = h1
    h2 = h2
    c1 = c1
    Handles = {h1, h2}
    Clearers = {c1}
    MaxLen = 2
    MaxMsgs = 4
SPECIFICATION FairSpec
INVARIANTS
    TypeOK
    RetryRecognised
    MessagesConserved
PROPERTIES
    QueuedIsServed
