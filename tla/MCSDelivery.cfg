\* Everything published was handled and the bounds are used up: the client waits.
CHECK_DEADLOCK FALSE
SPECIFICATION Spec
CONSTANTS
    NoMsg = NoMsg
    m1 = m1
    m2 = m2
    bad = bad
    anon = anon
    Messages <- MCMessages
    Anonymous <- MCAnonymous
    Broken <- MCBroken
    MaxLosses = 2
    MaxCrashes = 1
INVARIANTS
    OncePerProcess
PROPERTIES
    NoPushLost
    EveryPushHandled
    QueueDrains
