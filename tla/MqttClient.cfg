SPECIFICATION ClientSpec
CONSTANTS
    ack = ack
    event = event
    reading = reading
    NoMessage = NoMessage
    Messages <- MCMessages
    Critical <- MCCritical
    Size = 2
    Exclusive = TRUE
INVARIANT ClientTypeOK
INVARIANT CriticalKept
INVARIANT SavedOnce
INVARIANT SessionHonest
PROPERTY Delivered
PROPERTY Online
