SPECIFICATION Spec
CONSTANTS
    ack = ack
    event = event
    reading = reading
    NoMessage = NoMessage
    Messages <- MCMessages
    Critical <- MCCritical
    Size = 2
    Exclusive = FALSE
INVARIANT CriticalKept
