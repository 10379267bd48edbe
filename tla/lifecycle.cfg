SPECIFICATION Spec

    
PROPERTIES
    TellsWhatHappened
    GoesAway
\* A process that has exited does nothing more.
CHECK_DEADLOCK FALSE
