\* Every program about signals; the user sends two of them.  Most of them wait
\* for ever in the end.
CONSTANTS
    SENDS = 2
SPECIFICATION SignalSpec
INVARIANT SecondSignalReceived
CHECK_DEADLOCK FALSE
