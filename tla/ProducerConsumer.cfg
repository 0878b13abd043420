\* The constants of the program (BUFFER_SIZE and NUM_ITEMS of ex_3.c).
CONSTANTS
    BUFFER_SIZE = 5
    NUM_ITEMS = 10
SPECIFICATION Spec
INVARIANTS TypeOK NoLostWakeup BufferIsBacklog CleanExit
PROPERTIES ImplementsStack Termination
