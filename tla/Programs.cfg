\* One of the eight programs, each with its own bounds: the three children of
\* ex_5 and ctrl + C up to twice; reads of two bytes and a socket that just
\* holds two of them; a user who sends two signals; two parent processes with
\* two children each; three rounds of the lock-order demo; a module that
\* is loaded twice, with two open files and two interrupts;
\* four messages for a queue that holds three, and four receivers;
\* three threads where the user chooses, and few rounds of the loops.
\* The programs end, wait for ever or lock up: the system really stops.
CONSTANTS
    CHILD_COUNT = 3
    PRESSES = 2
    BUF_SIZE = 3
    CAPACITY = 4
    TYPED = 6
    SENDS = 2
    X = 2
    Y = 2
    ROUNDS = 3
    LOADS = 2
    FILES = 2
    INTERRUPTS = 2
    SENDERS = 2
    RECEIVERS = 4
    ROOM = 3
    THREADS = 3
    LOOPS = 5
    INCREMENTS_PER_THREAD = 3
SPECIFICATION ShellSpec
INVARIANTS TypesOK ChangesAnnounced EchoAccounted SignalsAccounted NothingDangles MessagesAccounted GuardedIsExact DamageBounded
PROPERTIES ReaperReapsAll EchoedInTheEnd SignalsEnd TreeTerminates LocksEnd UnloadEnds CountersEnd
CHECK_DEADLOCK FALSE
