\* Three printers as in the program; six threads as in ex_2.c, so that three
\* of them wait for a permit and the printers are handed out for two rounds.
CONSTANTS
    Threads = {t1, t2, t3, t4, t5, t6}
    PRINTERS = 3
    Nobody = nobody
SPECIFICATION Spec
INVARIANTS TypeOK HandedOutInTurn SafeSemaphore
PROPERTY ImplementsSection
