\* Three printers as in the program; the fourth thread is the first that can
\* meet a printer that is still in use.
CONSTANTS
    Threads = {t1, t2, t3, t4}
    PRINTERS = 3
    Nobody = nobody
SPECIFICATION SafeSpec
INVARIANT ExclusivePrinter
