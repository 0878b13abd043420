\* Two runs of each program: the fewest with which runs of the writer overlap
\* and a reader removes what another one uses.
CONSTANTS
    Writers = {w1, w2}
    Readers = {r1, r2}
SPECIFICATION Spec
INVARIANTS TypeOK OneReaderPerSignal LoneWriterIsHeard SignalWaits
PROPERTY EndsUnlessDisturbed
