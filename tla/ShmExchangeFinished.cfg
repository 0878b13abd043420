\* Two runs of the writer, one of the reader.
CONSTANTS
    Writers = {w1, w2}
    Readers = {r1}
SPECIFICATION SafeSpec
INVARIANT WriterHasFinished
