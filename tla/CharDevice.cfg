\* Three runs on a write-only, a read-only and a read-write device of the first
\* driver and on the devices of the other two: two that write and one that
\* reads, or all on one device; buffers of two bytes hold two writes or one
\* that fills them, and cut off what comes after.
CONSTANTS
    Runs = {u1, u2, u3}
    Opened = {"sensor0", "hello0", "hello1", "my_char_device", "etx_device"}
    BUFFER_SIZE = 2
    Unwritten = unwritten
SPECIFICATION Spec
INVARIANTS TypeOK NothingUnwritten NeverReadsOwn PermissionsHold
SYMMETRY RunSymmetry
