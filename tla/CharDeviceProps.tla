---------------------------- MODULE CharDeviceProps ----------------------------
(***************************************************************************)
(* What the drivers of src/asm_11 that keep data keep under calls of       *)
(* several programs, and what the menu program says of one of them.        *)
(***************************************************************************)
EXTENDS CharDevice, TLC

\* The runs differ in nothing but their names (no liveness is checked here).
RunSymmetry == Permutations(Runs)

\* The variables keep their types: no copy and no size leaves the buffer.
TypeOK == /\ loaded \in BOOLEAN
          /\ buffer \in [Opened -> [Positions -> Runs \cup {Unwritten}]]
          /\ size \in [Opened -> 0 .. BUFFER_SIZE]
          /\ dev \in [Runs -> Opened]
          /\ off \in [Runs -> 0 .. BUFFER_SIZE]
          /\ cut \in [Runs -> BOOLEAN]
          /\ to_copy \in [Runs -> 0 .. BUFFER_SIZE]
          /\ \A u \in Runs :
                pc[u] \in {"write", "resize"} => Base(u) + to_copy[u] <= BUFFER_SIZE
          /\ got \in [Runs -> SUBSET (Runs \cup {Unwritten})]
          /\ pc \in [Runs -> {"closed", "menu", "write", "resize", "terminate",
                              "written", "read", "readDone", "failed",
                              "writtenValue", "exit"}]

\* No reader ever gets bytes that nobody has written, and no size promises
\* any: sizes only ever cut off data, although every writer sets the size by
\* itself and no driver has a lock.  Nor does a copy leave an array: the byte
\* behind it changes only when the driver of one device ends a full one.
NothingUnwritten ==
    /\ \A d \in Opened, k \in Positions :
          k < size[d] => buffer[d][k] # Unwritten
    /\ \A d \in Opened \ {single} : buffer[d][BUFFER_SIZE] = Unwritten
    /\ \A u \in Runs : Unwritten \notin got[u]

\* In the driver of five devices reading and writing share the offset of the
\* open file, so a program never reads back what it has written itself: the
\* bytes it reads are all of others.
NeverReadsOwn == \A u \in Runs : dev[u] \in DOMAIN multi => u \notin got[u]

\* The permission flags: what a device lets nobody write stays empty, so
\* hello0, which can be read only, never has anything to read; and nobody has
\* the bytes of a device that cannot be read.
PermissionsHold ==
    /\ \A d \in Opened : devices[d] \cap {"write", "ioctl"} = {} =>
          size[d] = 0 /\ \A k \in Positions : buffer[d][k] = Unwritten
    /\ \A u \in Runs :
          got[u] # {} => devices[dev[u]] \in {{"read", "write"}, {"ioctl"}}

\* The menu program says "Write successful": the whole line was stored.
SuccessMeansStored == \A u \in Runs : pc[u] = "written" => ~cut[u]
===============================================================================
