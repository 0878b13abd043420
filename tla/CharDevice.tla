------------------------------ MODULE CharDevice ------------------------------
(***************************************************************************)
(* The character devices of src/asm_11 that keep data, and the programs    *)
(* that use them.  ex_2_multi2: a driver of five devices, each with a      *)
(* buffer and a permission flag (ex_2_multi2.c; ex_2_platform/ex_2_driver.c *)
(* has the same file operations), and the menu program that opens one of   *)
(* them and writes lines to it and reads it (ex_2_user.c).  ex_2: a driver *)
(* of one device, where each write starts at the beginning of the buffer.  *)
(* ex_3: a driver of one integer, set and read by ioctl (user_test.c).     *)
(*                                                                         *)
(* The kernel lets one call at a time use an open file and its offset, but *)
(* the driver has no lock: calls through different open files interleave.  *)
(* A byte of a buffer is modelled by the run of the program that wrote it. *)
(***************************************************************************)
EXTENDS Integers, FiniteSetsExt

CONSTANTS Runs,          \* the runs of the programs that use the devices
          Opened,        \* the devices that they open
          BUFFER_SIZE,   \* 1024, in the driver and in the program
          Unwritten      \* a byte that nobody has written

\* The permission flags of the five devices.
multi == [sensor0 |-> {"write"}, sensor1 |-> {}, hello0 |-> {"read"},
            hello1 |-> {"read", "write"}, goodbye |-> {"write"}]

\* The devices of the other two drivers, and all of them.
single == "my_char_device"
ioctl == "etx_device"
devices == [d \in DOMAIN multi \cup {single, ioctl} |->
               CASE d = single -> {"read", "write"}
                 [] d = ioctl -> {"ioctl"}
                 [] OTHER -> multi[d]]

ASSUME DeviceAssumption == /\ BUFFER_SIZE \in Nat \ {0}
                           /\ Opened \subseteq DOMAIN devices
                           /\ Unwritten \notin Runs

VARIABLES loaded,     \* the module is loaded, and its device nodes are there
          buffer,     \* device -> what each position of its buffer holds
          size,       \* device -> its data.size
          dev,        \* run -> the device that it has open
          off,        \* run -> the offset of its open file
          cut,        \* run -> its last write was longer than what was copied
          to_copy,    \* run -> number of bytes the driver copies for it
          got,        \* run -> the authors of the bytes of its last read
          pc          \* run -> where it stands

deviceVars == <<loaded, buffer, size>>
vars == <<deviceVars, dev, off, cut, to_copy, got, pc>>

\* The positions of a buffer, and the byte behind it.
Positions == 0 .. BUFFER_SIZE

Step(u, from, to) == pc[u] = from /\ pc' = [pc EXCEPT ![u] = to]

\* The positions a copy of n bytes at offset o touches.
Span(o, n) == o .. o + n - 1

\* Where a write starts, and how long a line can be.
Base(u) == IF dev[u] = single THEN 0 ELSE off[u]
Lengths(u) == 1 .. (IF dev[u] = single THEN BUFFER_SIZE + 1 ELSE BUFFER_SIZE)

\* The static data of the module, as a load finds it.
FreshBuffers == [d \in Opened |-> [k \in Positions |-> Unwritten]]
FreshSizes == [d \in Opened |-> 0]

Init == /\ loaded = FALSE
        /\ buffer = FreshBuffers
        /\ size = FreshSizes
        /\ dev \in [Runs -> Opened]
        /\ off = [u \in Runs |-> 0]
        /\ cut = [u \in Runs |-> FALSE]
        /\ to_copy = [u \in Runs |-> 0]
        /\ got = [u \in Runs |-> {}]
        /\ pc = [u \in Runs |-> "closed"]
-------------------------------------------------------------------------------
\* insmod.  The nodes appear one by one, but an open of one of them depends
\* on no other, so they are all there at once.
Load == /\ ~loaded
        /\ loaded' = TRUE
        /\ UNCHANGED <<buffer, size, dev, off, cut, to_copy, got, pc>>

\* No device numbers, or no class: the numbers are given back.
LoadFails == ~loaded /\ UNCHANGED vars

\* rmmod, which the kernel refuses while a file of the module is open; its
\* data are gone, and come back fresh with the next load.
Unload == /\ loaded
          /\ \A u \in Runs : pc[u] \in {"closed", "exit"}
          /\ loaded' = FALSE
          /\ buffer' = FreshBuffers
          /\ size' = FreshSizes
          /\ UNCHANGED <<dev, off, cut, to_copy, got, pc>>

\* open(O_RDWR): every device node has mode 0666, dev_open looks at no flag.
Open(u) == /\ Step(u, "closed", "menu")
           /\ loaded
           /\ UNCHANGED <<deviceVars, dev, off, cut, to_copy, got>>

\* "Cannot open device file".
OpenFails(u) == /\ Step(u, "closed", "exit")
                /\ ~loaded
                /\ UNCHANGED <<deviceVars, dev, off, cut, to_copy, got>>

\* "Write failed": -EPERM.
WriteRefused(u) == /\ Step(u, "menu", "failed")
                   /\ devices[dev[u]] \cap {"write", "ioctl"} = {}
                   /\ UNCHANGED <<deviceVars, dev, off, cut, to_copy, got>>

\* Mutation: the flag is not looked at.
BeginWriteUnchecked(u) ==
    /\ Step(u, "menu", "write")
    /\ \E len \in Lengths(u) :
          /\ to_copy' = [to_copy EXCEPT ![u] = Min({len, BUFFER_SIZE - Base(u)})]
          /\ cut' = [cut EXCEPT ![u] = to_copy'[u] < len]
    /\ UNCHANGED <<deviceVars, dev, off, got>>

\* Mutation: the room left after the offset is not taken into account.
BeginWriteUncut(u) ==
    /\ Step(u, "menu", "write")
    /\ "write" \in devices[dev[u]]
    /\ \E len \in 1 .. BUFFER_SIZE : to_copy' = [to_copy EXCEPT ![u] = len]
    /\ cut' = [cut EXCEPT ![u] = FALSE]
    /\ UNCHANGED <<deviceVars, dev, off, got>>

\* write: a line with its terminator, cut to the room left from where the
\* write starts.
BeginWrite(u) ==
    /\ Step(u, "menu", "write")
    /\ "write" \in devices[dev[u]]
    /\ \E len \in Lengths(u) :
          /\ to_copy' = [to_copy EXCEPT ![u] = Min({len, BUFFER_SIZE - Base(u)})]
          /\ cut' = [cut EXCEPT ![u] = to_copy'[u] < len]
    /\ UNCHANGED <<deviceVars, dev, off, got>>

\* copy_from_user.
CopyIn(u) ==
    LET span == Span(Base(u), to_copy[u])
    IN  /\ Step(u, "write", "resize")
        /\ buffer' = [buffer EXCEPT ![dev[u]] =
                         [k \in Positions |-> IF k \in span THEN u ELSE @[k]]]
        /\ UNCHANGED <<loaded, size, dev, off, cut, to_copy, got>>

\* Mutation: the offset of the file stays where it was.
EndWriteInPlace(u) ==
    /\ dev[u] # single /\ Step(u, "resize", "written")
    /\ size' = [size EXCEPT ![dev[u]] = off[u] + to_copy[u]]
    /\ UNCHANGED <<loaded, buffer, dev, off, cut, to_copy, got>>

\* Mutation: the size grows by what was written.
EndWriteAdding(u) ==
    /\ dev[u] # single /\ Step(u, "resize", "written")
    /\ off' = [off EXCEPT ![u] = @ + to_copy[u]]
    /\ size' = [size EXCEPT ![dev[u]] = Min({@ + to_copy[u], BUFFER_SIZE})]
    /\ UNCHANGED <<loaded, buffer, dev, cut, to_copy, got>>

\* The offset moves on and becomes the size; "Write successful", since the
\* result is not negative.
EndWrite(u) ==
    /\ dev[u] # single /\ Step(u, "resize", "written")
    /\ off' = [off EXCEPT ![u] = @ + to_copy[u]]
    /\ size' = [size EXCEPT ![dev[u]] = off[u] + to_copy[u]]
    /\ UNCHANGED <<loaded, buffer, dev, cut, to_copy, got>>

\* The driver of one device: the length is set, the offset stays.
SetLength(u) == /\ dev[u] = single /\ Step(u, "resize", "terminate")
                /\ size' = [size EXCEPT ![single] = to_copy[u]]
                /\ UNCHANGED <<loaded, buffer, dev, off, cut, to_copy, got>>

\* kernel_buffer[len] = '\0'; behind the buffer when that is full.
Terminate(u) == /\ Step(u, "terminate", "written")
                /\ buffer' = [buffer EXCEPT ![single][to_copy[u]] = u]
                /\ UNCHANGED <<loaded, size, dev, off, cut, to_copy, got>>

\* "Read failed": -EPERM.
ReadRefused(u) == /\ Step(u, "menu", "failed")
                  /\ devices[dev[u]] \cap {"read", "ioctl"} = {}
                  /\ UNCHANGED <<deviceVars, dev, off, cut, to_copy, got>>

\* read of BUFFER_SIZE bytes, at the end of the data or beyond it: returns 0.
ReadNothing(u) ==
    /\ Step(u, "menu", "readDone")
    /\ "read" \in devices[dev[u]]
    /\ off[u] >= size[dev[u]]
    /\ UNCHANGED <<deviceVars, dev, off, cut, to_copy, got>>

\* read before the end of the data: what is left, as the size says now.
BeginRead(u) ==
    /\ Step(u, "menu", "read")
    /\ "read" \in devices[dev[u]]
    /\ off[u] < size[dev[u]]
    /\ to_copy' = [to_copy EXCEPT
                      ![u] = Min({BUFFER_SIZE, size[dev[u]] - off[u]})]
    /\ UNCHANGED <<deviceVars, dev, off, cut, got>>

\* copy_to_user, and the offset moves on.
CopyOut(u) ==
    /\ Step(u, "read", "readDone")
    /\ got' = [got EXCEPT ![u] =
                  {buffer[dev[u]][k] : k \in Span(off[u], to_copy[u])}]
    /\ off' = [off EXCEPT ![u] = @ + to_copy[u]]
    /\ UNCHANGED <<deviceVars, dev, cut, to_copy>>

\* user_test: WR_VALUE copies the integer into the driver, RD_VALUE copies it
\* out, four bytes that are moved as one; then the file is closed.
WriteValue(u) == /\ dev[u] = ioctl /\ Step(u, "menu", "writtenValue")
                 /\ buffer' = [buffer EXCEPT ![ioctl][0] = u]
                 /\ UNCHANGED <<loaded, size, dev, off, cut, to_copy, got>>

ReadValue(u) == /\ Step(u, "writtenValue", "exit")
                /\ got' = [got EXCEPT ![u] = {buffer[ioctl][0]}]
                /\ UNCHANGED <<deviceVars, dev, off, cut, to_copy>>

\* The outcome has been printed and the menu comes again; nothing of the call
\* is used any more (read_buf is cleared before the next one).
Menu(u) == /\ pc[u] \in {"failed", "written", "readDone"}
           /\ pc' = [pc EXCEPT ![u] = "menu"]
           /\ cut' = [cut EXCEPT ![u] = FALSE]
           /\ to_copy' = [to_copy EXCEPT ![u] = 0]
           /\ got' = [got EXCEPT ![u] = {}]
           /\ UNCHANGED <<deviceVars, dev, off>>

\* Option 3, and close.
Exit(u) == /\ dev[u] # ioctl /\ Step(u, "menu", "exit")
           /\ UNCHANGED <<deviceVars, dev, off, cut, to_copy, got>>

User(u) == \/ SetLength(u) \/ Terminate(u) \/ WriteValue(u) \/ ReadValue(u)
           \/ Open(u) \/ OpenFails(u) \/ Menu(u) \/ Exit(u)
           \/ WriteRefused(u) \/ BeginWrite(u) \/ CopyIn(u) \/ EndWrite(u)
           \/ ReadRefused(u) \/ ReadNothing(u) \/ BeginRead(u) \/ CopyOut(u)

Next == \/ Load \/ LoadFails \/ Unload
        \/ \E u \in Runs : User(u)

Spec == Init /\ [][Next]_vars
===============================================================================
