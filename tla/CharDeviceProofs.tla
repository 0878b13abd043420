---------------------------- MODULE CharDeviceProofs ----------------------------
(***************************************************************************)
(* Proofs about CharDevice for every set of runs, every choice of devices  *)
(* and every size of the buffers.                                          *)
(***************************************************************************)
EXTENDS CharDeviceProps, TLAPS

\* Where a run stands says what it may do, and how far a read of it reaches.
Stages ==
    \A u \in Runs :
        /\ pc[u] = "closed" => off[u] = 0
        /\ pc[u] \in {"write", "resize"} => "write" \in devices[dev[u]]
        /\ pc[u] = "terminate" => dev[u] = single
        /\ pc[u] = "writtenValue" => dev[u] = ioctl
        /\ pc[u] = "read" => /\ "read" \in devices[dev[u]]
                             /\ devices[dev[u]] \cap {"write", "ioctl"} # {}
                             /\ off[u] + to_copy[u] <= BUFFER_SIZE

\* The first n bytes of a device have been written.
Prefix(d, n) == \A k \in Positions : k < n => buffer[d][k] # Unwritten

\* All bytes below the offset of an open file have been written, and below the
\* end of a copy once that was made (or, of a read, once it was begun).
Below(u) ==
    /\ pc[u] \notin {"closed", "exit"} => Prefix(dev[u], off[u])
    /\ pc[u] = "resize" => Prefix(dev[u], Base(u) + to_copy[u])
    /\ pc[u] = "read" => Prefix(dev[u], off[u] + to_copy[u])
    /\ pc[u] = "writtenValue" => buffer[ioctl][0] # Unwritten

WrittenBelow == \A u \in Runs : Below(u)

\* In the driver of five devices, what a run wrote lies below its offset, or
\* below where the offset is about to move.
OwnBelow ==
    \A u \in Runs : dev[u] \in DOMAIN multi =>
        \A k \in Positions :
            buffer[dev[u]][k] = u =>
                k < off[u] + (IF pc[u] = "resize" THEN to_copy[u] ELSE 0)

\* The inductive invariant.
Inv == /\ TypeOK
       /\ Stages
       /\ WrittenBelow
       /\ OwnBelow
       /\ NothingUnwritten
       /\ NeverReadsOwn
       /\ PermissionsHold
-------------------------------------------------------------------------------
\* What the tables of the devices say.
LEMMA DeviceTable ==
    /\ single \notin DOMAIN multi /\ ioctl \notin DOMAIN multi /\ single # ioctl
    /\ devices[single] = {"read", "write"} /\ devices[ioctl] = {"ioctl"}
    /\ \A d \in DOMAIN devices :
          ("read" \in devices[d] /\ devices[d] \cap {"write", "ioctl"} # {})
              => devices[d] = {"read", "write"}
<1>1. DOMAIN multi = {"sensor0", "sensor1", "hello0", "hello1", "goodbye"}
    BY DEF multi
<1>2. single = "my_char_device" /\ ioctl = "etx_device"
    BY DEF single, ioctl
<1>3. DOMAIN devices = DOMAIN multi \cup {single, ioctl}
    BY DEF devices
<1>4. devices[single] = {"read", "write"}
    BY <1>2 DEF devices
<1>5. devices[ioctl] = {"ioctl"}
    BY <1>2 DEF devices
<1>6. ASSUME NEW d \in DOMAIN multi PROVE devices[d] = multi[d]
    BY <1>1, <1>2, <1>6 DEF devices
<1>7. ASSUME NEW d \in DOMAIN multi
      PROVE  multi[d] \in {{"read"}, {"write"}, {}, {"read", "write"}}
    BY <1>1, <1>7 DEF multi
<1> HIDE DEF multi, single, ioctl, devices
<1>8. ASSUME NEW d \in DOMAIN devices, "read" \in devices[d],
             devices[d] \cap {"write", "ioctl"} # {}
      PROVE  devices[d] = {"read", "write"}
  <2>1. CASE d \in DOMAIN multi
    BY <1>6, <1>7, <1>8, <2>1
  <2>2. CASE d \in {single, ioctl}
    BY <1>4, <1>5, <1>8, <2>2
  <2> QED
    BY <1>3, <1>8, <2>1, <2>2
<1>9. single \notin DOMAIN multi /\ ioctl \notin DOMAIN multi /\ single # ioctl
    BY <1>1, <1>2
<1> QED
    BY <1>4, <1>5, <1>8, <1>9

\* The smaller of two numbers is the minimum of the pair.
LEMMA MinTwo ==
    ASSUME NEW a \in Int, NEW b \in Int
    PROVE  Min({a, b}) = IF a <= b THEN a ELSE b
<1> DEFINE m == IF a <= b THEN a ELSE b
<1>1. m \in {a, b} /\ \A y \in {a, b} : m <= y
    OBVIOUS
<1>2. \A x \in {a, b} : (\A y \in {a, b} : x <= y) => x = m
    OBVIOUS
<1> QED
    BY <1>1, <1>2 DEF Min

\* A read is cut to what is left of the data, which always fits.
LEMMA ReadsWhatIsLeft ==
    ASSUME TypeOK, NEW u \in Runs, BeginRead(u)
    PROVE  LET left == size[dev[u]] - off[u]
           IN  /\ left \in 1 .. BUFFER_SIZE /\ off[u] + left <= BUFFER_SIZE
               /\ to_copy' = [to_copy EXCEPT ![u] = left]
<1> DEFINE left == size[dev[u]] - off[u]
<1>1. left \in 1 .. BUFFER_SIZE /\ off[u] + left <= BUFFER_SIZE
    BY DeviceAssumption DEF TypeOK, BeginRead
<1>2. to_copy' = [to_copy EXCEPT ![u] = Min({BUFFER_SIZE, left})]
    BY DEF BeginRead
<1> HIDE DEF left
<1>3. left \in Int /\ BUFFER_SIZE \in Int
    BY <1>1, DeviceAssumption
<1>4. Min({BUFFER_SIZE, left}) = IF BUFFER_SIZE <= left THEN BUFFER_SIZE ELSE left
    BY ONLY <1>3, MinTwo
<1>5. Min({BUFFER_SIZE, left}) = left
    BY ONLY <1>1, <1>3, <1>4
<1> QED
    BY <1>1, <1>2, <1>5 DEF left

\* Every step keeps the types and the stages.
LEMMA TypeStep ==
    TypeOK /\ Stages /\ PermissionsHold /\ [Next]_vars => (TypeOK /\ Stages)'
<1> SUFFICES ASSUME TypeOK, Stages, PermissionsHold, [Next]_vars
             PROVE  (TypeOK /\ Stages)'
    OBVIOUS
<1> USE DeviceAssumption
    DEF TypeOK, Stages, Step, Positions, deviceVars, Base
<1> HIDE DEF devices, single, ioctl, multi
<1>0. single # ioctl /\ 0 \in Positions
    BY DeviceTable
<1>1. ASSUME Load \/ LoadFails PROVE (TypeOK /\ Stages)'
    BY <1>1 DEF Load, LoadFails, vars
<1>2. CASE Unload
  <2>1. /\ buffer' \in [Opened -> [Positions -> Runs \cup {Unwritten}]]
        /\ size' \in [Opened -> 0 .. BUFFER_SIZE]
    BY <1>2 DEF Unload, FreshBuffers, FreshSizes
  <2> QED
    BY <1>2, <2>1 DEF Unload
<1>3. ASSUME NEW u \in Runs,
             \/ Open(u) \/ OpenFails(u) \/ Exit(u)
             \/ WriteRefused(u) \/ ReadRefused(u) \/ ReadNothing(u)
      PROVE  (TypeOK /\ Stages)'
  <2>1. UNCHANGED <<deviceVars, dev, off, cut, to_copy, got>>
    BY <1>3 DEF Open, OpenFails, Exit, WriteRefused, ReadRefused, ReadNothing
  <2>2. PICK to \in {"menu", "exit", "failed", "readDone"} :
            pc' = [pc EXCEPT ![u] = to]
    BY <1>3 DEF Open, OpenFails, Exit, WriteRefused, ReadRefused, ReadNothing
  <2> QED
    BY <2>1, <2>2
<1>4. ASSUME NEW u \in Runs, BeginWrite(u) PROVE (TypeOK /\ Stages)'
  <2> DEFINE room == BUFFER_SIZE - Base(u)
  <2>1. PICK len \in Lengths(u) :
            to_copy' = [to_copy EXCEPT ![u] = Min({len, room})]
    BY <1>4 DEF BeginWrite
  <2>2. Base(u) \in 0 .. BUFFER_SIZE /\ room \in 0 .. BUFFER_SIZE /\ len \in Nat
    BY DEF Lengths
  <2> HIDE DEF room
  <2>3. PICK n \in 0 .. room : to_copy' = [to_copy EXCEPT ![u] = n]
    <3>1. len \in Int /\ room \in Int
      BY <2>2
    <3>2. Min({len, room}) = IF len <= room THEN len ELSE room
      BY ONLY <3>1, MinTwo
    <3>3. Min({len, room}) \in 0 .. room
      BY ONLY <2>2, <3>1, <3>2
    <3> QED
      BY <2>1, <3>3
  <2>4. /\ to_copy'[u] = n /\ Base(u)' = Base(u)
        /\ to_copy' \in [Runs -> 0 .. BUFFER_SIZE]
        /\ \A v \in Runs : v # u => to_copy'[v] = to_copy[v]
    BY <1>4, <2>2, <2>3 DEF BeginWrite
  <2>5. Base(u)' + to_copy'[u] <= BUFFER_SIZE
    BY <2>2, <2>3, <2>4 DEF room
  <2>6. cut' \in [Runs -> BOOLEAN]
    BY <1>4 DEF BeginWrite
  <2>7. ASSUME NEW v \in Runs, pc'[v] \in {"write", "resize"}
        PROVE  Base(v)' + to_copy'[v] <= BUFFER_SIZE
    <3>1. CASE v = u
      BY <2>5, <3>1
    <3>2. CASE v # u
      BY <1>4, <2>4, <2>7, <3>2 DEF BeginWrite
    <3> QED
      BY <3>1, <3>2
  <2>8. TypeOK'
    BY <1>4, <2>4, <2>6, <2>7 DEF BeginWrite
  <2>9. Stages'
    BY <1>4, <2>4 DEF BeginWrite
  <2> QED
    BY <2>8, <2>9
<1>5. ASSUME NEW u \in Runs, CopyIn(u) PROVE (TypeOK /\ Stages)'
    BY <1>5 DEF CopyIn
<1>6. ASSUME NEW u \in Runs, EndWrite(u) PROVE (TypeOK /\ Stages)'
    BY <1>6 DEF EndWrite
<1>7. ASSUME NEW u \in Runs, SetLength(u) PROVE (TypeOK /\ Stages)'
    BY <1>7 DEF SetLength
<1>8. ASSUME NEW u \in Runs, Terminate(u) PROVE (TypeOK /\ Stages)'
    BY <1>8 DEF Terminate
<1>9. ASSUME NEW u \in Runs, BeginRead(u) PROVE (TypeOK /\ Stages)'
  <2> DEFINE left == size[dev[u]] - off[u]
  <2>1. left \in 1 .. BUFFER_SIZE /\ off[u] + left <= BUFFER_SIZE
    BY <1>9, ReadsWhatIsLeft
  <2>2. to_copy' = [to_copy EXCEPT ![u] = left]
    BY <1>9, ReadsWhatIsLeft
  <2> HIDE DEF left
  <2>3. /\ to_copy'[u] = left /\ to_copy' \in [Runs -> 0 .. BUFFER_SIZE]
        /\ \A v \in Runs : v # u => to_copy'[v] = to_copy[v]
    BY <2>1, <2>2
  <2>4. devices[dev[u]] \cap {"write", "ioctl"} # {}
    <3>1. dev[u] \in Opened /\ size[dev[u]] # 0
      BY <1>9 DEF BeginRead
    <3> QED
      BY <3>1 DEF PermissionsHold
  <2>5. TypeOK'
    BY <1>9, <2>3 DEF BeginRead
  <2>6. Stages'
    BY <1>9, <2>1, <2>3, <2>4 DEF BeginRead
  <2> QED
    BY <2>5, <2>6
<1>10. ASSUME NEW u \in Runs, CopyOut(u) PROVE (TypeOK /\ Stages)'
    BY <1>10 DEF CopyOut, Span
<1>11. ASSUME NEW u \in Runs, WriteValue(u) PROVE (TypeOK /\ Stages)'
    BY <1>0, <1>11 DEF WriteValue
<1>12. ASSUME NEW u \in Runs, ReadValue(u) PROVE (TypeOK /\ Stages)'
    BY <1>0, <1>12 DEF ReadValue
<1>13. ASSUME NEW u \in Runs, Menu(u) PROVE (TypeOK /\ Stages)'
  <2>1. /\ cut' \in [Runs -> BOOLEAN]
        /\ to_copy' \in [Runs -> 0 .. BUFFER_SIZE]
        /\ got' \in [Runs -> SUBSET (Runs \cup {Unwritten})]
    BY <1>13 DEF Menu
  <2> QED
    BY <1>13, <2>1 DEF Menu
<1>14. CASE UNCHANGED vars
    BY <1>14 DEF vars
<1> QED
    BY <1>1, <1>2, <1>3, <1>4, <1>5, <1>6, <1>7, <1>8, <1>9, <1>10, <1>11,
       <1>12, <1>13, <1>14 DEF Next, User

\* While the module is loaded no byte that was written becomes unwritten, and
\* the byte behind a buffer changes in the driver of one device only.
LEMMA BufferStep ==
    ASSUME TypeOK, Stages, [Next]_vars, ~Unload,
           NEW d \in Opened, NEW k \in Positions
    PROVE  /\ buffer[d][k] # Unwritten => buffer'[d][k] # Unwritten
           /\ (d # single /\ k = BUFFER_SIZE) => buffer'[d][k] = buffer[d][k]
<1> DEFINE Kept ==
        /\ buffer[d][k] # Unwritten => buffer'[d][k] # Unwritten
        /\ (d # single /\ k = BUFFER_SIZE) => buffer'[d][k] = buffer[d][k]
<1> USE DeviceAssumption DEF TypeOK, Stages, Step, Positions, deviceVars
<1>1. ASSUME NEW u \in Runs, CopyIn(u) PROVE Kept
  <2>1. Base(u) \in 0 .. BUFFER_SIZE /\ Base(u) + to_copy[u] <= BUFFER_SIZE
    BY <1>1 DEF CopyIn, Base
  <2>2. BUFFER_SIZE \notin Span(Base(u), to_copy[u])
    BY <2>1 DEF Span
  <2>3. \A j \in Positions :
            buffer'[dev[u]][j] = IF j \in Span(Base(u), to_copy[u])
                                 THEN u ELSE buffer[dev[u]][j]
    BY <1>1 DEF CopyIn
  <2>4. d # dev[u] => buffer'[d] = buffer[d]
    BY <1>1 DEF CopyIn
  <2> QED
    BY <2>2, <2>3, <2>4
<1>2. ASSUME NEW u \in Runs, Terminate(u) PROVE Kept
    BY <1>2 DEF Terminate
<1>3. ASSUME NEW u \in Runs, WriteValue(u) PROVE Kept
    BY <1>3 DEF WriteValue
<1>4. ASSUME UNCHANGED buffer PROVE Kept
    BY <1>4
<1>5. ASSUME NEW u \in Runs, User(u), ~CopyIn(u), ~Terminate(u), ~WriteValue(u)
      PROVE  UNCHANGED buffer
    BY <1>5 DEF User, SetLength, ReadValue, Open, OpenFails, Menu, Exit,
                WriteRefused, BeginWrite, EndWrite, ReadRefused, ReadNothing,
                BeginRead, CopyOut
<1>6. ASSUME Load \/ LoadFails \/ UNCHANGED vars PROVE UNCHANGED buffer
    BY <1>6 DEF Load, LoadFails, vars
<1> HIDE DEF Kept
<1>7. Kept
    BY <1>1, <1>2, <1>3, <1>4, <1>5, <1>6 DEF Next
<1> QED
    BY <1>7 DEF Kept

\* A step of one run leaves the other runs where they are.
LEMMA OthersStill ==
    ASSUME TypeOK, NEW u \in Runs, User(u)
    PROVE  /\ UNCHANGED dev
           /\ \A v \in Runs : v # u => /\ pc'[v] = pc[v] /\ off'[v] = off[v]
                                       /\ to_copy'[v] = to_copy[v]
                                       /\ got'[v] = got[v]
  BY DEF TypeOK, User, Step, SetLength, Terminate, WriteValue, ReadValue, Open,
         OpenFails, Menu, Exit, WriteRefused, BeginWrite, CopyIn, EndWrite,
         ReadRefused, ReadNothing, BeginRead, CopyOut

\* What is below an offset or a size stays written, and nothing else is read.
LEMMA WrittenStep ==
    TypeOK /\ Stages /\ WrittenBelow /\ NothingUnwritten /\ [Next]_vars
        => (WrittenBelow /\ NothingUnwritten)'
<1> SUFFICES ASSUME TypeOK, Stages, WrittenBelow, NothingUnwritten, [Next]_vars
             PROVE  (WrittenBelow /\ NothingUnwritten)'
    OBVIOUS
<1> USE DeviceAssumption
    DEF TypeOK, Stages, Step, Positions, deviceVars, NothingUnwritten, Prefix
<1>1. CASE Unload
    BY <1>1 DEF Unload, FreshBuffers, FreshSizes, WrittenBelow, Below
<1>2. SUFFICES ASSUME ~Unload PROVE (WrittenBelow /\ NothingUnwritten)'
    BY <1>1
<1>3. \A d \in Opened, k \in Positions :
          /\ buffer[d][k] # Unwritten => buffer'[d][k] # Unwritten
          /\ (d # single /\ k = BUFFER_SIZE) => buffer'[d][k] = buffer[d][k]
    BY <1>2, BufferStep
<1>4. ASSUME Load \/ LoadFails \/ UNCHANGED vars
      PROVE  (WrittenBelow /\ NothingUnwritten)'
    BY <1>3, <1>4 DEF Load, LoadFails, vars, Base, WrittenBelow, Below
<1>5. SUFFICES ASSUME NEW u \in Runs, User(u)
               PROVE  (WrittenBelow /\ NothingUnwritten)'
    BY <1>2, <1>4 DEF Next
<1> DEFINE d == dev[u]
<1>6. d \in Opened
    OBVIOUS
<1>7. UNCHANGED dev
    BY <1>5, OthersStill
<1>8. ASSUME NEW v \in Runs, v # u PROVE Below(v)'
  <2>1. /\ pc'[v] = pc[v] /\ off'[v] = off[v] /\ to_copy'[v] = to_copy[v]
    BY <1>5, <1>8, OthersStill
  <2> QED
    BY <1>3, <1>7, <2>1 DEF WrittenBelow, Below, Base
\* The conclusion, from what the step does for the run that takes it.
<1>9. ASSUME Below(u)',
             size' # size => \E n \in 0 .. BUFFER_SIZE :
                                 /\ size' = [size EXCEPT ![d] = n]
                                 /\ Prefix(d, n),
             Unwritten \notin got'[u]
      PROVE  (WrittenBelow /\ NothingUnwritten)'
  <2>1. WrittenBelow'
    BY <1>8, <1>9 DEF WrittenBelow
  <2>2. \A e \in Opened, k \in Positions : k < size'[e] => buffer'[e][k] # Unwritten
    BY <1>3, <1>6, <1>9
  <2>3. \A e \in Opened \ {single} : buffer'[e][BUFFER_SIZE] = Unwritten
    <3>1. BUFFER_SIZE \in Positions
      OBVIOUS
    <3> QED
      BY <1>3, <3>1
  <2>4. \A v \in Runs : Unwritten \notin got'[v]
    BY <1>5, <1>9, OthersStill
  <2> QED
    BY <2>1, <2>2, <2>3, <2>4
<1>10. Below(u) /\ Unwritten \notin got[u]
    BY DEF WrittenBelow
<1>11. ASSUME \/ Open(u) \/ OpenFails(u) \/ Exit(u) \/ Menu(u)
              \/ WriteRefused(u) \/ ReadRefused(u) \/ ReadNothing(u)
       PROVE  /\ Below(u)' /\ Unwritten \notin got'[u] /\ UNCHANGED size
  <2>1. /\ UNCHANGED <<buffer, size, dev, off>>
        /\ pc'[u] \in {"menu", "exit", "failed", "readDone"}
        /\ got'[u] = got[u] \/ got'[u] = {}
    BY <1>11 DEF Open, OpenFails, Exit, Menu, WriteRefused, ReadRefused, ReadNothing
  <2>2. pc[u] = "closed" => off[u] = 0
    OBVIOUS
  <2>3. pc'[u] # "exit" => pc[u] # "exit"
    BY <1>11 DEF Open, OpenFails, Exit, Menu, WriteRefused, ReadRefused, ReadNothing
  <2>4. Prefix(d, off[u]) \/ pc'[u] = "exit"
    BY <1>10, <2>2, <2>3 DEF Below
  <2> QED
    BY <1>10, <2>1, <2>4 DEF Below
<1>12. ASSUME BeginWrite(u)
       PROVE  Below(u)' /\ Unwritten \notin got'[u] /\ UNCHANGED size
    BY <1>10, <1>12 DEF BeginWrite, Below
<1>13. ASSUME CopyIn(u)
       PROVE  Below(u)' /\ Unwritten \notin got'[u] /\ UNCHANGED size
  <2> DEFINE span == Span(Base(u), to_copy[u])
  <2>1. \A k \in Positions :
            buffer'[d][k] = IF k \in span THEN u ELSE buffer[d][k]
    BY <1>13 DEF CopyIn
  <2>2. \A k \in Positions : k < Base(u) => buffer[d][k] # Unwritten
    BY <1>10, <1>13 DEF CopyIn, Below, Base
  <2>3. \A k \in Positions :
            k < Base(u) + to_copy[u] => k < Base(u) \/ k \in span
    BY DEF Span, Base
  <2>4. \A k \in Positions :
            k < Base(u) + to_copy[u] => buffer'[d][k] # Unwritten
    BY <2>1, <2>2, <2>3
  <2>5. Base(u)' = Base(u) /\ to_copy' = to_copy /\ pc'[u] = "resize" /\ off' = off
    BY <1>13 DEF CopyIn, Base
  <2>6. Prefix(d, off[u])'
    BY <1>3, <1>6, <1>7, <1>10, <1>13 DEF CopyIn, Below
  <2> QED
    BY <1>7, <1>10, <1>13, <2>4, <2>5, <2>6 DEF CopyIn, Below
<1>14. ASSUME EndWrite(u)
       PROVE  /\ Below(u)' /\ Unwritten \notin got'[u]
              /\ \E n \in 0 .. BUFFER_SIZE :
                    size' = [size EXCEPT ![d] = n] /\ Prefix(d, n)
  <2>1. off[u] + to_copy[u] \in 0 .. BUFFER_SIZE /\ Prefix(d, off[u] + to_copy[u])
    BY <1>10, <1>14 DEF EndWrite, Below, Base
  <2>2. /\ size' = [size EXCEPT ![d] = off[u] + to_copy[u]]
        /\ off'[u] = off[u] + to_copy[u] /\ pc'[u] = "written"
        /\ UNCHANGED <<buffer, dev, got>>
    BY <1>14 DEF EndWrite
  <2> QED
    BY <1>10, <2>1, <2>2 DEF Below
<1>15. ASSUME SetLength(u)
       PROVE  /\ Below(u)' /\ Unwritten \notin got'[u]
              /\ \E n \in 0 .. BUFFER_SIZE :
                    size' = [size EXCEPT ![d] = n] /\ Prefix(d, n)
  <2>1. to_copy[u] \in 0 .. BUFFER_SIZE /\ Prefix(d, to_copy[u])
    BY <1>10, <1>15 DEF SetLength, Below, Base
  <2>2. /\ size' = [size EXCEPT ![d] = to_copy[u]]
        /\ pc'[u] = "terminate" /\ UNCHANGED <<buffer, dev, got, off>>
        /\ Prefix(d, off[u])
    BY <1>10, <1>15 DEF SetLength, Below
  <2> QED
    BY <1>10, <2>1, <2>2 DEF Below
<1>16. ASSUME Terminate(u)
       PROVE  Below(u)' /\ Unwritten \notin got'[u] /\ UNCHANGED size
    BY <1>3, <1>6, <1>7, <1>10, <1>16 DEF Terminate, Below
<1>17. ASSUME BeginRead(u)
       PROVE  Below(u)' /\ Unwritten \notin got'[u] /\ UNCHANGED size
  <2>1. to_copy'[u] = size[d] - off[u]
    BY <1>17, ReadsWhatIsLeft
  <2>2. off[u] + to_copy'[u] = size[d]
    BY <1>6, <2>1
  <2>3. UNCHANGED <<buffer, size, dev, off, got>> /\ pc'[u] = "read"
    BY <1>17 DEF BeginRead
  <2>4. Prefix(d, size[d]) /\ Prefix(d, off[u])
    BY <1>6, <1>10, <1>17 DEF BeginRead, Below
  <2> QED
    BY <1>10, <2>2, <2>3, <2>4 DEF Below
<1>18. ASSUME CopyOut(u)
       PROVE  Below(u)' /\ Unwritten \notin got'[u] /\ UNCHANGED size
  <2>1. Prefix(d, off[u] + to_copy[u]) /\ off[u] + to_copy[u] <= BUFFER_SIZE
    BY <1>10, <1>18 DEF CopyOut, Below
  <2>2. /\ off'[u] = off[u] + to_copy[u] /\ pc'[u] = "readDone"
        /\ UNCHANGED <<buffer, dev, size>>
        /\ got'[u] = {buffer[d][k] : k \in Span(off[u], to_copy[u])}
    BY <1>18 DEF CopyOut
  <2>3. \A k \in Span(off[u], to_copy[u]) :
            k \in Positions /\ k < off[u] + to_copy[u]
    BY <2>1 DEF Span
  <2>4. Unwritten \notin got'[u]
    BY <2>1, <2>2, <2>3
  <2> QED
    BY <2>1, <2>2, <2>4 DEF Below
<1>19. ASSUME WriteValue(u)
       PROVE  Below(u)' /\ Unwritten \notin got'[u] /\ UNCHANGED size
  <2>1. 0 \in Positions /\ buffer'[ioctl][0] = u
    BY <1>19 DEF WriteValue
  <2> QED
    BY <1>3, <1>6, <1>7, <1>10, <1>19, <2>1 DEF WriteValue, Below
<1>20. ASSUME ReadValue(u)
       PROVE  Below(u)' /\ Unwritten \notin got'[u] /\ UNCHANGED size
    BY <1>10, <1>20 DEF ReadValue, Below
<1> HIDE DEF Prefix, NothingUnwritten, d
<1> QED
    BY <1>5, <1>9, <1>11, <1>12, <1>13, <1>14, <1>15, <1>16, <1>17, <1>18,
       <1>19, <1>20 DEF User

\* The bytes of a run lie below its offset, where it never reads again.
LEMMA OwnStep ==
    TypeOK /\ Stages /\ OwnBelow /\ NeverReadsOwn /\ [Next]_vars
        => (OwnBelow /\ NeverReadsOwn)'
<1> SUFFICES ASSUME TypeOK, Stages, OwnBelow, NeverReadsOwn, [Next]_vars
             PROVE  (OwnBelow /\ NeverReadsOwn)'
    OBVIOUS
<1> HIDE DEF multi, single, ioctl, devices
<1> USE DeviceAssumption DEF TypeOK, Stages, Step, Positions, deviceVars, NeverReadsOwn
<1>1. CASE Unload
    BY <1>1 DEF Unload, FreshBuffers, OwnBelow
<1>2. ASSUME Load \/ LoadFails \/ UNCHANGED vars
      PROVE  (OwnBelow /\ NeverReadsOwn)'
    BY <1>2 DEF Load, LoadFails, vars, OwnBelow
<1>3. SUFFICES ASSUME NEW u \in Runs, User(u) PROVE (OwnBelow /\ NeverReadsOwn)'
    BY <1>1, <1>2 DEF Next
<1> DEFINE d == dev[u]
           Reach(v) == off[v] + (IF pc[v] = "resize" THEN to_copy[v] ELSE 0)
<1>4. d \in Opened /\ UNCHANGED dev
    BY <1>3, OthersStill
\* Only the run itself puts its bytes into a buffer.
<1>5. \A e \in Opened, k \in Positions : buffer'[e][k] \in {buffer[e][k], u}
  <2>1. CASE CopyIn(u)
    BY <2>1 DEF CopyIn
  <2>2. CASE Terminate(u)
    BY <2>2 DEF Terminate
  <2>3. CASE WriteValue(u)
    BY <2>3 DEF WriteValue
  <2>4. ASSUME ~CopyIn(u), ~Terminate(u), ~WriteValue(u) PROVE UNCHANGED buffer
    BY <1>3, <2>4
    DEF User, SetLength, ReadValue, Open, OpenFails, Menu, Exit, WriteRefused,
        BeginWrite, EndWrite, ReadRefused, ReadNothing, BeginRead, CopyOut
  <2> QED
    BY <2>1, <2>2, <2>3, <2>4
<1>6. ASSUME NEW v \in Runs, v # u, dev[v] \in DOMAIN multi
      PROVE  /\ \A k \in Positions : buffer'[dev[v]][k] = v => k < Reach(v)'
             /\ v \notin got'[v]
  <2>1. /\ pc'[v] = pc[v] /\ off'[v] = off[v] /\ to_copy'[v] = to_copy[v]
        /\ got'[v] = got[v]
    BY <1>3, <1>6, OthersStill
  <2>2. Reach(v)' = Reach(v)
    BY <2>1
  <2> HIDE DEF Reach
  <2>3. \A k \in Positions : buffer[dev[v]][k] = v => k < Reach(v)
    BY <1>6 DEF OwnBelow, Reach
  <2> QED
    BY <1>5, <1>6, <2>1, <2>2, <2>3
<1>7. ASSUME d \in DOMAIN multi
      PROVE  /\ \A k \in Positions : buffer'[d][k] = u => k < Reach(u)'
             /\ u \notin got'[u]
  <2>1. d # single /\ d # ioctl
    BY <1>7, DeviceTable
  <2>2. /\ \A k \in Positions : buffer[d][k] = u => k < Reach(u)
        /\ u \notin got[u]
    BY <1>7 DEF OwnBelow
  <2>3. CASE CopyIn(u)
    <3>1. /\ Base(u) = off[u] /\ Reach(u) = off[u]
          /\ Reach(u)' = off[u] + to_copy[u]
      BY <2>1, <2>3 DEF CopyIn, Base
    <3>2. \A k \in Positions :
              buffer'[d][k] = IF k \in Span(off[u], to_copy[u])
                              THEN u ELSE buffer[d][k]
      BY <2>3, <3>1 DEF CopyIn
    <3>3. \A k \in Positions : k \in Span(off[u], to_copy[u]) => k < off[u] + to_copy[u]
      BY DEF Span
    <3>4. \A k \in Positions : k < off[u] => k < off[u] + to_copy[u]
      OBVIOUS
    <3>5. ASSUME NEW k \in Positions, buffer'[d][k] = u
          PROVE  k < off[u] + to_copy[u]
      <4>1. CASE k \in Span(off[u], to_copy[u])
        BY <3>3, <4>1
      <4>2. CASE k \notin Span(off[u], to_copy[u])
        <5>1. buffer[d][k] = u
          BY <3>2, <3>5, <4>2
        <5>2. k < off[u]
          BY <2>2, <3>1, <5>1
        <5> QED
          BY <3>4, <5>2
      <4> QED
        BY <4>1, <4>2
    <3> QED
      BY <2>2, <2>3, <3>1, <3>5 DEF CopyIn
  <2>4. ASSUME ~CopyIn(u) PROVE buffer'[d] = buffer[d]
    BY <1>3, <2>1, <2>4
    DEF User, SetLength, Terminate, WriteValue, ReadValue, Open, OpenFails,
        Menu, Exit, WriteRefused, BeginWrite, EndWrite, ReadRefused,
        ReadNothing, BeginRead, CopyOut
  <2>5. CASE CopyOut(u)
    <3>1. Reach(u) = off[u] /\ Reach(u)' = off[u] + to_copy[u]
      BY <2>5 DEF CopyOut
    <3>2. got'[u] = {buffer[d][k] : k \in Span(off[u], to_copy[u])}
      BY <2>5 DEF CopyOut
    <3>3. \A k \in Span(off[u], to_copy[u]) : k \in Positions /\ ~(k < off[u])
      BY <2>5 DEF CopyOut, Span
    <3>4. u \notin got'[u]
      BY <2>2, <3>1, <3>2, <3>3
    <3>5. ~CopyIn(u)
      BY <2>5 DEF CopyOut, CopyIn
    <3>6. \A k \in Positions : buffer'[d][k] = u => k < off[u] + to_copy[u]
      BY <2>2, <2>4, <3>1, <3>5
    <3> QED
      BY <3>1, <3>4, <3>6
  <2>6. CASE EndWrite(u)
    <3>1. Reach(u) = off[u] + to_copy[u] /\ Reach(u)' = off[u] + to_copy[u]
      BY <2>6 DEF EndWrite
    <3> QED
      BY <2>2, <2>6, <3>1 DEF EndWrite
  <2>7. ASSUME ~CopyIn(u), ~CopyOut(u), ~EndWrite(u)
        PROVE  Reach(u)' = Reach(u) /\ (got'[u] = got[u] \/ got'[u] = {})
    BY <1>3, <2>1, <2>7
    DEF User, SetLength, Terminate, WriteValue, ReadValue, Open, OpenFails,
        Menu, Exit, WriteRefused, BeginWrite, ReadRefused, ReadNothing,
        BeginRead
  <2> QED
    BY <2>2, <2>3, <2>4, <2>5, <2>6, <2>7
<1>8. ASSUME NEW v \in Runs, dev[v] \in DOMAIN multi
      PROVE  /\ \A k \in Positions : buffer'[dev[v]][k] = v => k < Reach(v)'
             /\ v \notin got'[v]
  <2>1. CASE v = u
    BY <1>7, <1>8, <2>1
  <2>2. CASE v # u
    BY <1>6, <1>8, <2>2
  <2> QED
    BY <2>1, <2>2
<1>9. dev' = dev
    BY <1>4
<1>10. OwnBelow'
    BY ONLY <1>8, <1>9 DEF OwnBelow, Reach, Positions
<1>11. NeverReadsOwn'
    BY ONLY <1>8, <1>9 DEF NeverReadsOwn
<1> QED
    BY <1>10, <1>11

\* A device that nobody may write keeps nothing, and the bytes of one that
\* nobody may read reach nobody.
LEMMA PermissionStep ==
    TypeOK /\ Stages /\ PermissionsHold /\ [Next]_vars => PermissionsHold'
<1> SUFFICES ASSUME TypeOK, Stages, PermissionsHold, [Next]_vars
             PROVE  PermissionsHold'
    OBVIOUS
<1> HIDE DEF multi, single, ioctl, devices
<1> USE DeviceAssumption DEF TypeOK, Stages, Step, Positions, deviceVars
<1>1. CASE Unload
    BY <1>1 DEF Unload, FreshBuffers, FreshSizes, PermissionsHold
<1>2. ASSUME Load \/ LoadFails \/ UNCHANGED vars PROVE PermissionsHold'
    BY ZenonT(40), <1>2 DEF Load, LoadFails, vars, PermissionsHold
<1>3. SUFFICES ASSUME NEW u \in Runs, User(u) PROVE PermissionsHold'
    BY <1>1, <1>2 DEF Next
<1>4. dev[u] \in Opened /\ UNCHANGED dev
    BY <1>3, OthersStill
<1>5. ASSUME NEW d \in Opened, devices[d] \cap {"write", "ioctl"} = {}
      PROVE  size'[d] = size[d] /\ buffer'[d] = buffer[d]
  <2>1. d # single /\ d # ioctl
    BY <1>5, DeviceTable
  <2>2. pc[u] \in {"write", "resize"} => d # dev[u]
    BY <1>5
  <2> QED
    BY <1>3, <2>1, <2>2
    DEF User, SetLength, Terminate, WriteValue, ReadValue, Open, OpenFails,
        Menu, Exit, WriteRefused, BeginWrite, CopyIn, EndWrite, ReadRefused,
        ReadNothing, BeginRead, CopyOut
<1>6. got'[u] # {} => devices[dev[u]] \in {{"read", "write"}, {"ioctl"}}
  <2>1. CASE CopyOut(u)
    <3>1. devices[dev[u]] = {"read", "write"}
      BY <1>4, <2>1, DeviceTable DEF CopyOut
    <3> QED
      BY <3>1
  <2>2. CASE ReadValue(u)
    BY <2>2, DeviceTable DEF ReadValue
  <2>3. ASSUME ~CopyOut(u), ~ReadValue(u) PROVE got'[u] = got[u] \/ got'[u] = {}
    BY <1>3, <2>3
    DEF User, SetLength, Terminate, WriteValue, Open, OpenFails, Menu, Exit,
        WriteRefused, BeginWrite, CopyIn, EndWrite, ReadRefused, ReadNothing,
        BeginRead
  <2> QED
    BY <2>1, <2>2, <2>3 DEF PermissionsHold
<1>7. \A v \in Runs : v # u => got'[v] = got[v]
    BY <1>3, OthersStill
<1>8. ASSUME NEW d \in Opened, devices[d] \cap {"write", "ioctl"} = {}
      PROVE  size'[d] = 0 /\ \A k \in Positions : buffer'[d][k] = Unwritten
    BY <1>5, <1>8 DEF PermissionsHold
<1>9. ASSUME NEW v \in Runs, got'[v] # {}
      PROVE  devices[dev[v]] \in {{"read", "write"}, {"ioctl"}}
    BY <1>6, <1>7, <1>9 DEF PermissionsHold
<1> QED
    BY <1>4, <1>8, <1>9 DEF PermissionsHold
-------------------------------------------------------------------------------
\* The module is not loaded, nothing is open and nothing written.
LEMMA InitInv == Init => Inv
<1> SUFFICES ASSUME Init PROVE Inv
    OBVIOUS
<1> USE DeviceAssumption DEF Init, FreshBuffers, FreshSizes, Positions
<1>1. TypeOK
  <2>1. /\ buffer \in [Opened -> [Positions -> Runs \cup {Unwritten}]]
        /\ size \in [Opened -> 0 .. BUFFER_SIZE]
    OBVIOUS
  <2>2. /\ off \in [Runs -> 0 .. BUFFER_SIZE] /\ to_copy \in [Runs -> 0 .. BUFFER_SIZE]
        /\ \A u \in Runs : pc[u] \notin {"write", "resize"}
    OBVIOUS
  <2> QED
    BY <2>1, <2>2 DEF TypeOK
<1>2. Stages /\ WrittenBelow /\ OwnBelow
    BY DEF Stages, WrittenBelow, Below, Prefix, OwnBelow
<1>3. NothingUnwritten /\ NeverReadsOwn /\ PermissionsHold
    BY DEF NothingUnwritten, NeverReadsOwn, PermissionsHold
<1> QED
    BY <1>1, <1>2, <1>3 DEF Inv

\* Types, stages, and which bytes below a size or an offset were written and by
\* whom: the inductive invariant of the driver and its menu programs.
THEOREM Invariant == Spec => []Inv
<1>1. Inv /\ [Next]_vars => Inv'
    BY TypeStep, WrittenStep, OwnStep, PermissionStep DEF Inv
<1> QED
    BY <1>1, InitInv, PTL DEF Spec

\* No copy, no offset and no size ever leaves a buffer, however the calls of
\* the programs interleave.
THEOREM TypesHold == Spec => []TypeOK
<1>1. Inv => TypeOK
    BY DEF Inv
<1> QED
    BY <1>1, Invariant, PTL

\* No program is ever given a byte that nobody wrote, although no driver has a
\* lock and every writer sets the size by itself.
THEOREM OnlyWrittenBytes == Spec => []NothingUnwritten
<1>1. Inv => NothingUnwritten
    BY DEF Inv
<1> QED
    BY <1>1, Invariant, PTL

\* A run of the menu program never reads back what it wrote itself.
THEOREM OwnBytesUnread == Spec => []NeverReadsOwn
<1>1. Inv => NeverReadsOwn
    BY DEF Inv
<1> QED
    BY <1>1, Invariant, PTL

\* The permission flags of the devices are kept.
THEOREM FlagsKept == Spec => []PermissionsHold
<1>1. Inv => PermissionsHold
    BY DEF Inv
<1> QED
    BY <1>1, Invariant, PTL
================================================================================
