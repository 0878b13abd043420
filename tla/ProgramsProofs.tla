----------------------------- MODULE ProgramsProofs -----------------------------
(***************************************************************************)
(* Proofs about the smaller programs, each by itself and then as one that  *)
(* the user may start: for every size of the buffers, socket and queue, and *)
(* every number of bytes, messages, runs, loads, files, interrupts, rounds *)
(* and signals.                                                            *)
(***************************************************************************)
EXTENDS Programs, ChildReaperProofs, SharedCounterProofs, SequenceTheorems,
        FiniteSetTheorems, TLAPS

\* A step of the shell is a step of each program or leaves it alone.
LEMMA ShellSteps ==
    [ShellNext]_shellVars => /\ [Next]_vars
                             /\ [EchoNext]_echoVars
                             /\ [SignalNext]_signalVars
                             /\ [TreeNext]_treeVars
                             /\ [LockNext]_lockVars
                             /\ [LifeNext]_lifeVars
                             /\ [QueueNext]_queueVars
                             /\ [CounterNext]_counterVars
    BY DEF ShellNext, shellVars, AsReaper, AsEcho, AsSignals, AsTree, AsLocks,
           AsModule, AsMessages, AsCounters
-------------------------------------------------------------------------------
(* The epoll echo.                                                         *)

\* What one read takes at most.
Most == BUF_SIZE - 1

\* How much the socket may hold: what one read takes at the beginning of a
\* round and before sv[1] is read; nothing before the write if it is not.
Limit == IF echo # "write" /\ "stdin" \notin events
         THEN IF events = {} THEN Most ELSE 2 * Most
         ELSE IF "sv[1]" \in events THEN Most ELSE 0

EchoRoom == /\ Len(socket) <= Limit
            /\ echo = "write" => "stdin" \notin events
            /\ echo # "write" => buf = <<>>
            /\ echo = "closed" => events = {}

\* The inductive invariant.
EchoInv == EchoTypeOK /\ EchoRoom /\ EchoAccounted

\* The first n bytes of a sequence, and the rest.
LEMMA Taken ==
    ASSUME NEW S, NEW t \in Seq(S), NEW n \in 0 .. Len(t)
    PROVE  /\ SubSeq(t, 1, n) \in Seq(S) /\ Len(SubSeq(t, 1, n)) = n
           /\ Rest(t, n) \in Seq(S) /\ Len(Rest(t, n)) = Len(t) - n
<1>1. Len(t) \in Nat /\ \A i \in 1 .. Len(t) : t[i] \in S
    BY LenProperties, ElementOfSeq
<1>2. SubSeq(t, 1, n) \in Seq(S) /\ Len(SubSeq(t, 1, n)) = n
  <2>1. \A i \in 1 .. n : t[i] \in S
    BY <1>1
  <2> QED
    BY <1>1, <2>1, SubSeqProperties
<1>3. Rest(t, n) \in Seq(S) /\ Len(Rest(t, n)) = Len(t) - n
  <2>1. \A i \in n + 1 .. Len(t) : t[i] \in S
    BY <1>1
  <2> QED
    BY <1>1, <2>1, SubSeqProperties DEF Rest
<1> QED
    BY <1>2, <1>3

\* Appended to the sequence before it, they leave the two together as they were.
LEMMA Moved ==
    ASSUME NEW S, NEW s \in Seq(S), NEW t \in Seq(S), NEW n \in 0 .. Len(t)
    PROVE  (s \o SubSeq(t, 1, n)) \o Rest(t, n) = s \o t
<1>1. SubSeq(t, 1, n) \o Rest(t, n) = t
  <2>1. 1 \in 1 .. Len(t) + 1 /\ n \in 1 - 1 .. Len(t) /\ Len(t) \in n .. Len(t)
    BY LenProperties
  <2>2. SubSeq(t, 1, n) \o SubSeq(t, n + 1, Len(t)) = SubSeq(t, 1, Len(t))
    BY ONLY <2>1, t \in Seq(S), ConcatAdjacentSubSeq
  <2> QED
    BY <2>2, SubSeqFull DEF Rest
<1> DEFINE u == SubSeq(t, 1, n)
<1> DEFINE v == Rest(t, n)
<1>2. u \in Seq(S) /\ v \in Seq(S)
    BY Taken
<1> HIDE DEF u, v
<1>3. (s \o u) \o v = s \o (u \o v)
    BY SMTT(30), <1>2, ConcatAssociative
<1> QED
    BY <1>1, <1>3 DEF u, v

\* The numbers of the typed bytes, as a sequence.
LEMMA Numbers ==
    ASSUME NEW k \in Nat
    PROVE  [n \in 1 .. k |-> n] \in Seq(Nat) /\ Len([n \in 1 .. k |-> n]) = k
<1> DEFINE q == [n \in 1 .. k |-> n]
<1>1. q \in [1 .. k -> Nat]
    OBVIOUS
<1>2. q \in Seq(Nat)
    BY <1>1, SeqDef
<1>3. Len(q) \in Nat /\ DOMAIN q = 1 .. Len(q) /\ DOMAIN q = 1 .. k
    BY <1>2, LenProperties
<1> HIDE DEF q
<1>4. (k # 0 => k \in 1 .. Len(q)) /\ (Len(q) # 0 => Len(q) \in 1 .. k)
    BY <1>3
<1>5. Len(q) \in Nat
    BY <1>3
<1>6. Len(q) = k
    BY ONLY <1>4, <1>5, k \in Nat
<1> QED
    BY <1>2, <1>6 DEF q

\* The sequences of the echo are sequences of numbers.
LEMMA EchoSequences ==
    ASSUME EchoTypeOK
    PROVE  /\ input \in Seq(Nat) /\ buf \in Seq(Nat)
           /\ socket \in Seq(Nat) /\ printed \in Seq(Nat)
<1>1. 1 .. typed \subseteq Nat
    BY EchoAssumption DEF EchoTypeOK
<1> QED
    BY <1>1, SeqMonotonic DEF EchoTypeOK

\* Every step keeps the bytes in their order and the room for a write.
LEMMA EchoStep == EchoInv /\ [EchoNext]_echoVars => EchoInv'
<1> SUFFICES ASSUME EchoInv, [EchoNext]_echoVars PROVE EchoInv'
    OBVIOUS
<1>T. EchoTypeOK /\ EchoRoom /\ EchoAccounted
    BY DEF EchoInv
<1>N. /\ input \in Seq(Nat) /\ buf \in Seq(Nat)
      /\ socket \in Seq(Nat) /\ printed \in Seq(Nat)
      /\ Len(input) \in Nat /\ Len(buf) \in Nat
      /\ Len(socket) \in Nat /\ Len(printed) \in Nat
    BY <1>T, EchoSequences, LenProperties
<1>C. /\ BUF_SIZE \in Nat \ {0, 1} /\ CAPACITY \in Nat /\ TYPED \in Nat
      /\ Most \in Nat /\ 2 * Most <= CAPACITY
    BY EchoAssumption DEF Most
<1>1. CASE EpollWait
  <2>1. EchoTypeOK'
    BY <1>1, <1>T DEF EpollWait, EchoTypeOK, Readable
  <2>2. EchoRoom'
    <3>1. events' \subseteq Fds /\ events' # {}
          /\ ("sv[1]" \notin events' => socket = <<>>)
      BY <1>1 DEF EpollWait, Readable, Fds
    <3>2. Len(socket) <= Most
      BY <1>1, <1>T DEF EpollWait, EchoRoom, Limit
    <3>3. socket = <<>> => Len(socket) = 0
      BY <1>N, EmptySeq
    <3> QED
      BY <1>1, <1>T, <1>N, <1>C, <3>1, <3>2, <3>3 DEF EpollWait, EchoRoom, Limit
  <2>3. EchoAccounted'
    BY <1>1, <1>T DEF EpollWait, EchoAccounted
  <2> QED
    BY <2>1, <2>2, <2>3 DEF EchoInv
<1>2. CASE WaitInterrupted
  <2>1. input = <<>> /\ buf = <<>> /\ socket = <<>> /\ events = {}
    BY SMTT(30), <1>2, <1>T DEF WaitInterrupted, Readable, Fds, EchoRoom
  <2>2. EchoTypeOK'
    BY <1>2, <1>T DEF WaitInterrupted, EchoTypeOK
  <2>3. EchoRoom'
    BY <1>2, <1>T, <2>1 DEF WaitInterrupted, EchoRoom, Limit
  <2>4. printed \o socket \o buf \o input = printed
    BY <1>N, <2>1, ConcatEmptySeq
  <2>5. Len(printed) = typed
    BY <1>T, <2>4, Numbers DEF EchoTypeOK, EchoAccounted
  <2>6. EchoAccounted'
    BY <1>2, <1>T, <2>5 DEF WaitInterrupted, EchoAccounted
  <2> QED
    BY <2>2, <2>3, <2>6 DEF EchoInv
<1>3. CASE ReadStdin
  <2>1. CASE input = <<>>
    <3>1. /\ UNCHANGED <<echo, input, buf, typed, eof, socket, printed>>
          /\ echo = "loop" /\ "stdin" \in events /\ events' = events \ {"stdin"}
      BY <1>3, <2>1 DEF ReadStdin, Handled
    <3>2. EchoTypeOK' /\ EchoAccounted'
      BY <3>1, <1>T DEF EchoTypeOK, EchoAccounted
    <3>3. EchoRoom'
      BY <3>1, <1>T, <1>N, <1>C DEF EchoTypeOK, EchoRoom, Limit, Fds
    <3> QED
      BY <3>2, <3>3 DEF EchoInv
  <2>2. CASE input # <<>>
    <3>1. PICK n \in 1 .. Chunk(input) :
                   /\ buf' = SubSeq(input, 1, n) /\ input' = Rest(input, n)
      BY <1>3, <2>2 DEF ReadStdin
    <3>2. /\ UNCHANGED <<typed, eof, socket, printed>> /\ echo' = "write"
          /\ echo = "loop" /\ "stdin" \in events /\ events' = events \ {"stdin"}
      BY <1>3, <2>2 DEF ReadStdin, Handled
    <3>3. n \in 0 .. Len(input) /\ n < BUF_SIZE
      BY <1>N, <1>C DEF Chunk
    <3>4. /\ buf' \in Seq(1 .. typed) /\ Len(buf') = n
          /\ input' \in Seq(1 .. typed)
      BY <3>1, <3>3, <1>T, Taken DEF EchoTypeOK
    <3>5. EchoTypeOK'
      BY <1>T, <3>2, <3>3, <3>4 DEF EchoTypeOK
    <3>6. EchoRoom'
      BY <1>T, <1>N, <1>C, <3>2 DEF EchoTypeOK, EchoRoom, Limit, Fds
    <3>7. printed' \o socket' \o buf' \o input' = printed \o socket \o buf \o input
      <4>1. printed \o socket \in Seq(Nat)
        BY <1>N, ConcatProperties
      <4>2. (printed \o socket) \o buf = printed \o socket
        BY <1>T, <3>2, <4>1, ConcatEmptySeq DEF EchoRoom
      <4> DEFINE front == printed \o socket
      <4> HIDE DEF front
      <4>3. (front \o buf') \o input' = front \o input
        BY <3>1, <3>3, <1>N, <4>1, Moved DEF front
      <4> QED
        BY <3>2, <4>2, <4>3 DEF front
    <3>8. Len(socket') + Len(buf') <= CAPACITY
      BY <1>T, <1>N, <1>C, <3>2, <3>3, <3>4 DEF EchoRoom, Limit, Most
    <3>9. EchoAccounted'
      BY <1>T, <3>2, <3>7, <3>8 DEF EchoAccounted
    <3> QED
      BY <3>5, <3>6, <3>9 DEF EchoInv
  <2> QED
    BY <2>1, <2>2
<1>4. CASE WriteSocket
  <2>1. /\ socket' = socket \o buf /\ buf' = <<>> /\ echo' = "loop"
        /\ UNCHANGED <<events, typed, eof, input, printed>> /\ echo = "write"
    BY <1>4 DEF WriteSocket
  <2>2. socket' \in Seq(1 .. typed) /\ Len(socket') = Len(socket) + Len(buf)
    BY <2>1, <1>T, ConcatProperties DEF EchoTypeOK
  <2>3. Len(buf') = 0 /\ buf' \in Seq(1 .. typed)
    BY <2>1, EmptySeq
  <2>4. EchoTypeOK'
    BY <1>T, <1>C, <2>1, <2>2, <2>3 DEF EchoTypeOK
  <2>5. EchoRoom'
    <3>1. Len(buf) <= Most
      BY <1>T, <1>N, <1>C DEF EchoTypeOK, Most
    <3>2. "stdin" \notin events
          /\ Len(socket) <= IF "sv[1]" \in events THEN Most ELSE 0
      BY <1>T, <2>1 DEF EchoRoom, Limit
    <3>3. "sv[1]" \notin events => events = {}
      BY <1>T, <3>2 DEF EchoTypeOK, Fds
    <3> QED
      BY <1>N, <1>C, <2>1, <2>2, <3>1, <3>2, <3>3 DEF EchoRoom, Limit
  <2>6. printed' \o socket' \o buf' \o input' = printed \o socket \o buf \o input
    <3>1. (printed \o socket) \o buf = printed \o (socket \o buf)
      BY SMTT(30), <1>N, ConcatAssociative
    <3>2. printed \o (socket \o buf) \in Seq(Nat)
      BY <1>N, ConcatProperties
    <3>3. (printed \o (socket \o buf)) \o <<>> = printed \o (socket \o buf)
      BY <3>2, ConcatEmptySeq
    <3> QED
      BY <2>1, <3>1, <3>3
  <2>7. EchoAccounted'
    BY <1>T, <2>1, <2>6 DEF EchoAccounted
  <2> QED
    BY <2>4, <2>5, <2>7 DEF EchoInv
<1>5. CASE ReadSocket
  <2> DEFINE n == Chunk(socket)
  <2>1. /\ printed' = printed \o SubSeq(socket, 1, n)
        /\ socket' = Rest(socket, n)
        /\ UNCHANGED <<echo, typed, eof, input, buf>>
        /\ echo = "loop" /\ "sv[1]" \in events /\ events' = events \ {"sv[1]"}
    BY <1>5 DEF ReadSocket, Handled
  <2>2. /\ n \in 0 .. Len(socket)
        /\ n = IF Len(socket) <= Most THEN Len(socket) ELSE Most
    BY <1>N, <1>C DEF Chunk, Most
  <2> HIDE DEF n
  <2>3. /\ SubSeq(socket, 1, n) \in Seq(1 .. typed)
        /\ socket' \in Seq(1 .. typed) /\ Len(socket') = Len(socket) - n
    BY <1>T, <2>1, <2>2, Taken DEF EchoTypeOK
  <2>4. printed' \in Seq(1 .. typed)
    BY <1>T, <2>1, <2>3, ConcatProperties DEF EchoTypeOK
  <2>5. EchoTypeOK'
    BY <1>T, <2>1, <2>3, <2>4 DEF EchoTypeOK
  <2>6. EchoRoom'
    <3>1. events' = {} \/ (events' = {"stdin"} /\ "stdin" \in events)
      BY <1>T, <2>1 DEF EchoTypeOK, Fds
    <3>2. Len(socket) <= IF "stdin" \in events THEN Most ELSE 2 * Most
      BY <1>T, <2>1 DEF EchoRoom, Limit
    <3>3. CASE events' = {}
      <4>1. Len(socket') <= Most
        BY <1>N, <1>C, <2>2, <2>3, <3>2
      <4> QED
        BY <1>T, <2>1, <3>3, <4>1 DEF EchoRoom, Limit
    <3>4. CASE events' = {"stdin"} /\ "stdin" \in events
      BY <1>T, <1>N, <1>C, <2>1, <2>2, <2>3, <3>2, <3>4 DEF EchoRoom, Limit
    <3> QED
      BY <3>1, <3>3, <3>4
  <2>7. printed' \o socket' = printed \o socket
    BY <1>N, <2>1, <2>2, Moved
  <2>8. EchoAccounted'
    BY <1>T, <2>1, <2>7 DEF EchoAccounted
  <2> QED
    BY <2>5, <2>6, <2>8 DEF EchoInv
<1>6. CASE Typing /\ UNCHANGED <<typed, input>>
  <2>1. EchoTypeOK' /\ EchoRoom'
    BY <1>6, <1>T DEF Typing, EchoTypeOK, EchoRoom, Limit
  <2>2. EchoAccounted'
    BY <1>6, <1>T DEF Typing, EchoAccounted
  <2> QED
    BY <2>1, <2>2 DEF EchoInv
<1>7. CASE Typing /\ ~UNCHANGED <<typed, input>>
  <2>1. /\ typed < TYPED /\ typed' = typed + 1 /\ input' = Append(input, typed')
        /\ UNCHANGED <<eof, echo, events, buf, socket, printed>>
        /\ echo # "closed"
    BY <1>7 DEF Typing
  <2>2. typed \in Nat /\ typed' \in 0 .. TYPED /\ 1 .. typed \subseteq 1 .. typed'
        /\ typed' \in 1 .. typed'
    BY <1>T, <1>C, <2>1 DEF EchoTypeOK
  <2>3. /\ input \in Seq(1 .. typed') /\ buf \in Seq(1 .. typed')
        /\ socket \in Seq(1 .. typed') /\ printed \in Seq(1 .. typed')
    BY <1>T, <2>2, SeqMonotonic DEF EchoTypeOK
  <2>4. input' \in Seq(1 .. typed')
    BY <2>1, <2>2, <2>3, AppendProperties
  <2>5. EchoTypeOK'
    BY <1>T, <2>1, <2>2, <2>3, <2>4 DEF EchoTypeOK
  <2>6. EchoRoom'
    BY <1>T, <2>1 DEF EchoRoom, Limit
  <2>7. printed' \o socket' \o buf' \o input' = [n \in 1 .. typed' |-> n]
    <3> DEFINE front == printed \o socket \o buf
    <3> DEFINE old == [n \in 1 .. typed |-> n]
    <3> DEFINE new == [n \in 1 .. typed' |-> n]
    <3>1. front \in Seq(Nat)
      BY <1>N, ConcatProperties
    <3>2. front \o input = old
      BY <1>T DEF EchoAccounted
    <3>3. old \in Seq(Nat) /\ Len(old) = typed /\ new \in Seq(Nat)
          /\ Len(new) = typed + 1
      BY <2>1, <2>2, Numbers
    <3>4. /\ \A n \in 1 .. typed : old[n] = n
          /\ \A n \in 1 .. typed' : new[n] = n
      OBVIOUS
    <3> HIDE DEF front, old, new
    <3>5. <<typed'>> \in Seq(Nat)
      BY <2>2
    <3>6. front \o input' = (front \o input) \o <<typed'>>
      <4>1. input' = input \o <<typed'>>
        BY <1>N, <2>1, <2>2, AppendIsConcat
      <4> QED
        BY SMTT(30), <1>N, <3>1, <3>5, <4>1, ConcatAssociative
    <3>7. old \o <<typed'>> = Append(old, typed')
      BY <2>2, <3>3, AppendIsConcat
    <3>8. Append(old, typed') = new
      <4>1. /\ Append(old, typed') \in Seq(Nat)
            /\ Len(Append(old, typed')) = typed + 1
            /\ \A n \in 1 .. typed : Append(old, typed')[n] = n
            /\ Append(old, typed')[typed + 1] = typed + 1
        BY <2>1, <2>2, <3>3, <3>4, AppendProperties
      <4>2. \A n \in 1 .. typed + 1 : Append(old, typed')[n] = new[n]
        BY <2>1, <2>2, <3>4, <4>1
      <4> QED
        BY <3>3, <4>1, <4>2, SeqEqual
    <3> QED
      BY <2>1, <3>2, <3>6, <3>7, <3>8 DEF front, new
  <2>8. EchoAccounted'
    BY <1>T, <2>1, <2>7 DEF EchoAccounted
  <2> QED
    BY <2>5, <2>6, <2>8 DEF EchoInv
<1>8. CASE UNCHANGED echoVars
    BY <1>8, <1>T
       DEF echoVars, EchoInv, EchoTypeOK, EchoRoom, Limit, EchoAccounted
<1> QED
    BY <1>1, <1>2, <1>3, <1>4, <1>5, <1>6, <1>7, <1>8 DEF EchoNext, EchoLoop

\* At first nothing is typed and nothing is anywhere.
LEMMA EchoBegins == EchoInit => EchoInv
<1> SUFFICES ASSUME EchoInit PROVE EchoInv
    OBVIOUS
<1>1. /\ typed = 0 /\ echo = "loop" /\ events = {} /\ eof = FALSE
      /\ input = <<>> /\ buf = <<>> /\ socket = <<>> /\ printed = <<>>
    BY DEF EchoInit
<1>2. Len(<<>>) = 0 /\ <<>> \in Seq(1 .. 0) /\ <<>> \in Seq(Nat)
    BY EmptySeq
<1>3. EchoTypeOK
  <2>1. typed \in 0 .. TYPED /\ Len(buf) < BUF_SIZE
    BY <1>1, <1>2, EchoAssumption
  <2> QED
    BY <1>1, <1>2, <2>1 DEF EchoTypeOK
<1>4. EchoRoom
    BY <1>1, <1>2, EchoAssumption DEF EchoRoom, Limit, Most
<1>5. EchoAccounted
  <2>1. <<>> \o <<>> \o <<>> \o <<>> = <<>>
    BY <1>2, ConcatEmptySeq
  <2>2. [n \in 1 .. 0 |-> n] = <<>>
    BY Numbers, EmptySeq
  <2> QED
    BY <1>1, <2>1, <2>2 DEF EchoAccounted
<1> QED
    BY <1>3, <1>4, <1>5 DEF EchoInv

\* In the echo program every byte that is typed is, until it is printed, in
\* the one place where its order puts it; and no write to the socket pair ever
\* blocks the thread that alone could empty it: a round leaves so little in
\* the socket that it has room for what the next round reads.
THEOREM NothingLostOrOvertaken == ShellSafeSpec => []EchoAccounted
<1>1. ShellInit => EchoInv
    BY EchoBegins DEF ShellInit
<1>2. EchoInv => EchoAccounted
    BY DEF EchoInv
<1> QED
    BY <1>1, <1>2, EchoStep, ShellSteps, PTL DEF ShellSafeSpec
-------------------------------------------------------------------------------
(* The message queue.                                                      *)

Waiting == {queue[k] : k \in DOMAIN queue}
Texts == {Leftovers} \cup {Text(m) : m \in Messages}

\* Of the messages of one run the first is ahead of the second: in the queue,
\* and printed before the other one is taken.
QueueOrder ==
    /\ \A i, j \in DOMAIN queue :
          queue[i][1] = queue[j][1] /\ i < j => queue[i][2] < queue[j][2]
    /\ \A k \in DOMAIN texts, i \in DOMAIN queue :
          texts[k].of[1] = queue[i][1] => texts[k].of[2] < queue[i][2]
    /\ \A s \in 1 .. SENDERS :
          <<s, 2>> \in Waiting => <<s, 1>> \in Printed \cup dropped \cup Waiting

\* The inductive invariant.
QueueInv == QueueTypeOK /\ QueueOrder /\ MessagesAccounted

\* What a message and a text are.
LEMMA MessageParts ==
    \A m \in Messages : /\ m = <<m[1], m[2]>>
                        /\ m[1] \in 1 .. SENDERS /\ m[2] \in {1, 2}
                        /\ m # <<0, 0>>
    BY QueueAssumption DEF Messages

\* A text is a message of a sender or what lay there before, and never whole:
\* both messages are longer than what msgrcv copies.
LEMMA TextParts ==
    ASSUME NEW t \in Texts
    PROVE  /\ t.of \in Messages \cup {<<0, 0>>}
           /\ t.of[1] \in 0 .. SENDERS /\ t.of[2] \in 0 .. 2
           /\ t.of = <<0, 0>> <=> t = Leftovers
           /\ ~t.whole
<1>1. CASE t = Leftovers
    BY <1>1, QueueAssumption DEF Leftovers
<1>2. ASSUME NEW m \in Messages, t = Text(m)
      PROVE  /\ t.of \in Messages /\ t.of # <<0, 0>>
             /\ t.of[1] \in 0 .. SENDERS /\ t.of[2] \in 0 .. 2
             /\ t # Leftovers
             /\ ~t.whole
  <2>1. m[2] \in {1, 2} /\ m # <<0, 0>> /\ m[1] \in 1 .. SENDERS
    BY MessageParts
  <2>2. ~(length[m[2]] <= 20)
    BY <2>1 DEF length
  <2>3. t.of = m /\ t.whole = (length[m[2]] <= 20)
    BY <1>2 DEF Text
  <2>4. Leftovers.of = <<0, 0>>
    BY DEF Leftovers
  <2>5. t # Leftovers /\ ~t.whole
    BY <2>1, <2>2, <2>3, <2>4
  <2>6. t.of[1] \in 0 .. SENDERS /\ t.of[2] \in 0 .. 2
    BY <2>1, <2>3, QueueAssumption
  <2> QED
    BY <2>1, <2>3, <2>5, <2>6
<1> QED
    BY <1>1, <1>2 DEF Texts, Leftovers

\* The types of the parts.
LEMMA QueueParts ==
    ASSUME QueueTypeOK
    PROVE  /\ queue \in Seq(Messages) /\ texts \in Seq(Texts)
           /\ Len(queue) \in Nat /\ Len(texts) \in Nat
           /\ DOMAIN queue = 1 .. Len(queue) /\ DOMAIN texts = 1 .. Len(texts)
           /\ \A i \in DOMAIN queue : queue[i] \in Messages
           /\ \A k \in DOMAIN texts : texts[k] \in Texts
    BY LenProperties, ElementOfSeq DEF QueueTypeOK, Texts

\* A message that is sent goes to the end of the queue, unless it is full.
LEMMA SendStep ==
    ASSUME QueueInv, NEW s \in 1 .. SENDERS, MsgSend(s)
    PROVE  QueueInv'
<1> DEFINE m == <<s, said'[s]>>
<1> DEFINE sent_before == {n \in Messages : n[2] <= said[n[1]]}
<1>T. QueueTypeOK /\ QueueOrder /\ MessagesAccounted
    BY DEF QueueInv
<1>P. /\ queue \in Seq(Messages) /\ texts \in Seq(Texts)
      /\ Len(queue) \in Nat /\ Len(texts) \in Nat
      /\ DOMAIN queue = 1 .. Len(queue) /\ DOMAIN texts = 1 .. Len(texts)
      /\ \A i \in DOMAIN queue : queue[i] \in Messages
      /\ \A k \in DOMAIN texts : texts[k] \in Texts
    BY <1>T, QueueParts
<1>1. /\ said[s] \in 0 .. 1 /\ said' = [said EXCEPT ![s] = @ + 1]
      /\ UNCHANGED <<made, texts>>
    BY <1>T DEF MsgSend, QueueTypeOK
<1>2. said'[s] = said[s] + 1 /\ said'[s] \in {1, 2} /\ m \in Messages
    BY <1>T, <1>1, QueueAssumption DEF QueueTypeOK, Messages
<1>3. sent_before = dropped \cup (Printed \ {<<0, 0>>}) \cup Waiting
    BY <1>T DEF MessagesAccounted, Waiting
<1>4. {n \in Messages : n[2] <= said'[n[1]]} = sent_before \cup {m}
  <2>1. ASSUME NEW n \in Messages
        PROVE  n[2] <= said'[n[1]] <=> n[2] <= said[n[1]] \/ n = m
    <3>1. n = <<n[1], n[2]>> /\ n[1] \in 1 .. SENDERS /\ n[2] \in {1, 2}
      BY MessageParts
    <3>2. CASE n[1] = s
      <4>1. n = m <=> n[2] = said[s] + 1
        BY <1>2, <3>1, <3>2
      <4> QED
        BY <1>1, <1>2, <3>1, <3>2, <4>1
    <3>3. CASE n[1] # s
      <4>1. said'[n[1]] = said[n[1]] /\ n # m
        BY <1>1, <1>T, <3>1, <3>3 DEF QueueTypeOK
      <4> QED
        BY <4>1
    <3> QED
      BY <3>2, <3>3
  <2> QED
    BY <1>2, <2>1
<1>5. m[1] = s /\ m[2] = said[s] + 1
    BY <1>2
<1> HIDE DEF m
<1>6. m \notin sent_before
    BY <1>1, <1>5
<1>7. \A n \in sent_before : n[1] = s => n[2] < m[2]
    BY <1>1, <1>5, MessageParts
<1>8. s # 0 /\ (m[2] = 2 => <<s, 1>> \in sent_before)
    BY <1>1, <1>5 DEF Messages
<1> HIDE DEF sent_before
<1>9. said' \in [1 .. SENDERS -> 0 .. 2]
    BY <1>T, <1>1 DEF QueueTypeOK
<1>10. CASE queue' = Append(queue, m) /\ UNCHANGED dropped /\ Len(queue) < ROOM
  <2>1. /\ queue' \in Seq(Messages) /\ Len(queue') = Len(queue) + 1
        /\ \A i \in 1 .. Len(queue) : queue'[i] = queue[i]
        /\ queue'[Len(queue) + 1] = m
    BY <1>2, <1>P, <1>10, AppendProperties DEF m
  <2>2. DOMAIN queue' = 1 .. Len(queue) + 1
    BY <2>1, LenProperties
  <2>3. Waiting' = Waiting \cup {m}
    BY <1>P, <2>1, <2>2 DEF Waiting
  <2>4. QueueTypeOK'
    BY <1>T, <1>1, <1>9, <1>10, <2>1, QueueAssumption DEF QueueTypeOK
  <2>5. Printed' = Printed
    BY <1>1 DEF Printed
  <2>6. QueueOrder'
    <3>1. \A i \in 1 .. Len(queue) : queue[i] \in sent_before
      BY <1>3, <1>P DEF Waiting
    <3>2. \A k \in DOMAIN texts : texts[k].of[1] = s => texts[k].of \in sent_before
      <4>1. ASSUME NEW k \in DOMAIN texts, texts[k].of[1] = s
            PROVE  texts[k].of \in sent_before
        <5>1. texts[k].of # <<0, 0>>
          BY <1>8, <4>1
        <5> QED
          BY <1>3, <5>1 DEF Printed
      <4> QED
        BY <4>1
    <3>3. \A i, j \in DOMAIN queue' :
             queue'[i][1] = queue'[j][1] /\ i < j => queue'[i][2] < queue'[j][2]
      BY <1>T, <1>P, <1>5, <1>7, <2>1, <2>2, <3>1 DEF QueueOrder
    <3>4. \A k \in DOMAIN texts, i \in DOMAIN queue' :
             texts[k].of[1] = queue'[i][1] => texts[k].of[2] < queue'[i][2]
      BY <1>T, <1>P, <1>5, <1>7, <2>1, <2>2, <3>2 DEF QueueOrder
    <3>5. \A r \in 1 .. SENDERS : <<r, 2>> \in Waiting'
                                     => <<r, 1>> \in Printed \cup dropped \cup Waiting'
      <4>1. ASSUME NEW r \in 1 .. SENDERS, <<r, 2>> = m
            PROVE  <<r, 1>> \in Printed \cup dropped \cup Waiting
        BY <1>3, <1>5, <1>8, <4>1
      <4> QED
        BY <1>T, <2>3, <4>1 DEF QueueOrder
    <3> QED
      BY <1>1, <1>10, <2>5, <3>3, <3>4, <3>5 DEF QueueOrder
  <2>7. MessagesAccounted'
    BY <1>T, <1>1, <1>3, <1>4, <1>10, <2>3, <2>5
       DEF MessagesAccounted, sent_before, Waiting
  <2> QED
    BY <2>4, <2>6, <2>7 DEF QueueInv
<1>11. CASE dropped' = dropped \cup {m} /\ UNCHANGED queue
  <2>1. QueueTypeOK'
    BY <1>T, <1>1, <1>2, <1>9, <1>11 DEF QueueTypeOK, m
  <2>2. Printed' = Printed /\ Waiting' = Waiting
    BY <1>1, <1>11 DEF Printed, Waiting
  <2>3. QueueOrder'
    BY <1>T, <1>1, <1>11, <2>2 DEF QueueOrder
  <2>4. MessagesAccounted'
    BY <1>T, <1>1, <1>3, <1>4, <1>11, <2>2
       DEF MessagesAccounted, sent_before, Waiting
  <2> QED
    BY <2>1, <2>3, <2>4 DEF QueueInv
<1> QED
    BY <1>10, <1>11 DEF MsgSend, m

\* A receiver prints the head of the queue, or what lay there before.
LEMMA ReceiveStep == QueueInv /\ MsgReceive => QueueInv'
<1> SUFFICES ASSUME QueueInv, MsgReceive PROVE QueueInv'
    OBVIOUS
<1>T. QueueTypeOK /\ QueueOrder /\ MessagesAccounted
    BY DEF QueueInv
<1>P. /\ queue \in Seq(Messages) /\ texts \in Seq(Texts)
      /\ Len(queue) \in Nat /\ Len(texts) \in Nat
      /\ DOMAIN queue = 1 .. Len(queue) /\ DOMAIN texts = 1 .. Len(texts)
      /\ \A i \in DOMAIN queue : queue[i] \in Messages
      /\ \A k \in DOMAIN texts : texts[k] \in Texts
    BY <1>T, QueueParts
<1> DEFINE new == Len(texts) + 1
<1>U. UNCHANGED <<made, said, dropped>>
    BY DEF MsgReceive
<1>1. ASSUME NEW t \in Texts, texts' = Append(texts, t)
      PROVE  /\ texts' \in Seq(Texts) /\ DOMAIN texts' = 1 .. new
             /\ \A k \in DOMAIN texts : texts'[k] = texts[k]
             /\ texts'[new] = t
             /\ Printed' = Printed \cup {t.of}
             /\ \A k \in DOMAIN texts' : ~texts'[k].whole
  <2>1. /\ texts' \in Seq(Texts) /\ Len(texts') = new
        /\ \A k \in 1 .. Len(texts) : texts'[k] = texts[k]
        /\ texts'[new] = t
    BY <1>P, <1>1, AppendProperties
  <2>2. DOMAIN texts' = 1 .. new
    BY <2>1, LenProperties
  <2>3. Printed' = Printed \cup {t.of}
    BY <1>P, <2>1, <2>2 DEF Printed
  <2>4. \A k \in DOMAIN texts' : ~texts'[k].whole
    BY <1>P, <2>1, <2>2, TextParts
  <2> QED
    BY <1>P, <2>1, <2>2, <2>3, <2>4
<1>2. CASE queue = <<>>
  <2>1. texts' = Append(texts, Leftovers) /\ UNCHANGED queue /\ queue = <<>>
    BY <1>2 DEF MsgReceive
  <2>2. Leftovers \in Texts /\ Leftovers.of = <<0, 0>>
    BY DEF Texts, Leftovers
  <2>3. /\ texts' \in Seq(Texts) /\ DOMAIN texts' = 1 .. new
        /\ \A k \in DOMAIN texts : texts'[k] = texts[k]
        /\ texts'[new] = Leftovers
        /\ Printed' = Printed \cup {<<0, 0>>}
        /\ \A k \in DOMAIN texts' : ~texts'[k].whole
    BY <1>1, <2>1, <2>2
  <2>4. QueueTypeOK'
    BY <1>T, <1>U, <2>1, <2>3 DEF QueueTypeOK, Texts
  <2>5. DOMAIN queue = {} /\ Waiting = {} /\ Waiting' = {}
    <3>1. Len(queue) = 0
      BY <2>1, EmptySeq
    <3> QED
      BY <1>P, <2>1, <3>1 DEF Waiting
  <2>6. QueueOrder'
    BY <2>1, <2>5 DEF QueueOrder
  <2>7. \A j, k \in DOMAIN texts' :
           /\ texts'[j].of = texts'[k].of => j = k \/ texts'[j] = Leftovers
           /\ texts'[j].of[1] = texts'[k].of[1] /\ j < k
                 => texts'[j].of[2] <= texts'[k].of[2]
    <3>1. ASSUME NEW j \in DOMAIN texts
          PROVE  /\ texts[j].of = <<0, 0>> => texts[j] = Leftovers
                 /\ texts[j].of[1] = 0 => texts[j] = Leftovers
      BY <1>P, TextParts, MessageParts
    <3>2. <<0, 0>>[1] = 0 /\ <<0, 0>>[2] = 0
      OBVIOUS
    <3> QED
      BY SMTT(30), <1>T, <1>P, <2>2, <2>3, <3>1, <3>2 DEF MessagesAccounted
  <2>8. MessagesAccounted'
    <3>1. \A s \in 1 .. SENDERS : <<s, 1>> # <<0, 0>> /\ <<s, 2>> # <<0, 0>>
      OBVIOUS
    <3> QED
      BY <1>T, <1>U, <2>1, <2>3, <2>5, <2>7, <3>1 DEF MessagesAccounted, Waiting
  <2> QED
    BY <2>4, <2>6, <2>8 DEF QueueInv
<1>3. CASE queue # <<>>
  <2> DEFINE h == Head(queue)
  <2>1. texts' = Append(texts, Text(h)) /\ queue' = Tail(queue)
    BY <1>3 DEF MsgReceive
  <2>2. /\ h \in Messages /\ h = queue[1] /\ 1 \in DOMAIN queue
        /\ queue' \in Seq(Messages) /\ Len(queue') = Len(queue) - 1
        /\ \A i \in 1 .. Len(queue) - 1 : queue'[i] = queue[i + 1]
    <3>1. Len(queue) \in Nat \ {0}
      BY <1>P, <1>3, EmptySeq
    <3> QED
      BY <1>P, <1>3, <2>1, <3>1, HeadTailProperties
  <2> HIDE DEF h
  <2>3. DOMAIN queue' = 1 .. Len(queue) - 1
    BY <2>2, LenProperties
  <2>S. \A i \in DOMAIN queue' : /\ i \in Nat /\ i + 1 \in DOMAIN queue
                                /\ queue'[i] = queue[i + 1]
    BY <1>P, <2>2, <2>3
  <2>4. Waiting = Waiting' \cup {h}
    <3>1. ASSUME NEW i \in DOMAIN queue PROVE i = 1 \/ i - 1 \in DOMAIN queue'
      BY <1>P, <2>3
    <3>2. ASSUME NEW i \in DOMAIN queue PROVE queue[i] \in Waiting' \cup {h}
      BY <1>P, <2>2, <2>3, <3>1 DEF Waiting
    <3>3. ASSUME NEW i \in DOMAIN queue' PROVE queue'[i] \in Waiting
      BY <2>S DEF Waiting
    <3> QED
      BY ZenonT(40), <2>2, <3>2, <3>3 DEF Waiting
  <2>5. Text(h) \in Texts /\ Text(h).of = h
    BY <2>2 DEF Texts, Text
  <2>6. /\ texts' \in Seq(Texts) /\ DOMAIN texts' = 1 .. new
        /\ \A k \in DOMAIN texts : texts'[k] = texts[k]
        /\ texts'[new] = Text(h)
        /\ Printed' = Printed \cup {h}
        /\ \A k \in DOMAIN texts' : ~texts'[k].whole
    BY <1>1, <2>1, <2>5
  <2>7. QueueTypeOK'
    BY <1>T, <1>P, <1>U, <2>2, <2>6, QueueAssumption DEF QueueTypeOK, Texts
  <2>8. \A k \in DOMAIN texts : texts[k].of[1] = h[1] => texts[k].of[2] < h[2]
    BY <1>T, <2>2 DEF QueueOrder
  <2>9. \A i \in DOMAIN queue' : h[1] = queue'[i][1] => h[2] < queue'[i][2]
    <3>1. ASSUME NEW i \in DOMAIN queue'
          PROVE  h[1] = queue'[i][1] => h[2] < queue'[i][2]
      <4>1. 1 < i + 1 /\ i + 1 \in DOMAIN queue /\ queue'[i] = queue[i + 1]
        BY <2>3, <2>S
      <4> QED
        BY <1>T, <2>2, <4>1 DEF QueueOrder
    <3> QED
      BY <3>1
  <2>10. QueueOrder'
    <3>1. \A i, j \in DOMAIN queue' :
             queue'[i][1] = queue'[j][1] /\ i < j => queue'[i][2] < queue'[j][2]
      <4>1. ASSUME NEW i \in DOMAIN queue', NEW j \in DOMAIN queue', i < j
            PROVE  i + 1 < j + 1
        BY <2>S, <4>1
      <4> QED
        BY <1>T, <2>S, <4>1 DEF QueueOrder
    <3>2. \A k \in DOMAIN texts', i \in DOMAIN queue' :
             texts'[k].of[1] = queue'[i][1] => texts'[k].of[2] < queue'[i][2]
      <4>1. ASSUME NEW k \in DOMAIN texts, NEW i \in DOMAIN queue'
            PROVE  texts[k].of[1] = queue'[i][1] => texts[k].of[2] < queue'[i][2]
        BY <1>T, <2>S DEF QueueOrder
      <4>2. \A k \in DOMAIN texts' : k \in DOMAIN texts \/ k = new
        BY <1>P, <2>6
      <4> QED
        BY <2>5, <2>6, <2>9, <4>1, <4>2
    <3>3. \A s \in 1 .. SENDERS : <<s, 2>> \in Waiting'
             => <<s, 1>> \in Printed' \cup dropped' \cup Waiting'
      BY <1>T, <1>U, <2>4, <2>6 DEF QueueOrder
    <3> QED
      BY <3>1, <3>2, <3>3 DEF QueueOrder
  <2>11. \A j, k \in DOMAIN texts' :
           /\ texts'[j].of = texts'[k].of => j = k \/ texts'[j] = Leftovers
           /\ texts'[j].of[1] = texts'[k].of[1] /\ j < k
                 => texts'[j].of[2] <= texts'[k].of[2]
    <3>1. h[2] \in {1, 2} /\ \A k \in DOMAIN texts : texts[k].of[2] \in 0 .. 2
      BY <1>P, <2>2, MessageParts, TextParts
    <3>2. \A k \in DOMAIN texts : texts[k].of # h
      BY <2>8, <3>1
    <3>3. \A k \in DOMAIN texts' : k \in DOMAIN texts \/ k = new
      BY <1>P, <2>6
    <3>4. \A k \in DOMAIN texts : k < new
      BY <1>P
    <3>5. ASSUME NEW j \in DOMAIN texts, NEW k \in DOMAIN texts
          PROVE  /\ texts[j].of = texts[k].of => j = k \/ texts[j] = Leftovers
                 /\ texts[j].of[1] = texts[k].of[1] /\ j < k
                       => texts[j].of[2] <= texts[k].of[2]
      BY <1>T DEF MessagesAccounted
    <3>6. ASSUME NEW j \in DOMAIN texts
          PROVE  /\ texts'[j].of # texts'[new].of
                 /\ texts'[j].of[1] = texts'[new].of[1]
                       => texts'[j].of[2] <= texts'[new].of[2]
                 /\ ~(new < j)
      BY SMTT(30), <1>P, <2>5, <2>6, <2>8, <3>1, <3>2, <3>4
    <3>7. ~(new < new)
      BY <1>P
    <3> QED
      BY <2>6, <3>3, <3>5, <3>6, <3>7
  <2>12. \A s \in 1 .. SENDERS :
            <<s, 2>> \in Printed' => <<s, 1>> \in Printed' \cup dropped'
    <3>1. ASSUME NEW s \in 1 .. SENDERS, h = <<s, 2>>
          PROVE  <<s, 1>> \in Printed' \cup dropped'
      <4>1. <<s, 1>> \in Printed \cup dropped \cup Waiting
        BY <1>T, <2>4, <3>1 DEF QueueOrder
      <4>2. <<s, 1>> \notin Waiting'
        BY <2>9, <3>1 DEF Waiting
      <4> QED
        BY <1>U, <2>4, <2>6, <4>1, <4>2
    <3> QED
      BY <1>T, <1>U, <2>6, <3>1 DEF MessagesAccounted
  <2>13. {m \in Messages : m[2] <= said'[m[1]]}
            = dropped' \cup (Printed' \ {<<0, 0>>}) \cup Waiting'
    <3>1. h # <<0, 0>>
      BY <2>2, MessageParts
    <3>2. {m \in Messages : m[2] <= said[m[1]]}
             = dropped \cup (Printed \ {<<0, 0>>}) \cup Waiting
      BY <1>T DEF MessagesAccounted, Waiting
    <3> QED
      BY <1>U, <2>4, <2>6, <3>1, <3>2
  <2>14. MessagesAccounted'
    BY <2>6, <2>11, <2>12, <2>13 DEF MessagesAccounted, Waiting
  <2> QED
    BY <2>7, <2>10, <2>14 DEF QueueInv
<1> QED
    BY <1>2, <1>3

\* Every step keeps the messages in their order and none is lost on the way.
LEMMA QueueStep == QueueInv /\ [QueueNext]_queueVars => QueueInv'
<1> SUFFICES ASSUME QueueInv, [QueueNext]_queueVars PROVE QueueInv'
    OBVIOUS
<1>1. CASE MakeQueue \/ UNCHANGED queueVars
  <2>1. made' \in BOOLEAN /\ UNCHANGED <<queue, said, dropped, texts>>
    BY <1>1 DEF MakeQueue, queueVars, QueueInv, QueueTypeOK
  <2>2. Printed' = Printed /\ Waiting' = Waiting
    BY <2>1 DEF Printed, Waiting
  <2>3. QueueTypeOK' /\ QueueOrder'
    BY <2>1, <2>2 DEF QueueInv, QueueTypeOK, QueueOrder
  <2>4. MessagesAccounted'
    BY <2>1, <2>2 DEF QueueInv, MessagesAccounted
  <2> QED
    BY <2>3, <2>4 DEF QueueInv
<1>2. ASSUME NEW s \in 1 .. SENDERS, MsgSend(s) PROVE QueueInv'
    BY <1>2, SendStep
<1>3. CASE MsgReceive
    BY <1>3, ReceiveStep
<1> QED
    BY <1>1, <1>2, <1>3 DEF QueueNext

\* At first there is no queue and no message.
LEMMA QueueBegins == QueueInit => QueueInv
<1> SUFFICES ASSUME QueueInit PROVE QueueInv
    OBVIOUS
<1>1. /\ made = FALSE /\ queue = <<>> /\ dropped = {} /\ texts = <<>>
      /\ said \in [1 .. SENDERS -> 0 .. 2] /\ \A s \in 1 .. SENDERS : said[s] = 0
    BY DEF QueueInit
<1>2. /\ Len(queue) = 0 /\ queue \in Seq(Messages)
      /\ texts \in Seq({Leftovers} \cup {Text(m) : m \in Messages})
    BY <1>1, EmptySeq
<1>3. DOMAIN queue = {} /\ DOMAIN texts = {} /\ Printed = {} /\ Waiting = {}
    BY <1>1 DEF Printed, Waiting
<1>4. QueueTypeOK
  <2>1. Len(queue) <= ROOM
    BY <1>2, QueueAssumption
  <2> QED
    BY <1>1, <1>2, <2>1 DEF QueueTypeOK
<1>5. QueueOrder
    BY <1>3 DEF QueueOrder
<1>6. {m \in Messages : m[2] <= said[m[1]]} = {}
    BY <1>1, MessageParts
<1>7. MessagesAccounted
    BY <1>1, <1>3, <1>6 DEF MessagesAccounted, Waiting
<1> QED
    BY <1>4, <1>5, <1>7 DEF QueueInv

\* Every message that msgsnd has been called for is in the queue, printed or
\* dropped, whoever runs when; none is printed twice, the second of a run only
\* after the first, and no receiver prints a text that its sender has ended.
THEOREM NoMessageLost == ShellSafeSpec => []MessagesAccounted
<1>1. ShellInit => QueueInv
    BY QueueBegins DEF ShellInit
<1>2. QueueInv => MessagesAccounted
    BY DEF QueueInv
<1> QED
    BY <1>1, <1>2, QueueStep, ShellSteps, PTL DEF ShellSafeSpec
-------------------------------------------------------------------------------
(* Loading and unloading the modules.                                      *)

Things == {"region", "cdev", "class", "device", "irq", "work"}
ManyDeviceDrivers == {ex_2_multi2, ex_2_platform}
OfDevice == {"region", "cdev", "class", "device"}

\* What is still to be done, and what a clean-up gives back, as sets.
Left == {todo[k] : k \in DOMAIN todo}
Given(d) == {d.exit[k] : k \in DOMAIN d.exit}

\* How far an init function has come, and what it has acquired by then.
OneDeviceInit ==
    \/ todo = <<"region", "cdev", "class", "device">> /\ held = {}
    \/ todo = <<"cdev", "class", "device">> /\ held = {"region"}
    \/ todo = <<"class", "device">> /\ held = {"region", "cdev"}
    \/ todo = <<"device">> /\ held = {"region", "cdev", "class"}
    \/ todo = <<>> /\ held = OfDevice

ManyDevicesInit ==
    \/ todo = <<"region", "class", "cdev", "device">> /\ held = {}
    \/ todo = <<"class", "cdev", "device">> /\ held = {"region"}
    \/ todo = <<"cdev", "device">> /\ held = {"region", "class"}
    \/ todo = <<"device">> /\ held \subseteq {"region", "class", "cdev"}
    \/ todo = <<>> /\ held \subseteq OfDevice

OneThingInit(thing) == \/ todo = <<thing>> /\ held = {}
                       \/ todo = <<>> /\ held = {thing}

InitPlace == /\ driver \in OneDeviceDrivers => OneDeviceInit
             /\ driver \in ManyDeviceDrivers => ManyDevicesInit
             /\ driver = tasklet => OneThingInit("irq")
             /\ driver = workqueue => OneThingInit("work")

\* The cdevs that outlive a failed init function, or are about to.
Undeleted == {"cdev" : f \in failed \cap {"class", "device"}}

\* Each function is about to give back what is held, with that exception; only
\* the modules that defer work have some deferred, and a work only while they
\* hold it.
LifePlaces ==
    /\ state = "absent" => held = {} /\ deferred = {}
    /\ state = "init" => InitPlace
    /\ state = "live" => held \subseteq Given(driver)
    /\ state = "exit" => held \subseteq Left
    /\ state = "undo" =>
          IF driver \in OneDeviceDrivers
          THEN /\ held \subseteq Left \cup {"cdev"} /\ "cdev" \notin Left
               /\ leftover \cup (held \cap {"cdev"}) = Undeleted
          ELSE held \subseteq Left
    /\ state # "undo" /\ driver \in OneDeviceDrivers => leftover = Undeleted
    /\ driver = tasklet => leftover \subseteq {"deferred"}
    /\ driver \notin OneDeviceDrivers \cup {tasklet} => leftover = {}
    /\ "irq" \in held => driver = tasklet
    /\ "work" \in held => driver = workqueue
    /\ deferred # {} => driver = tasklet \/ (driver = workqueue /\ "work" \in held)

\* A file is open only while the module is there, with its device.
FilesHold == files > 0 /\ driver # ex_2_platform =>
                state \in {"init", "live"} /\ {"cdev", "device"} \subseteq held

\* The inductive invariant.
LifeInv == LifeTypeOK /\ LifePlaces /\ FilesHold

\* What the modules do, and that they are different ones.
LEMMA ModuleTable ==
    /\ \A d \in OneDeviceDrivers :
          /\ d.init = <<"region", "cdev", "class", "device">>
          /\ DOMAIN d.undo = OfDevice
          /\ d.undo["region"] = <<>> /\ d.undo["cdev"] = <<"region">>
          /\ d.undo["class"] = <<"region">> /\ d.undo["device"] = <<"class", "region">>
          /\ Given(d) = OfDevice
    /\ \A d \in ManyDeviceDrivers :
          /\ d.init = <<"region", "class", "cdev", "device">>
          /\ DOMAIN d.undo = {"region", "class"}
          /\ d.undo["region"] = <<>> /\ d.undo["class"] = <<"region">>
          /\ Given(d) = OfDevice
    /\ tasklet.init = <<"irq">> /\ DOMAIN tasklet.undo = {"irq"}
    /\ tasklet.undo["irq"] = <<>> /\ Given(tasklet) = {"tasklet", "irq"}
    /\ workqueue.init = <<"work">> /\ DOMAIN workqueue.undo = {"none"}
    /\ Given(workqueue) = {"work"}
    /\ Drivers = OneDeviceDrivers \cup ManyDeviceDrivers \cup {tasklet, workqueue}
    /\ tasklet # workqueue
    /\ \A d \in {tasklet, workqueue} : d \notin OneDeviceDrivers \cup ManyDeviceDrivers
    /\ ex_2_platform \in ManyDeviceDrivers
    /\ \A d \in OneDeviceDrivers : d \notin ManyDeviceDrivers
<1> USE DEF OneDevice, ManyDevices, Module, Given, OfDevice
<1>1. \A d \in OneDeviceDrivers :
          /\ d.init = <<"region", "cdev", "class", "device">>
          /\ DOMAIN d.undo = OfDevice
          /\ d.undo["region"] = <<>> /\ d.undo["cdev"] = <<"region">>
          /\ d.undo["class"] = <<"region">> /\ d.undo["device"] = <<"class", "region">>
          /\ Given(d) = OfDevice
          /\ d.name \in {"ex_1", "ex_2", "ex_3"}
    BY DEF OneDeviceDrivers, asm_11_ex_1, asm_11_ex_2, asm_11_ex_3
<1>2. \A d \in ManyDeviceDrivers :
          /\ d.init = <<"region", "class", "cdev", "device">>
          /\ DOMAIN d.undo = {"region", "class"}
          /\ d.undo["region"] = <<>> /\ d.undo["class"] = <<"region">>
          /\ Given(d) = OfDevice
          /\ d.name \in {"ex_2_multi2", "ex_2_platform"}
    BY DEF ManyDeviceDrivers, ex_2_multi2, ex_2_platform
<1>3. /\ tasklet.init = <<"irq">> /\ DOMAIN tasklet.undo = {"irq"}
      /\ tasklet.undo["irq"] = <<>> /\ Given(tasklet) = {"tasklet", "irq"}
      /\ tasklet.name = "tasklet"
    BY DEF tasklet
<1>4. /\ workqueue.init = <<"work">> /\ DOMAIN workqueue.undo = {"none"}
      /\ Given(workqueue) = {"work"}
      /\ workqueue.name = "workqueue"
    BY DEF workqueue
<1>5. /\ Drivers = OneDeviceDrivers \cup ManyDeviceDrivers \cup {tasklet, workqueue}
      /\ ex_2_platform \in ManyDeviceDrivers
    BY DEF Drivers, ManyDeviceDrivers
<1>6. /\ tasklet # workqueue
      /\ \A d \in {tasklet, workqueue} : d \notin OneDeviceDrivers \cup ManyDeviceDrivers
      /\ \A d \in OneDeviceDrivers : d \notin ManyDeviceDrivers
    BY ONLY <1>1, <1>2, <1>3, <1>4
<1> QED
    BY <1>1, <1>2, <1>3, <1>4, <1>5, <1>6

\* What is left of the init functions after each of their steps.
LEMMA StepsLeft ==
    /\ Head(<<"region", "cdev", "class", "device">>) = "region"
    /\ Tail(<<"region", "cdev", "class", "device">>) = <<"cdev", "class", "device">>
    /\ Head(<<"cdev", "class", "device">>) = "cdev"
    /\ Tail(<<"cdev", "class", "device">>) = <<"class", "device">>
    /\ Head(<<"class", "device">>) = "class" /\ Tail(<<"class", "device">>) = <<"device">>
    /\ Head(<<"region", "class", "cdev", "device">>) = "region"
    /\ Tail(<<"region", "class", "cdev", "device">>) = <<"class", "cdev", "device">>
    /\ Head(<<"class", "cdev", "device">>) = "class"
    /\ Tail(<<"class", "cdev", "device">>) = <<"cdev", "device">>
    /\ Head(<<"cdev", "device">>) = "cdev" /\ Tail(<<"cdev", "device">>) = <<"device">>
    /\ Head(<<"device">>) = "device" /\ Tail(<<"device">>) = <<>>
    /\ Head(<<"irq">>) = "irq" /\ Tail(<<"irq">>) = <<>>
    /\ Head(<<"work">>) = "work" /\ Tail(<<"work">>) = <<>>
    OBVIOUS

\* The functions of a module are sequences of steps.
LEMMA ShortSequences ==
    ASSUME NEW S, NEW a \in S, NEW b \in S, NEW c \in S, NEW d \in S
    PROVE  /\ <<>> \in Seq(S) /\ <<a>> \in Seq(S) /\ <<a, b>> \in Seq(S)
           /\ <<a, b, c, d>> \in Seq(S)
    OBVIOUS

\* The functions of every module are sequences of things.
LEMMA ModuleFunctions ==
    \A d \in Drivers :
        /\ d.init \in Seq(Things \cup {"tasklet"})
        /\ d.exit \in Seq(Things \cup {"tasklet"})
        /\ \A f \in DOMAIN d.undo : d.undo[f] \in Seq(Things \cup {"tasklet"})
<1> DEFINE S == Things \cup {"tasklet"}
<1>1. /\ "region" \in S /\ "cdev" \in S /\ "class" \in S /\ "device" \in S
      /\ "irq" \in S /\ "work" \in S /\ "tasklet" \in S
    BY DEF Things
<1> HIDE DEF S
<1>2. /\ <<>> \in Seq(S) /\ <<"region">> \in Seq(S)
      /\ <<"irq">> \in Seq(S) /\ <<"work">> \in Seq(S)
      /\ <<"class", "region">> \in Seq(S) /\ <<"tasklet", "irq">> \in Seq(S)
    BY <1>1, ShortSequences
<1>3. \A a, b, c, d \in OfDevice : <<a, b, c, d>> \in Seq(S)
    BY <1>1, ShortSequences DEF OfDevice
<1>4. ASSUME NEW d \in OneDeviceDrivers \cup ManyDeviceDrivers
      PROVE  \E a, b, c, e \in OfDevice : d.exit = <<a, b, c, e>>
    BY DEF OneDeviceDrivers, asm_11_ex_1, asm_11_ex_2, asm_11_ex_3,
           ManyDeviceDrivers, ex_2_multi2, ex_2_platform,
           OneDevice, ManyDevices, Module, OfDevice
<1>5. tasklet.exit = <<"tasklet", "irq">> /\ workqueue.exit = <<"work">>
      /\ workqueue.undo["none"] = <<>>
    BY DEF tasklet, workqueue, Module
<1>6. ASSUME NEW d \in Drivers PROVE d.exit \in Seq(S)
  <2>1. CASE d \in OneDeviceDrivers \cup ManyDeviceDrivers
    <3>1. PICK a, b, c, e \in OfDevice : d.exit = <<a, b, c, e>>
      BY <1>4, <2>1
    <3> QED
      BY <1>3, <3>1
  <2>2. CASE d \in {tasklet, workqueue}
    BY <1>2, <1>5, <2>2
  <2> QED
    BY <2>1, <2>2, ModuleTable
<1>7. ASSUME NEW d \in Drivers PROVE d.init \in Seq(S)
    BY <1>2, <1>3, ModuleTable DEF OfDevice
<1>8. ASSUME NEW d \in Drivers, NEW f \in DOMAIN d.undo PROVE d.undo[f] \in Seq(S)
  <2>1. CASE d \in OneDeviceDrivers
    BY <1>2, <2>1, ModuleTable DEF OfDevice
  <2>2. CASE d \in ManyDeviceDrivers
    BY <1>2, <2>2, ModuleTable
  <2>3. CASE d \in {tasklet, workqueue}
    BY <1>2, <1>5, <2>3, ModuleTable
  <2> QED
    BY <2>1, <2>2, <2>3, ModuleTable
<1> QED
    BY <1>6, <1>7, <1>8 DEF S

\* The first step that is left, and the others.
LEMMA FirstLeft ==
    ASSUME NEW S, NEW s \in Seq(S), s # <<>>
    PROVE  /\ Head(s) \in S /\ Tail(s) \in Seq(S)
           /\ {s[k] : k \in DOMAIN s}
                 = {Head(s)} \cup {Tail(s)[k] : k \in DOMAIN Tail(s)}
<1>1. /\ Head(s) \in S /\ Tail(s) \in Seq(S) /\ Len(Tail(s)) = Len(s) - 1
      /\ \A i \in 1 .. Len(Tail(s)) : Tail(s)[i] = s[i + 1]
      /\ Head(s) = s[1] /\ Len(s) \in Nat \ {0}
    BY HeadTailProperties, EmptySeq
<1>2. DOMAIN s = 1 .. Len(s) /\ DOMAIN Tail(s) = 1 .. Len(s) - 1
    BY <1>1, LenProperties
<1>3. \A k \in DOMAIN s : k = 1 \/ (k - 1 \in DOMAIN Tail(s) /\ s[k] = Tail(s)[k - 1])
    BY <1>1, <1>2
<1>4. \A k \in DOMAIN Tail(s) : k + 1 \in DOMAIN s /\ Tail(s)[k] = s[k + 1]
    BY <1>1, <1>2
<1>5. 1 \in DOMAIN s
    BY <1>1, <1>2
<1> QED
    BY <1>1, <1>3, <1>4, <1>5

\* It says what NothingDangles says.
LEMMA DanglesNothing == LifeInv => NothingDangles
<1> SUFFICES ASSUME LifeInv, state # "undo"
             PROVE  CASE driver \in OneDeviceDrivers ->
                             leftover = {"cdev" : f \in failed \cap {"class", "device"}}
                      [] driver = tasklet -> leftover \subseteq {"deferred"}
                      [] OTHER -> leftover = {}
    BY DEF LifeInv, FilesHold, NothingDangles
<1>1. driver \in OneDeviceDrivers => leftover = Undeleted /\ driver # tasklet
    BY ModuleTable DEF LifeInv, LifePlaces
<1>2. CASE driver \in OneDeviceDrivers
    BY <1>1, <1>2 DEF Undeleted
<1>3. CASE driver = tasklet
    BY <1>1, <1>3 DEF LifeInv, LifePlaces
<1>4. CASE driver \notin OneDeviceDrivers \cup {tasklet}
    BY <1>4 DEF LifeInv, LifePlaces
<1> QED
    BY <1>2, <1>3, <1>4

\* Every step of a load, an unload, a file or an interrupt keeps the invariant.
LEMMA LifeStep == LifeInv /\ [LifeNext]_lifeVars => LifeInv'
<1> SUFFICES ASSUME LifeInv, [LifeNext]_lifeVars PROVE LifeInv'
    OBVIOUS
<1>T. LifeTypeOK /\ LifePlaces /\ FilesHold
    BY DEF LifeInv
<1>F. /\ driver \in Drivers /\ state \in {"absent", "init", "undo", "live", "exit"}
      /\ todo \in Seq(Things \cup {"tasklet"})
      /\ held \subseteq Things /\ failed \subseteq Things
      /\ deferred \subseteq {"queued", "runs"}
      /\ leftover \subseteq Things \cup {"deferred"}
      /\ files \in 0 .. FILES /\ loads \in 0 .. LOADS
      /\ interrupts \in 0 .. INTERRUPTS
    BY <1>T DEF LifeTypeOK, Things
<1>1. CASE Insmod
  <2>1. /\ state = "absent" /\ state' = "init" /\ todo' = driver.init
        /\ loads' \in 0 .. LOADS
        /\ UNCHANGED <<driver, held, failed, deferred, files, leftover, interrupts>>
    BY <1>1, <1>F, LifeAssumption DEF Insmod, Enter
  <2>2. LifeTypeOK'
    BY <1>F, <2>1, ModuleFunctions DEF LifeTypeOK, Things
  <2>3. held = {} /\ deferred = {}
    BY <1>T, <2>1 DEF LifePlaces
  <2>4. InitPlace'
    BY <2>1, <2>3, ModuleTable
       DEF InitPlace, OneDeviceInit, ManyDevicesInit, OneThingInit
  <2>5. LifePlaces'
    BY <1>T, <2>1, <2>3, <2>4 DEF LifePlaces, Undeleted
  <2>6. FilesHold'
    BY <1>T, <2>1 DEF FilesHold
  <2> QED
    BY <2>2, <2>5, <2>6 DEF LifeInv
<1>2. CASE Acquire
  <2>1. /\ state = "init" /\ state' = "init" /\ todo # <<>> /\ todo' = Tail(todo)
        /\ held' = held \cup {Head(todo)}
        /\ deferred' = IF Head(todo) = "work" THEN {"queued"} ELSE deferred
        /\ UNCHANGED <<driver, failed, files, leftover, loads, interrupts>>
    BY <1>2 DEF Acquire, NextStep
  <2>2. InitPlace
    BY <1>T, <2>1 DEF LifePlaces
  <2>3. /\ InitPlace' /\ Head(todo) \in Things
        /\ Head(todo) = "irq" => driver = tasklet
        /\ Head(todo) = "work" => driver = workqueue
    <3>1. CASE driver \in OneDeviceDrivers
      <4>1. OneDeviceInit' /\ Head(todo) \in OfDevice
        <5>1. OneDeviceInit
          BY <2>2, <3>1 DEF InitPlace
        <5>2. \/ /\ held = {} /\ Head(todo) = "region"
                 /\ Tail(todo) = <<"cdev", "class", "device">>
              \/ /\ held = {"region"} /\ Head(todo) = "cdev"
                 /\ Tail(todo) = <<"class", "device">>
              \/ /\ held = {"region", "cdev"} /\ Head(todo) = "class"
                 /\ Tail(todo) = <<"device">>
              \/ /\ held = {"region", "cdev", "class"} /\ Head(todo) = "device"
                 /\ Tail(todo) = <<>>
          BY <2>1, <5>1, StepsLeft DEF OneDeviceInit
        <5> QED
          BY <2>1, <5>2 DEF OneDeviceInit, OfDevice
      <4> QED
        BY <2>1, <3>1, <4>1, ModuleTable DEF InitPlace, OfDevice, Things
    <3>2. CASE driver \in ManyDeviceDrivers
      <4>1. ManyDevicesInit' /\ Head(todo) \in OfDevice
        <5>1. ManyDevicesInit
          BY <2>2, <3>2 DEF InitPlace
        <5>2. \/ /\ held = {} /\ Head(todo) = "region"
                 /\ Tail(todo) = <<"class", "cdev", "device">>
              \/ /\ held = {"region"} /\ Head(todo) = "class"
                 /\ Tail(todo) = <<"cdev", "device">>
              \/ /\ held = {"region", "class"} /\ Head(todo) = "cdev"
                 /\ Tail(todo) = <<"device">>
              \/ /\ held \subseteq {"region", "class", "cdev"}
                 /\ Head(todo) = "device" /\ Tail(todo) = <<>>
          BY <2>1, <5>1, StepsLeft DEF ManyDevicesInit
        <5> QED
          BY <2>1, <5>2 DEF ManyDevicesInit, OfDevice
      <4> QED
        BY <2>1, <3>2, <4>1, ModuleTable DEF InitPlace, OfDevice, Things
    <3>3. CASE driver = tasklet
      <4>1. OneThingInit("irq")' /\ Head(todo) = "irq"
        BY <2>1, <2>2, <3>3, StepsLeft DEF InitPlace, OneThingInit
      <4> QED
        BY <2>1, <3>3, <4>1, ModuleTable DEF InitPlace, Things
    <3>4. CASE driver = workqueue
      <4>1. OneThingInit("work")' /\ Head(todo) = "work"
        BY <2>1, <2>2, <3>4, StepsLeft DEF InitPlace, OneThingInit
      <4> QED
        BY <2>1, <3>4, <4>1, ModuleTable DEF InitPlace, Things
    <3> QED
      BY <1>F, <3>1, <3>2, <3>3, <3>4, ModuleTable
  <2>4. todo' \in Seq(Things \cup {"tasklet"})
    BY <1>F, <2>1, FirstLeft
  <2>5. LifeTypeOK'
    BY <1>F, <2>1, <2>3, <2>4 DEF LifeTypeOK, Things
  <2>6. LifePlaces'
    BY <1>T, <2>1, <2>3, ModuleTable DEF LifePlaces, Undeleted
  <2>7. FilesHold'
    BY <1>T, <2>1 DEF FilesHold
  <2> QED
    BY <2>5, <2>6, <2>7 DEF LifeInv
<1>3. CASE AcquireFails
  <2> DEFINE f == Head(todo)
  <2>1. /\ state = "init" /\ state' = "undo" /\ todo # <<>>
        /\ f \in DOMAIN driver.undo /\ todo' = driver.undo[f]
        /\ failed' = failed \cup {f}
        /\ UNCHANGED <<driver, held, deferred, files, leftover, loads, interrupts>>
    BY <1>3 DEF AcquireFails, Enter
  <2>2. InitPlace
    BY <1>T, <2>1 DEF LifePlaces
  <2>3. f \in Things \cup {"tasklet"} /\ todo' \in Seq(Things \cup {"tasklet"})
    BY <1>F, <2>1, FirstLeft, ModuleFunctions
  <2>4. CASE driver \in OneDeviceDrivers
    <3>1. \/ f = "region" /\ held = {} /\ todo' = <<>>
          \/ f = "cdev" /\ held = {"region"} /\ todo' = <<"region">>
          \/ f = "class" /\ held = {"region", "cdev"} /\ todo' = <<"region">>
          \/ /\ f = "device" /\ held = {"region", "cdev", "class"}
             /\ todo' = <<"class", "region">>
      BY <2>1, <2>2, <2>4, ModuleTable DEF InitPlace, OneDeviceInit
    <3>2. /\ held \subseteq Left' \cup {"cdev"} /\ "cdev" \notin Left'
          /\ f \in {"region", "cdev", "class", "device"}
          /\ "cdev" \in held <=> f \in {"class", "device"}
          /\ "device" \notin held /\ "irq" \notin held /\ "work" \notin held
      BY <3>1 DEF Left
    <3> HIDE DEF f
    <3>3. leftover = Undeleted
      BY <1>T, <2>1, <2>4 DEF LifePlaces
    <3>4. leftover \cup (held \cap {"cdev"}) = Undeleted'
      BY <2>1, <3>2, <3>3 DEF Undeleted
    <3>5. LifePlaces'
      BY <1>T, <2>1, <2>4, <3>2, <3>4, ModuleTable DEF LifePlaces
    <3>6. LifeTypeOK'
      BY <1>F, <2>1, <2>3, <3>2 DEF LifeTypeOK, Things
    <3>7. FilesHold'
      BY <1>T, <2>1, <3>2 DEF FilesHold
    <3> QED
      BY <3>5, <3>6, <3>7 DEF LifeInv
  <2>5. CASE driver \notin OneDeviceDrivers
    <3>1. \/ f = "region" /\ held = {} /\ todo' = <<>>
          \/ f = "class" /\ held = {"region"} /\ todo' = <<"region">>
          \/ f = "irq" /\ held = {} /\ todo' = <<>> /\ driver = tasklet
      <4>1. CASE driver \in ManyDeviceDrivers
        BY <2>1, <2>2, <4>1, ModuleTable DEF InitPlace, ManyDevicesInit
      <4>2. CASE driver = tasklet
        BY <2>1, <2>2, <4>2, ModuleTable DEF InitPlace, OneThingInit
      <4>3. CASE driver = workqueue
        BY <2>1, <2>2, <4>3, ModuleTable DEF InitPlace, OneThingInit
      <4> QED
        BY <1>F, <2>5, <4>1, <4>2, <4>3, ModuleTable
    <3>2. /\ held \subseteq Left' /\ f \in Things
          /\ "device" \notin held /\ "irq" \notin held /\ "work" \notin held
      BY <3>1 DEF Left, Things
    <3> HIDE DEF f
    <3>3. LifePlaces'
      BY <1>T, <2>1, <2>5, <3>2, ModuleTable DEF LifePlaces
    <3>4. LifeTypeOK'
      BY <1>F, <2>1, <2>3, <3>2 DEF LifeTypeOK, Things
    <3>5. FilesHold'
      BY <1>T, <2>1, <3>2 DEF FilesHold
    <3> QED
      BY <3>3, <3>4, <3>5 DEF LifeInv
  <2> QED
    BY <2>4, <2>5
<1>4. CASE FailureIgnored
  <2>1. /\ state = "init" /\ state' = "init" /\ todo # <<>> /\ todo' = Tail(todo)
        /\ Head(todo) \in {"cdev", "device"} \ DOMAIN driver.undo
        /\ UNCHANGED <<driver, held, failed, deferred, files, leftover, loads, interrupts>>
    BY <1>4 DEF FailureIgnored, NextStep
  <2>2. InitPlace
    BY <1>T, <2>1 DEF LifePlaces
  <2>3. driver \in ManyDeviceDrivers
    <3>1. CASE driver \in OneDeviceDrivers
      BY <2>1, <3>1, ModuleTable DEF OfDevice
    <3>2. CASE driver \in {tasklet, workqueue}
      BY <2>1, <2>2, <3>2, ModuleTable DEF InitPlace, OneThingInit
    <3> QED
      BY <1>F, <3>1, <3>2, ModuleTable
  <2>4. InitPlace'
    <3>1. DOMAIN driver.undo = {"region", "class"}
      BY <2>3, ModuleTable
    <3>2. ManyDevicesInit'
      <4>1. ManyDevicesInit
        BY <2>2, <2>3 DEF InitPlace
      <4>2. \/ /\ held = {"region", "class"} /\ Tail(todo) = <<"device">>
            \/ /\ held \subseteq {"region", "class", "cdev"} /\ Tail(todo) = <<>>
        <5>1. Head(todo) # "region" /\ Head(todo) # "class"
          BY <2>1, <3>1
        <5> QED
          BY <2>1, <4>1, <5>1, StepsLeft DEF ManyDevicesInit
      <4> QED
        BY <2>1, <4>2 DEF ManyDevicesInit, OfDevice
    <3> QED
      BY <2>1, <2>3, <3>2, ModuleTable DEF InitPlace
  <2>5. todo' \in Seq(Things \cup {"tasklet"})
    BY <1>F, <2>1, FirstLeft
  <2>6. LifeTypeOK' /\ LifePlaces' /\ FilesHold'
    BY <1>T, <1>F, <2>1, <2>4, <2>5
       DEF LifeTypeOK, LifePlaces, FilesHold, Things, Undeleted
  <2> QED
    BY <2>6 DEF LifeInv
<1>5. CASE InitDone
  <2>1. /\ state = "init" /\ state' = "live" /\ todo = <<>> /\ todo' = <<>>
        /\ UNCHANGED <<driver, held, failed, deferred, files, leftover, loads, interrupts>>
    BY <1>5 DEF InitDone, Through, Enter
  <2>2. InitPlace
    BY <1>T, <2>1 DEF LifePlaces
  <2>3. held \subseteq Given(driver)
    <3>1. CASE driver \in OneDeviceDrivers
      BY <2>1, <2>2, <3>1, ModuleTable DEF InitPlace, OneDeviceInit
    <3>2. CASE driver \in ManyDeviceDrivers
      BY <2>1, <2>2, <3>2, ModuleTable DEF InitPlace, ManyDevicesInit
    <3>3. CASE driver = tasklet
      BY <2>1, <2>2, <3>3, ModuleTable DEF InitPlace, OneThingInit
    <3>4. CASE driver = workqueue
      BY <2>1, <2>2, <3>4, ModuleTable DEF InitPlace, OneThingInit
    <3> QED
      BY <1>F, <3>1, <3>2, <3>3, <3>4, ModuleTable
  <2>4. LifeTypeOK' /\ LifePlaces' /\ FilesHold'
    BY <1>T, <1>F, <2>1, <2>3
       DEF LifeTypeOK, LifePlaces, FilesHold, Things, Undeleted
  <2> QED
    BY <2>4 DEF LifeInv
<1>6. CASE Rmmod
  <2>1. /\ state = "live" /\ state' = "exit" /\ todo' = driver.exit
        /\ files = 0 \/ driver = ex_2_platform
        /\ UNCHANGED <<driver, held, failed, deferred, files, leftover, loads, interrupts>>
    BY <1>6 DEF Rmmod, Enter
  <2>2. held \subseteq Left'
    BY <1>T, <2>1 DEF LifePlaces, Given, Left
  <2>3. todo' \in Seq(Things \cup {"tasklet"})
    BY <1>F, <2>1, ModuleFunctions
  <2>4. LifeTypeOK' /\ LifePlaces' /\ FilesHold'
    BY <1>T, <1>F, <2>1, <2>2, <2>3
       DEF LifeTypeOK, LifePlaces, FilesHold, Things, Undeleted
  <2> QED
    BY <2>4 DEF LifeInv
<1>7. CASE GiveBack
  <2>1. /\ state \in {"undo", "exit"} /\ state' = state
        /\ todo # <<>> /\ todo' = Tail(todo)
        /\ Head(todo) \in {"tasklet", "work"} => deferred = {}
        /\ held' = held \ {Head(todo)}
        /\ UNCHANGED <<driver, failed, deferred, files, leftover, loads, interrupts>>
    BY <1>7 DEF GiveBack, NextStep
  <2>2. todo' \in Seq(Things \cup {"tasklet"}) /\ Left = {Head(todo)} \cup Left'
    <3>1. /\ Tail(todo) \in Seq(Things \cup {"tasklet"})
          /\ {todo[k] : k \in DOMAIN todo}
                = {Head(todo)} \cup {Tail(todo)[k] : k \in DOMAIN Tail(todo)}
      BY <1>F, <2>1, FirstLeft
    <3>2. Left' = {Tail(todo)[k] : k \in DOMAIN Tail(todo)}
      BY <2>1 DEF Left
    <3> QED
      BY <2>1, <3>1, <3>2 DEF Left
  <2>3. LifeTypeOK'
    BY <1>F, <2>1, <2>2 DEF LifeTypeOK, Things
  <2>4. FilesHold'
    BY <1>T, <2>1 DEF FilesHold
  <2>5. LifePlaces'
    BY <1>T, <2>1, <2>2 DEF LifePlaces, Undeleted
  <2> QED
    BY <2>3, <2>4, <2>5 DEF LifeInv
<1>8. CASE Gone
  <2>1. /\ state \in {"undo", "exit"} /\ state' = "absent"
        /\ todo = <<>> /\ todo' = <<>>
        /\ leftover' = leftover \cup held
                          \cup (IF deferred = {} THEN {} ELSE {"deferred"})
        /\ held' = {} /\ deferred' = {}
        /\ UNCHANGED <<driver, failed, files, loads, interrupts>>
    BY <1>8 DEF Gone, Through, Enter
  <2>2. Left = {}
    BY <2>1 DEF Left
  <2>3. LifeTypeOK'
    BY <1>F, <2>1 DEF LifeTypeOK, Things
  <2>4. FilesHold'
    BY <1>T, <2>1 DEF FilesHold
  <2>5. LifePlaces'
    BY <1>T, <2>1, <2>2, ModuleTable DEF LifePlaces, Undeleted
  <2> QED
    BY <2>3, <2>4, <2>5 DEF LifeInv
<1>9. CASE OpenFile \/ CloseFile
  <2>1. /\ UNCHANGED <<driver, state, todo, held, failed, deferred, leftover,
                       loads, interrupts>>
        /\ files' \in 0 .. FILES
        /\ files' > 0 => \/ files > 0
                         \/ /\ state \in {"init", "live"}
                            /\ {"cdev", "device"} \subseteq held
    BY <1>9, <1>F, LifeAssumption DEF OpenFile, CloseFile
  <2>2. LifeTypeOK' /\ FilesHold'
    BY <1>T, <1>F, <2>1 DEF LifeTypeOK, FilesHold, Things
  <2>3. LifePlaces'
    BY <1>T, <2>1 DEF LifePlaces, InitPlace, OneDeviceInit, ManyDevicesInit,
                      OneThingInit, Left, Undeleted
  <2> QED
    BY <2>2, <2>3 DEF LifeInv
<1>10. CASE Interrupt \/ RunDeferred
  <2>1. /\ UNCHANGED <<driver, state, todo, held, failed, files, leftover, loads>>
        /\ deferred' \subseteq {"queued", "runs"} /\ interrupts' \in 0 .. INTERRUPTS
        /\ deferred # {} \/ "irq" \in held
    <3>1. CASE Interrupt
      BY <3>1, <1>F, LifeAssumption DEF Interrupt
    <3>2. CASE RunDeferred
      BY <3>2, <1>F DEF RunDeferred
    <3> QED
      BY <1>10, <3>1, <3>2
  <2>2. LifeTypeOK' /\ FilesHold'
    BY <1>T, <1>F, <2>1 DEF LifeTypeOK, FilesHold, Things
  <2>3. LifePlaces'
    <3>1. state # "absent"
      BY <1>T, <2>1 DEF LifePlaces
    <3> QED
      BY <1>T, <2>1, <3>1 DEF LifePlaces, InitPlace, OneDeviceInit,
             ManyDevicesInit, OneThingInit, Left, Undeleted
  <2> QED
    BY <2>2, <2>3 DEF LifeInv
<1>11. CASE UNCHANGED lifeVars
  <2>1. UNCHANGED <<driver, state, todo, held, failed, deferred, files, leftover,
                    loads, interrupts>>
    BY <1>11 DEF lifeVars
  <2>2. LifeTypeOK' /\ FilesHold'
    BY <1>T, <2>1 DEF LifeTypeOK, FilesHold
  <2>3. LifePlaces'
    BY <1>T, <2>1 DEF LifePlaces, InitPlace, OneDeviceInit, ManyDevicesInit,
                      OneThingInit, Left, Undeleted
  <2> QED
    BY <2>2, <2>3 DEF LifeInv
<1> QED
    BY <1>1, <1>2, <1>3, <1>4, <1>5, <1>6, <1>7, <1>8, <1>9, <1>10, <1>11
       DEF LifeNext, LifeFunction

\* At first no module is loaded.
LEMMA LifeBegins == LifeInit => LifeInv
<1> SUFFICES ASSUME LifeInit PROVE LifeInv
    OBVIOUS
<1>1. LifeTypeOK
    BY LifeAssumption DEF LifeInit, LifeTypeOK
<1>2. LifePlaces /\ FilesHold
    BY DEF LifeInit, LifePlaces, FilesHold, Undeleted
<1> QED
    BY <1>1, <1>2 DEF LifeInv

\* Whatever fails in the init functions of the modules, whoever opens files and
\* whenever an interrupt comes: no open file refers to a module that is gone,
\* and nothing outlives a module but the cdev of a failed init function and a
\* tasklet that was queued between tasklet_kill and free_irq.
THEOREM NothingOutlivesModules == ShellSafeSpec => []NothingDangles
<1>1. ShellInit => LifeInv
    BY LifeBegins DEF ShellInit
<1> QED
    BY <1>1, DanglesNothing, LifeStep, ShellSteps, PTL DEF ShellSafeSpec
-------------------------------------------------------------------------------
(* The lock-order demo.                                                    *)

\* Which mutexes a thread holds follows from where it stands.
Holds(t, m) == \/ m = First(t) /\ thread[t] \in {"second", "print", "unlock"}
               \/ m = Second(t) /\ thread[t] = "print"

HoldersRight == \A t \in LockThreads, m \in {1, 2} : holder[m] = t <=> Holds(t, m)

\* The inductive invariant.
LockInv == /\ LockTypeOK
           /\ DOMAIN round = LockThreads
           /\ HoldersRight
           /\ \A t \in LockThreads : thread[t] # "done" => round[t] < Rounds[t]
           /\ joined => \A t \in LockThreads : thread[t] = "done"

\* The main thread can join or a thread can take its next step.
SomeoneGoesOn ==
    \/ \A t \in LockThreads : thread[t] = "done"
    \/ \E t \in LockThreads : \/ thread[t] = "first" /\ holder[First(t)] = 0
                              \/ thread[t] = "second" /\ holder[Second(t)] = 0
                              \/ thread[t] \in {"print", "unlock"}

\* Every step keeps the mutexes with those who hold them.
LEMMA LockStep == LockInv /\ [LockNext]_lockVars => LockInv'
<1> SUFFICES ASSUME LockInv, [LockNext]_lockVars PROVE LockInv'
    OBVIOUS
<1> USE LockOrderAssumption
    DEF LockInv, LockTypeOK, LockThreads, First, Second, HoldersRight, Holds,
        Steps, Takes, Gives
<1>R. Rounds[1] \in Nat \ {0} /\ Rounds[2] \in Nat \ {0}
    BY DEF Rounds
<1>1. ASSUME NEW t \in LockThreads, LockFirst(t) PROVE LockInv'
    BY <1>1 DEF LockFirst
<1>2. ASSUME NEW t \in LockThreads, LockSecond(t) PROVE LockInv'
    BY <1>2 DEF LockSecond
<1>3. ASSUME NEW t \in LockThreads, UnlockSecond(t) PROVE LockInv'
    BY <1>3 DEF UnlockSecond
<1>4. ASSUME NEW t \in LockThreads, UnlockFirst(t) PROVE LockInv'
    BY <1>4, <1>R DEF UnlockFirst
<1>5. CASE JoinBoth
    BY <1>5 DEF JoinBoth
<1>6. CASE UNCHANGED lockVars
    BY <1>6 DEF lockVars
<1> QED
    BY <1>1, <1>2, <1>3, <1>4, <1>5, <1>6 DEF LockNext, Increment

\* At first nobody holds anything.
LEMMA LockBegins == LockInit => LockInv
<1> SUFFICES ASSUME LockInit PROVE LockInv
    OBVIOUS
<1>1. Rounds[1] \in Nat \ {0} /\ Rounds[2] \in Nat \ {0}
    BY LockOrderAssumption DEF Rounds
<1>2. /\ holder \in [{1, 2} -> {0}] /\ thread \in [{1, 2} -> {"first"}]
      /\ round \in [{1, 2} -> {0}] /\ joined = FALSE
    BY DEF LockInit
<1>3. LockTypeOK
  <2>1. \A t \in LockThreads : round[t] \in 0 .. Rounds[t]
    BY <1>1, <1>2 DEF LockThreads
  <2> QED
    BY <1>2, <2>1 DEF LockTypeOK, LockThreads
<1>4. HoldersRight
    BY <1>2 DEF HoldersRight, Holds, LockThreads
<1> QED
    BY <1>1, <1>2, <1>3, <1>4 DEF LockInv, LockThreads

\* The safety half of EndsOrLocksUp, for any number of rounds: the two threads
\* never get stuck in another way than crosswise, not even that once thread 2
\* has made its round, and when main destroys the mutexes both are free.
THEOREM OnlyCrosswise ==
    ShellSafeSpec => [](/\ SomeoneGoesOn \/ Crosswise
                        /\ thread[2] = "done" => ~Crosswise
                        /\ joined => holder = <<0, 0>>)
<1> DEFINE Safe == /\ SomeoneGoesOn \/ Crosswise
                   /\ thread[2] = "done" => ~Crosswise
                   /\ joined => holder = <<0, 0>>
<1>1. ShellInit => LockInv
    BY LockBegins DEF ShellInit
<1>2. LockInv => Safe
  <2> SUFFICES ASSUME LockInv PROVE Safe
      OBVIOUS
  <2> USE DEF LockInv, LockTypeOK, LockThreads, First, Second, HoldersRight, Holds
  <2>1. SomeoneGoesOn \/ Crosswise
      BY DEF SomeoneGoesOn, Crosswise
  <2>2. thread[2] = "done" => ~Crosswise
      BY DEF Crosswise
  <2>3. joined => holder[1] = 0 /\ holder[2] = 0
      OBVIOUS
  <2>4. joined => holder = <<0, 0>>
      BY <2>3
  <2> QED
      BY <2>1, <2>2, <2>4
<1> QED
    BY <1>1, <1>2, LockStep, ShellSteps, PTL DEF ShellSafeSpec
-------------------------------------------------------------------------------
(* The process trees.                                                      *)

KidCount(n) == IF Len(n) = 2 THEN 0 ELSE shape[Len(n) + 1]

\* Where the process stands says which of its children are there: while it
\* forks the later ones are unborn, while it waits the earlier ones have been
\* collected, if they were forked at all.
Family(n) ==
    /\ stage[n] = "unborn" => index[n] = 1
    /\ stage[n] \in {"unborn", "fork"} =>
          \A j \in 1 .. KidCount(n) : j >= index[n] => stage[Append(n, j)] = "unborn"
    /\ stage[n] = "wait" =>
          \A j \in 1 .. KidCount(n) :
              j < index[n] => stage[Append(n, j)] \in {"unborn", "reaped"}
    /\ stage[n] \in {"zombie", "reaped"} =>
          \A j \in 1 .. KidCount(n) : stage[Append(n, j)] \in {"unborn", "reaped"}

\* The inductive invariant.
TreeInv == /\ TreeTypeOK
           /\ index \in [Nodes -> Nat]
           /\ \A n \in Nodes : Family(n)
           /\ \A n \in Nodes \ {Main} : stage[n] = "unborn" <=> n \notin stored

\* The numbers of children are numbers.
LEMMA ShapeParts ==
    ASSUME TreeTypeOK
    PROVE  shape[1] \in Nat /\ shape[2] \in Nat
    BY TreeAssumption DEF TreeTypeOK, asm_6_ex_1, asm_6_ex_2, asm_6_ex_4

\* A node is main, a parent or a child; its children are nodes, and no one
\* else's.
LEMMA NodeKids ==
    ASSUME TreeTypeOK
    PROVE  /\ \A n \in Nodes : /\ n \in Seq(Nat) /\ Len(n) \in {0, 1, 2}
                               /\ KidCount(n) \in Nat
                               /\ Kids(n) = {Append(n, j) : j \in 1 .. KidCount(n)}
                               /\ \A j \in 1 .. KidCount(n) : Append(n, j) \in Nodes \ {Main}
           /\ \A n, m \in Nodes, j, k \in Nat :
                  Append(n, j) = Append(m, k) => n = m /\ j = k
           /\ \A n \in Nodes, j \in Nat : Append(n, j) # n
           /\ Main \in Nodes
<1>1. shape[1] \in Nat /\ shape[2] \in Nat
    BY ShapeParts
<1>2. ASSUME NEW n \in Nodes
      PROVE  \/ n = <<>>
             \/ \E p \in 1 .. shape[1] : n = <<p>>
             \/ \E p \in 1 .. shape[1], c \in 1 .. shape[2] : n = <<p, c>>
    BY DEF Nodes, Main
<1>3. /\ <<>> \in Seq(Nat) /\ Len(<<>>) = 0
      /\ \A p \in Nat : <<p>> \in Seq(Nat) /\ Len(<<p>>) = 1
      /\ \A p, c \in Nat : <<p, c>> \in Seq(Nat) /\ Len(<<p, c>>) = 2
      /\ \A j \in Nat : Append(<<>>, j) = <<j>>
      /\ \A p, j \in Nat : Append(<<p>>, j) = <<p, j>>
  <2>1. \A p \in Nat : <<p>> \in Seq(Nat) /\ Len(<<p>>) = 1
    OBVIOUS
  <2>2. \A p, c \in Nat : <<p, c>> \in Seq(Nat) /\ Len(<<p, c>>) = 2
    OBVIOUS
  <2>3. \A j \in Nat : Append(<<>>, j) = <<j>>
    OBVIOUS
  <2>4. \A p, j \in Nat : Append(<<p>>, j) = <<p, j>>
    <3>1. ASSUME NEW p \in Nat, NEW j \in Nat PROVE Append(<<p>>, j) = <<p, j>>
      <4>1. /\ <<p>> \in Seq(Nat) /\ Len(<<p>>) = 1 /\ <<p>>[1] = p
            /\ <<p, j>> \in Seq(Nat) /\ Len(<<p, j>>) = 2
            /\ <<p, j>>[1] = p /\ <<p, j>>[2] = j
        OBVIOUS
      <4>2. /\ Append(<<p>>, j) \in Seq(Nat) /\ Len(Append(<<p>>, j)) = 2
            /\ Append(<<p>>, j)[1] = p /\ Append(<<p>>, j)[2] = j
        BY <4>1, AppendProperties
      <4>3. \A i \in 1 .. 2 : i = 1 \/ i = 2
        OBVIOUS
      <4> QED
        BY <4>1, <4>2, <4>3, SeqEqual
    <3> QED
      BY <3>1
  <2> QED
    BY <2>1, <2>2, <2>3, <2>4
<1>4. /\ \A p \in 1 .. shape[1] : p \in Nat
      /\ \A c \in 1 .. shape[2] : c \in Nat
    BY <1>1
<1>5. ASSUME NEW n \in Nodes PROVE n \in Seq(Nat) /\ Len(n) \in {0, 1, 2}
  <2>1. CASE n = <<>>
    BY <2>1, <1>3
  <2>2. ASSUME NEW p \in 1 .. shape[1], n = <<p>>
        PROVE  n \in Seq(Nat) /\ Len(n) \in {0, 1, 2}
    BY <2>2, <1>3, <1>4
  <2>3. ASSUME NEW p \in 1 .. shape[1], NEW c \in 1 .. shape[2], n = <<p, c>>
        PROVE  n \in Seq(Nat) /\ Len(n) \in {0, 1, 2}
    BY <2>3, <1>3, <1>4
  <2> QED
    BY <1>2, <2>1, <2>2, <2>3
<1>6. ASSUME NEW n \in Nodes
      PROVE  KidCount(n) \in Nat
  <2>1. CASE Len(n) = 0
    BY <1>1, <2>1 DEF KidCount
  <2>2. CASE Len(n) = 1
    BY <1>1, <2>2 DEF KidCount
  <2>3. CASE Len(n) = 2
    BY <2>3 DEF KidCount
  <2> QED
    BY <1>5, <2>1, <2>2, <2>3
<1>7. ASSUME NEW n \in Nodes
      PROVE  Kids(n) = {Append(n, j) : j \in 1 .. KidCount(n)}
  <2>1. CASE Len(n) = 2
    BY <2>1 DEF Kids, KidCount
  <2>2. CASE Len(n) # 2
    BY <2>2 DEF Kids, KidCount
  <2> QED
    BY <2>1, <2>2
<1>8. ASSUME NEW n \in Nodes, NEW j \in 1 .. KidCount(n)
      PROVE  Append(n, j) \in Nodes \ {Main}
  <2>1. CASE n = <<>>
    <3>1. j \in 1 .. shape[1]
      BY <2>1, <1>3 DEF KidCount
    <3> QED
      BY <2>1, <3>1, <1>3 DEF Nodes, Main
  <2>2. ASSUME NEW p \in 1 .. shape[1], n = <<p>> PROVE Append(n, j) \in Nodes \ {Main}
    <3>1. j \in 1 .. shape[2]
      BY <2>2, <1>3, <1>4 DEF KidCount
    <3> QED
      BY <2>2, <3>1, <1>3 DEF Nodes, Main
  <2>3. ASSUME NEW p \in 1 .. shape[1], NEW c \in 1 .. shape[2], n = <<p, c>>
        PROVE  FALSE
    BY <2>3, <1>3, <1>4 DEF KidCount
  <2> QED
    BY <1>2, <2>1, <2>2, <2>3
<1>9. \A n, m \in Nodes, j, k \in Nat :
          Append(n, j) = Append(m, k) => n = m /\ j = k
    BY <1>5, AppendInjective
<1>10. \A n \in Nodes, j \in Nat : Append(n, j) # n
  <2>1. ASSUME NEW n \in Nodes, NEW j \in Nat PROVE Len(Append(n, j)) = Len(n) + 1
    BY <1>5, AppendProperties
  <2> QED
    BY <1>5, <2>1
<1> QED
    BY <1>5, <1>6, <1>7, <1>8, <1>9, <1>10 DEF Nodes

\* When a process that is there, and not collected, goes on or is collected,
\* the other processes have their children where they say, its parent included.
LEMMA OtherFamilies ==
    ASSUME TreeInv, UNCHANGED shape,
           NEW x \in Nodes, stage[x] \in {"fork", "wait", "zombie"},
           NEW to, stage' = [stage EXCEPT ![x] = to],
           NEW m \in Nodes, m # x, index'[m] = index[m]
    PROVE  Family(m)'
<1>1. stage \in [Nodes -> {"unborn", "fork", "wait", "zombie", "reaped"}]
      /\ Family(m)
    BY DEF TreeInv, TreeTypeOK
<1>2. \A j \in 1 .. KidCount(m) : Append(m, j) \in Nodes
    BY NodeKids DEF TreeInv
<1>3. KidCount(m)' = KidCount(m) /\ stage'[m] = stage[m]
    BY <1>1 DEF KidCount
<1>4. \A j \in 1 .. KidCount(m) : \/ stage'[Append(m, j)] = stage[Append(m, j)]
                                  \/ stage[Append(m, j)] \notin {"unborn", "reaped"}
    BY <1>1, <1>2
<1> QED
    BY <1>1, <1>3, <1>4 DEF Family

\* Every step keeps the processes and what their parents know of them.
LEMMA TreeKeeps == TreeInv /\ [TreeNext]_treeVars => TreeInv'
<1> SUFFICES ASSUME TreeInv, [TreeNext]_treeVars PROVE TreeInv'
    OBVIOUS
<1>T. /\ TreeTypeOK /\ index \in [Nodes -> Nat]
      /\ \A n \in Nodes : Family(n)
      /\ \A n \in Nodes \ {Main} : stage[n] = "unborn" <=> n \notin stored
      /\ stage \in [Nodes -> {"unborn", "fork", "wait", "zombie", "reaped"}]
      /\ stored \subseteq Nodes \ {Main}
      /\ shape \in {asm_6_ex_1, asm_6_ex_2, asm_6_ex_4}
    BY DEF TreeInv, TreeTypeOK
<1>K. \A n \in Nodes : /\ KidCount(n) \in Nat
                       /\ Kids(n) = {Append(n, j) : j \in 1 .. KidCount(n)}
                       /\ \A j \in 1 .. KidCount(n) : Append(n, j) \in Nodes \ {Main}
                       /\ index[n] \in 1 .. 1 + KidCount(n)
  <2>1. \A n \in Nodes : index[n] \in 1 .. 1 + KidCount(n)
    BY <1>T DEF TreeTypeOK, KidCount
  <2> QED
    BY <1>T, <2>1, NodeKids
<1>A. /\ \A n, m \in Nodes, j, k \in Nat : Append(n, j) = Append(m, k) => n = m /\ j = k
      /\ \A n \in Nodes, j \in Nat : Append(n, j) # n
    BY <1>T, NodeKids
<1>L. \A n \in Nodes : Kid(n) \in Kids(n) <=> index[n] \in 1 .. KidCount(n)
  <2>1. ASSUME NEW n \in Nodes, Kid(n) \in Kids(n)
        PROVE  index[n] \in 1 .. KidCount(n)
    <3>1. PICK j \in 1 .. KidCount(n) : Append(n, j) = Append(n, index[n])
      BY <1>K, <2>1 DEF Kid
    <3>2. j = index[n]
      BY <1>A, <1>T, <3>1
    <3> QED
      BY <3>2
  <2>2. ASSUME NEW n \in Nodes, index[n] \in 1 .. KidCount(n)
        PROVE  Kid(n) \in Kids(n)
    BY <1>K, <2>2 DEF Kid
  <2> QED
    BY <2>1, <2>2
<1>S. ASSUME UNCHANGED shape
      PROVE  Nodes' = Nodes /\ \A n : KidCount(n)' = KidCount(n)
    BY <1>S DEF Nodes, Main, KidCount
<1>C. ASSUME UNCHANGED shape,
             stage' \in [Nodes -> {"unborn", "fork", "wait", "zombie", "reaped"}],
             index' \in [Nodes -> Nat],
             \A n \in Nodes : index'[n] \in 1 .. 1 + KidCount(n),
             stored' \subseteq Nodes \ {Main},
             \A n \in Nodes : Family(n)',
             \A n \in Nodes \ {Main} : stage'[n] = "unborn" <=> n \notin stored'
      PROVE  TreeInv'
  <2>1. TreeTypeOK'
    BY <1>T, <1>C, <1>S DEF TreeTypeOK, KidCount, Main
  <2> QED
    BY <1>C, <1>S, <2>1 DEF TreeInv, Main
<1>1. ASSUME NEW n \in Nodes, ForkKid(n) PROVE TreeInv'
  <2>0. stage[n] = "fork" /\ index[n] \in 1 .. KidCount(n)
    BY <1>1, <1>L DEF ForkKid, Looping
  <2>p. PICK k \in Nodes \ {Main} : k = Kid(n)
    BY <1>K, <2>0 DEF Kid
  <2>1. /\ stage[n] = "fork" /\ index[n] \in 1 .. KidCount(n)
        /\ index' = [index EXCEPT ![n] = @ + 1]
        /\ stage' = [stage EXCEPT ![k] = "fork"]
        /\ stored' = stored \cup {k} /\ UNCHANGED shape
    BY <1>1, <2>0, <2>p DEF ForkKid, NextRound
  <2>2. k \in Nodes \ {Main} /\ k # n /\ k = Append(n, index[n])
    BY <1>A, <1>T, <2>p DEF Kid
  <2>3. stage[k] = "unborn" /\ index[k] = 1
    <3>1. stage[k] = "unborn"
      BY <1>T, <1>K, <2>1, <2>2 DEF Family
    <3> QED
      BY <1>T, <2>2, <3>1 DEF Family
  <2>4. \A m \in Nodes : m # n => index'[m] = index[m]
    BY <1>T, <2>1
  <2>5. Family(n)'
    <3>1. index'[n] = index[n] + 1 /\ stage'[n] = "fork" /\ KidCount(n)' = KidCount(n)
      BY <1>T, <1>S, <2>1, <2>2
    <3>2. \A j \in 1 .. KidCount(n) :
             j >= index[n] + 1 => stage'[Append(n, j)] = "unborn"
      <4>1. ASSUME NEW j \in 1 .. KidCount(n), j >= index[n] + 1
            PROVE  stage'[Append(n, j)] = "unborn"
        <5>1. j # index[n] /\ j >= index[n] /\ j \in Nat /\ index[n] \in Nat
          BY <1>T, <1>K, <4>1
        <5>2. Append(n, j) # k /\ Append(n, j) \in Nodes
          BY <1>A, <1>K, <2>2, <5>1
        <5>3. stage[Append(n, j)] = "unborn"
          BY <1>T, <2>1, <5>1 DEF Family
        <5> QED
          BY <1>T, <2>1, <5>2, <5>3
      <4> QED
        BY <4>1
    <3> QED
      BY <3>1, <3>2 DEF Family
  <2>6. Family(k)'
    <3>1. index'[k] = 1 /\ stage'[k] = "fork" /\ KidCount(k)' = KidCount(k)
      BY <1>T, <1>S, <2>1, <2>2, <2>3, <2>4
    <3>2. \A j \in 1 .. KidCount(k) : stage'[Append(k, j)] = "unborn"
      <4>1. ASSUME NEW j \in 1 .. KidCount(k) PROVE stage'[Append(k, j)] = "unborn"
        <5>1. Append(k, j) \in Nodes /\ Append(k, j) # k /\ j >= 1
          BY <1>A, <1>K, <2>2
        <5>2. stage[Append(k, j)] = "unborn"
          BY <1>T, <2>2, <2>3, <5>1 DEF Family
        <5> QED
          BY <1>T, <2>1, <5>1, <5>2
      <4> QED
        BY <4>1
    <3> QED
      BY <3>1, <3>2 DEF Family
  <2>7. ASSUME NEW m \in Nodes, m # n, m # k PROVE Family(m)'
    <3>1. /\ index'[m] = index[m] /\ stage'[m] = stage[m]
          /\ KidCount(m)' = KidCount(m)
      BY <1>T, <1>S, <2>1, <2>4, <2>7
    <3>2. \A j \in 1 .. KidCount(m) : stage'[Append(m, j)] = stage[Append(m, j)]
      <4>1. ASSUME NEW j \in 1 .. KidCount(m)
            PROVE  Append(m, j) \in Nodes /\ Append(m, j) # k
        <5>1. j \in Nat /\ index[n] \in Nat
          BY <1>T, <1>K
        <5>2. Append(m, j) # Append(n, index[n])
          BY <1>A, <2>7, <5>1
        <5> QED
          BY <1>K, <2>2, <5>2
      <4> QED
        BY <1>T, <2>1, <4>1
    <3> QED
      BY <1>T, <3>1, <3>2 DEF Family
  <2>8. /\ stage' \in [Nodes -> {"unborn", "fork", "wait", "zombie", "reaped"}]
        /\ index' \in [Nodes -> Nat]
        /\ stored' \subseteq Nodes \ {Main}
    <3>1. stage' \in [Nodes -> {"unborn", "fork", "wait", "zombie", "reaped"}]
      BY <1>T, <2>1
    <3>2. index' \in [Nodes -> Nat]
      BY <1>T, <2>1
    <3>3. stored' \subseteq Nodes \ {Main}
      BY <1>T, <2>1, <2>2
    <3> QED
      BY <3>1, <3>2, <3>3
  <2>9. \A m \in Nodes : index'[m] \in 1 .. 1 + KidCount(m)
    BY <1>T, <1>K, <2>1, <2>4
  <2>10. \A m \in Nodes \ {Main} : stage'[m] = "unborn" <=> m \notin stored'
    BY <1>T, <2>1, <2>2
  <2> QED
    BY <1>C, <2>1, <2>5, <2>6, <2>7, <2>8, <2>9, <2>10
<1>2. ASSUME NEW n \in Nodes, ForkKidFails(n) PROVE TreeInv'
  <2>1. /\ stage[n] = "fork" /\ index[n] \in 1 .. KidCount(n)
        /\ index' = [index EXCEPT ![n] = @ + 1]
        /\ UNCHANGED <<shape, stage, stored>>
    BY <1>2, <1>L DEF ForkKidFails, Looping, NextRound
  <2>2. /\ index' \in [Nodes -> Nat] /\ index'[n] = index[n] + 1
        /\ \A m \in Nodes : m # n => index'[m] = index[m]
    BY <1>T, <2>1
  <2>3. \A m \in Nodes : index'[m] \in 1 .. 1 + KidCount(m)
    BY <1>T, <1>K, <2>1, <2>2
  <2>4. ASSUME NEW m \in Nodes, m # n PROVE Family(m)'
    BY <1>T, <1>S, <2>1, <2>2, <2>4 DEF Family
  <2>5. Family(n)'
    BY <1>T, <1>S, <1>K, <2>1, <2>2 DEF Family
  <2> QED
    BY <1>T, <1>C, <2>1, <2>2, <2>3, <2>4, <2>5
<1>3. ASSUME NEW n \in Nodes, ForksDone(n) PROVE TreeInv'
  <2>1. /\ stage[n] = "fork" /\ stage' = [stage EXCEPT ![n] = "wait"]
        /\ index' = [index EXCEPT ![n] = 1] /\ UNCHANGED <<shape, stored>>
    BY <1>3 DEF ForksDone
  <2>2. /\ stage' \in [Nodes -> {"unborn", "fork", "wait", "zombie", "reaped"}]
        /\ index' \in [Nodes -> Nat]
        /\ stage'[n] = "wait" /\ index'[n] = 1
        /\ \A m \in Nodes : m # n => index'[m] = index[m] /\ stage'[m] = stage[m]
    BY <1>T, <2>1
  <2>3. \A m \in Nodes : index'[m] \in 1 .. 1 + KidCount(m)
    <3>1. ASSUME NEW m \in Nodes PROVE index'[m] \in 1 .. 1 + KidCount(m)
      <4>1. KidCount(m) \in Nat /\ (index'[m] = 1 \/ index'[m] = index[m])
        BY <1>K, <2>2
      <4> QED
        BY <1>K, <4>1
    <3> QED
      BY <3>1
  <2>4. ASSUME NEW m \in Nodes, m # n PROVE Family(m)'
    BY <2>1, <2>2, <2>4, OtherFamilies
  <2>5. Family(n)'
    BY <1>K, <1>S, <2>1, <2>2 DEF Family
  <2>6. \A m \in Nodes \ {Main} : stage'[m] = "unborn" <=> m \notin stored'
    BY <1>T, <2>1, <2>2
  <2> QED
    BY <1>T, <1>C, <2>1, <2>2, <2>3, <2>4, <2>5, <2>6
<1>4. ASSUME NEW n \in Nodes, EndTree(n) PROVE TreeInv'
  <2>1. /\ stage[n] = "wait" /\ stage' = [stage EXCEPT ![n] = "zombie"]
        /\ index[n] \notin 1 .. KidCount(n) /\ UNCHANGED <<shape, index, stored>>
    BY <1>4, <1>L DEF EndTree
  <2>2. /\ stage' \in [Nodes -> {"unborn", "fork", "wait", "zombie", "reaped"}]
        /\ stage'[n] = "zombie"
        /\ \A m \in Nodes : m # n => stage'[m] = stage[m]
    BY <1>T, <2>1
  <2>3. ASSUME NEW m \in Nodes, m # n PROVE Family(m)'
    BY <2>1, <2>3, OtherFamilies
  <2>4. Family(n)'
    <3>1. ASSUME NEW j \in 1 .. KidCount(n)
          PROVE  stage'[Append(n, j)] \in {"unborn", "reaped"}
      <4>1. j < index[n] /\ j \in Nat
        BY <1>K, <2>1
      <4>2. Append(n, j) \in Nodes /\ Append(n, j) # n
        BY <1>K, <1>A, <4>1
      <4>3. stage[Append(n, j)] \in {"unborn", "reaped"}
        BY <1>T, <2>1, <4>1 DEF Family
      <4> QED
        BY <2>2, <4>2, <4>3
    <3> QED
      BY <1>S, <2>1, <2>2, <3>1 DEF Family
  <2>5. \A m \in Nodes \ {Main} : stage'[m] = "unborn" <=> m \notin stored'
    BY <1>T, <2>1, <2>2
  <2> QED
    BY <1>T, <1>K, <1>C, <2>1, <2>2, <2>3, <2>4, <2>5
<1>5. ASSUME NEW n \in Nodes, WaitStored(n) \/ WaitUnset(n) PROVE TreeInv'
  <2>1. /\ stage[n] = "wait" /\ index[n] \in 1 .. KidCount(n)
        /\ index' = [index EXCEPT ![n] = @ + 1] /\ UNCHANGED <<shape, stored>>
        /\ \/ \E k \in Kids(n) : Collect(k)
           \/ UNCHANGED stage
        /\ Kid(n) \in stored => \/ Collect(Kid(n))
                                \/ stage[Kid(n)] = "reaped" /\ UNCHANGED stage
    BY <1>5, <1>L DEF WaitStored, WaitUnset, Looping, NextRound
  <2>2. /\ index' \in [Nodes -> Nat] /\ index'[n] = index[n] + 1
        /\ \A m \in Nodes : m # n => index'[m] = index[m]
    BY <1>T, <2>1
  <2>3. \A m \in Nodes : index'[m] \in 1 .. 1 + KidCount(m)
    BY <1>T, <1>K, <2>1, <2>2
  <2>4. /\ Kid(n) \in Nodes \ {Main} /\ Kid(n) = Append(n, index[n])
        /\ Kid(n) \in stored => stage'[Kid(n)] = "reaped"
        /\ Kid(n) \notin stored => stage[Kid(n)] = "unborn"
    BY <1>T, <1>K, <2>1 DEF Kid, Collect
  <2>5. ASSUME NEW x \in Kids(n), Collect(x) PROVE TreeInv'
    <3>1. /\ stage[x] = "zombie" /\ stage' = [stage EXCEPT ![x] = "reaped"]
          /\ x \in Nodes \ {Main} /\ x # n
      <4>1. PICK j \in 1 .. KidCount(n) : x = Append(n, j)
        BY <1>K, <2>5
      <4> QED
        BY <1>K, <1>A, <2>5, <4>1 DEF Collect
    <3>2. /\ stage' \in [Nodes -> {"unborn", "fork", "wait", "zombie", "reaped"}]
          /\ stage'[x] = "reaped"
          /\ \A m \in Nodes : m # x => stage'[m] = stage[m]
      BY <1>T, <3>1
    <3>3. ASSUME NEW m \in Nodes, m # x, m # n PROVE Family(m)'
      BY <2>1, <2>2, <3>1, <3>3, OtherFamilies
    <3>4. Family(x)'
      <4>1. ASSUME NEW j \in 1 .. KidCount(x)
            PROVE  stage'[Append(x, j)] \in {"unborn", "reaped"}
        <5>1. Append(x, j) \in Nodes /\ Append(x, j) # x
          BY <1>K, <1>A, <3>1
        <5>2. stage[Append(x, j)] \in {"unborn", "reaped"}
          BY <1>T, <3>1 DEF Family
        <5> QED
          BY <3>2, <5>1, <5>2
      <4> QED
        BY <1>S, <2>1, <3>2, <4>1 DEF Family
    <3>5. Family(n)'
      <4>1. ASSUME NEW j \in 1 .. KidCount(n), j < index[n] + 1
            PROVE  stage'[Append(n, j)] \in {"unborn", "reaped"}
        <5>1. CASE j = index[n]
          BY <2>4, <3>1, <3>2, <5>1
        <5>2. CASE j # index[n]
          <6>1. j < index[n]
            BY <1>K, <4>1, <5>2
          <6>2. stage[Append(n, j)] \in {"unborn", "reaped"}
            BY <1>T, <2>1, <6>1 DEF Family
          <6>3. Append(n, j) \in Nodes
            BY <1>K
          <6> QED
            BY <3>2, <6>2, <6>3
        <5> QED
          BY <5>1, <5>2
      <4> QED
        BY <1>S, <2>1, <2>2, <3>1, <3>2, <4>1 DEF Family
    <3>6. \A m \in Nodes \ {Main} : stage'[m] = "unborn" <=> m \notin stored'
      BY <1>T, <2>1, <3>1, <3>2
    <3> QED
      BY <1>T, <1>C, <2>1, <2>2, <2>3, <3>2, <3>3, <3>4, <3>5, <3>6
  <2>6. CASE UNCHANGED stage
    <3>1. ASSUME NEW m \in Nodes, m # n PROVE Family(m)'
      BY <1>T, <1>S, <2>1, <2>2, <2>6, <3>1 DEF Family
    <3>2. Family(n)'
      <4>1. ASSUME NEW j \in 1 .. KidCount(n), j < index[n] + 1
            PROVE  stage'[Append(n, j)] \in {"unborn", "reaped"}
        <5>1. CASE j = index[n]
          BY <2>4, <2>6, <5>1
        <5>2. CASE j # index[n]
          <6>1. j < index[n]
            BY <1>K, <4>1, <5>2
          <6> QED
            BY <1>T, <2>1, <2>6, <6>1 DEF Family
        <5> QED
          BY <5>1, <5>2
      <4> QED
        BY <1>S, <2>1, <2>2, <2>6, <4>1 DEF Family
    <3> QED
      BY <1>T, <1>C, <2>1, <2>2, <2>3, <2>6, <3>1, <3>2
  <2> QED
    BY <2>1, <2>5, <2>6
<1>6. CASE UNCHANGED treeVars
  <2>1. UNCHANGED <<shape, stage, index, stored>>
    BY <1>6 DEF treeVars
  <2>2. \A m \in Nodes : Family(m)'
    BY <1>T, <1>S, <2>1 DEF Family
  <2> QED
    BY <1>T, <1>K, <1>C, <2>1, <2>2
<1> QED
    BY <1>1, <1>2, <1>3, <1>4, <1>5, <1>6 DEF TreeNext, TreeStep

\* At first there is only main.
LEMMA TreeBegins == TreeInit => TreeInv
<1> SUFFICES ASSUME TreeInit PROVE TreeInv
    OBVIOUS
<1>1. /\ shape \in {asm_6_ex_1, asm_6_ex_2, asm_6_ex_4} /\ stored = {}
      /\ stage \in [Nodes -> {"unborn", "fork", "wait", "zombie", "reaped"}]
      /\ \A n \in Nodes : stage[n] = IF n = Main THEN "fork" ELSE "unborn"
      /\ index \in [Nodes -> Nat] /\ \A n \in Nodes : index[n] = 1
    BY DEF TreeInit
<1>2. shape[1] \in Nat /\ shape[2] \in Nat
    BY <1>1, TreeAssumption DEF asm_6_ex_1, asm_6_ex_2, asm_6_ex_4
<1>3. ASSUME NEW n \in Nodes
      PROVE  index[n] \in 1 .. 1 + (IF Len(n) = 2 THEN 0 ELSE shape[Len(n) + 1])
  <2>1. Len(n) \in {0, 1, 2}
    BY <1>2 DEF Nodes, Main
  <2>2. (IF Len(n) = 2 THEN 0 ELSE shape[Len(n) + 1]) \in {0, shape[1], shape[2]}
    <3>1. CASE Len(n) = 0
      BY <3>1
    <3>2. CASE Len(n) = 1
      BY <3>2
    <3>3. CASE Len(n) = 2
      BY <3>3
    <3> QED
      BY <2>1, <3>1, <3>2, <3>3
  <2> QED
    BY <1>1, <1>2, <2>2
<1>4. TreeTypeOK
    BY <1>1, <1>3 DEF TreeTypeOK
<1>5. ASSUME NEW n \in Nodes PROVE Family(n)
  <2>1. \A j \in 1 .. KidCount(n) : Append(n, j) \in Nodes \ {Main}
    BY <1>4, NodeKids
  <2> QED
    BY <1>1, <2>1 DEF Family
<1> QED
    BY <1>1, <1>4, <1>5 DEF TreeInv

\* What main and the parent processes print at their end is true, whatever the
\* entries of their tables hold that no fork has set: who has ended leaves no
\* process of its own behind, neither alive nor as a zombie.
THEOREM NobodyLeftBehind ==
    ShellSafeSpec => [](\A n \in Nodes : stage[n] \in {"zombie", "reaped"} =>
                            \A k \in Kids(n) : stage[k] \in {"unborn", "reaped"})
<1> DEFINE Alone == \A n \in Nodes : stage[n] \in {"zombie", "reaped"} =>
                        \A k \in Kids(n) : stage[k] \in {"unborn", "reaped"}
<1>1. ShellInit => TreeInv
    BY TreeBegins DEF ShellInit
<1>2. TreeInv => Alone
  <2> SUFFICES ASSUME TreeInv, NEW n \in Nodes, stage[n] \in {"zombie", "reaped"},
                      NEW k \in Kids(n)
               PROVE  stage[k] \in {"unborn", "reaped"}
      OBVIOUS
  <2>1. PICK j \in 1 .. KidCount(n) : k = Append(n, j)
      BY NodeKids DEF TreeInv
  <2> QED
      BY <2>1 DEF TreeInv, Family
<1> QED
    BY <1>1, <1>2, TreeKeeps, ShellSteps, PTL DEF ShellSafeSpec
-------------------------------------------------------------------------------
(* The signal programs.                                                    *)

Processes == {"receiver", "sender"}

\* The table of Ex_4: where which process does what.
LEMMA Ex_4_Table ==
    /\ Ex_4.signals = {"USR1"} /\ Ex_4.fatal = {} /\ Ex_4.parent = "receiver"
    /\ Ex_4.code["receiver"] =
           <<<<"install", "USR1">>, <<"block", 0>>, <<"fork", 0>>, <<"sleep", 5>>,
             <<"unblock", 0>>, <<"sleep", 3>>, <<"wait", 0>>>>
    /\ Ex_4.code["sender"] =
           <<<<"sleep", 1>>, <<"kill", 0>>, <<"sleep", 3>>, <<"kill", 0>>>>
    BY DEF Ex_4, ByProcess, Do, Sleep, Handle

\* The table of Ex_4_expand, where the child receives.
LEMMA Expand_Table ==
    /\ Ex_4_expand.signals = {"USR1"} /\ Ex_4_expand.fatal = {}
    /\ Ex_4_expand.parent = "sender"
    /\ Ex_4_expand.code["receiver"] =
           <<<<"sleep", 1>>, <<"install", "USR1">>, <<"block", 0>>, <<"sleep", 3>>,
             <<"unblock", 0>>>>
    /\ Ex_4_expand.code["sender"] =
           <<<<"fork", 0>>, <<"sleep", 2>>, <<"kill", 0>>, <<"sleep", 5>>,
             <<"wait", 0>>>>
    BY DEF Ex_4_expand, ByProcess, Do, Sleep, Handle

\* What a process of Ex_4 stands before, and for how long it sleeps there.
LEMMA Ex_4_Places ==
    ASSUME code = Ex_4, at \in [Processes -> 1 .. 32],
           NEW p \in Processes, NEW op, Before(p, op)
    PROVE  LET seconds == code.code[p][at[p]][2]
           IN  \/ /\ p = "receiver"
                  /\ \/ at[p] = 1 /\ op = "install"
                     \/ at[p] = 2 /\ op = "block" /\ seconds = 0
                     \/ at[p] = 3 /\ op = "fork" /\ seconds = 0
                     \/ at[p] = 4 /\ op = "sleep" /\ seconds = 5
                     \/ at[p] = 5 /\ op = "unblock" /\ seconds = 0
                     \/ at[p] = 6 /\ op = "sleep" /\ seconds = 3
                     \/ at[p] = 7 /\ op = "wait" /\ seconds = 0
               \/ /\ p = "sender"
                  /\ \/ at[p] = 1 /\ op = "sleep" /\ seconds = 1
                     \/ at[p] = 2 /\ op = "kill" /\ seconds = 0
                     \/ at[p] = 3 /\ op = "sleep" /\ seconds = 3
                     \/ at[p] = 4 /\ op = "kill" /\ seconds = 0
<1>1. PICK k \in 1 .. 32 : at[p] = k
    BY DEF Before
<1>2. k <= Len(code.code[p]) /\ code.code[p][k][1] = op
    BY <1>1, Zenon DEF Before
<1>3. p = "receiver" \/ p = "sender"
    BY DEF Processes
<1>4. CASE p = "receiver"
  <2>1. PICK r : /\ r = code.code[p]
                 /\ r = <<<<"install", "USR1">>, <<"block", 0>>, <<"fork", 0>>, <<"sleep", 5>>,
                          <<"unblock", 0>>, <<"sleep", 3>>, <<"wait", 0>>>>
    BY <1>4, Ex_4_Table, Zenon
  <2>2. k <= Len(r) /\ r[k][1] = op
    BY <1>2, <2>1, Zenon
  <2>3. k \in {1, 2, 3, 4, 5, 6, 7}
    BY <2>1, <2>2
  <2>4. \/ k = 1 /\ op = "install"
        \/ k = 2 /\ op = "block" /\ r[k][2] = 0
        \/ k = 3 /\ op = "fork" /\ r[k][2] = 0
        \/ k = 4 /\ op = "sleep" /\ r[k][2] = 5
        \/ k = 5 /\ op = "unblock" /\ r[k][2] = 0
        \/ k = 6 /\ op = "sleep" /\ r[k][2] = 3
        \/ k = 7 /\ op = "wait" /\ r[k][2] = 0
    BY <2>1, <2>2, <2>3
  <2> QED
    BY <1>1, <1>4, <2>1, <2>4, Zenon
<1>5. CASE p = "sender"
  <2>1. PICK s : /\ s = code.code[p]
                 /\ s = <<<<"sleep", 1>>, <<"kill", 0>>, <<"sleep", 3>>, <<"kill", 0>>>>
    BY <1>5, Ex_4_Table, Zenon
  <2>2. k <= Len(s) /\ s[k][1] = op
    BY <1>2, <2>1, Zenon
  <2>3. k \in {1, 2, 3, 4}
    BY <2>1, <2>2
  <2>4. \/ k = 1 /\ op = "sleep" /\ s[k][2] = 1
        \/ k = 2 /\ op = "kill" /\ s[k][2] = 0
        \/ k = 3 /\ op = "sleep" /\ s[k][2] = 3
        \/ k = 4 /\ op = "kill" /\ s[k][2] = 0
    BY <2>1, <2>2, <2>3
  <2> QED
    BY <1>1, <1>5, <2>1, <2>4, Zenon
<1> QED
    BY <1>3, <1>4, <1>5

\* The same of Ex_4_expand.
LEMMA Expand_Places ==
    ASSUME code = Ex_4_expand, at \in [Processes -> 1 .. 32],
           NEW p \in Processes, NEW op, Before(p, op)
    PROVE  LET seconds == code.code[p][at[p]][2]
           IN  \/ /\ p = "receiver"
                  /\ \/ at[p] = 1 /\ op = "sleep" /\ seconds = 1
                     \/ at[p] = 2 /\ op = "install"
                     \/ at[p] = 3 /\ op = "block" /\ seconds = 0
                     \/ at[p] = 4 /\ op = "sleep" /\ seconds = 3
                     \/ at[p] = 5 /\ op = "unblock" /\ seconds = 0
               \/ /\ p = "sender"
                  /\ \/ at[p] = 1 /\ op = "fork" /\ seconds = 0
                     \/ at[p] = 2 /\ op = "sleep" /\ seconds = 2
                     \/ at[p] = 3 /\ op = "kill" /\ seconds = 0
                     \/ at[p] = 4 /\ op = "sleep" /\ seconds = 5
                     \/ at[p] = 5 /\ op = "wait" /\ seconds = 0
<1>1. PICK k \in 1 .. 32 : at[p] = k
    BY DEF Before
<1>2. k <= Len(code.code[p]) /\ code.code[p][k][1] = op
    BY <1>1, Zenon DEF Before
<1>3. p = "receiver" \/ p = "sender"
    BY DEF Processes
<1>4. CASE p = "receiver"
  <2>1. PICK r : /\ r = code.code[p]
                 /\ r = <<<<"sleep", 1>>, <<"install", "USR1">>, <<"block", 0>>, <<"sleep", 3>>,
                          <<"unblock", 0>>>>
    BY <1>4, Expand_Table, Zenon
  <2>2. k <= Len(r) /\ r[k][1] = op
    BY <1>2, <2>1, Zenon
  <2>3. k \in {1, 2, 3, 4, 5}
    BY <2>1, <2>2
  <2>4. \/ k = 1 /\ op = "sleep" /\ r[k][2] = 1
        \/ k = 2 /\ op = "install"
        \/ k = 3 /\ op = "block" /\ r[k][2] = 0
        \/ k = 4 /\ op = "sleep" /\ r[k][2] = 3
        \/ k = 5 /\ op = "unblock" /\ r[k][2] = 0
    BY <2>1, <2>2, <2>3
  <2> QED
    BY <1>1, <1>4, <2>1, <2>4, Zenon
<1>5. CASE p = "sender"
  <2>1. PICK s : /\ s = code.code[p]
                 /\ s = <<<<"fork", 0>>, <<"sleep", 2>>, <<"kill", 0>>, <<"sleep", 5>>,
                          <<"wait", 0>>>>
    BY <1>5, Expand_Table, Zenon
  <2>2. k <= Len(s) /\ s[k][1] = op
    BY <1>2, <2>1, Zenon
  <2>3. k \in {1, 2, 3, 4, 5}
    BY <2>1, <2>2
  <2>4. \/ k = 1 /\ op = "fork" /\ s[k][2] = 0
        \/ k = 2 /\ op = "sleep" /\ s[k][2] = 2
        \/ k = 3 /\ op = "kill" /\ s[k][2] = 0
        \/ k = 4 /\ op = "sleep" /\ s[k][2] = 5
        \/ k = 5 /\ op = "wait" /\ s[k][2] = 0
    BY <2>1, <2>2, <2>3
  <2> QED
    BY <1>1, <1>5, <2>1, <2>4, Zenon
<1> QED
    BY <1>3, <1>4, <1>5

\* The parts of an operation.
LEMMA OpParts == \A op, n, s : /\ Do(op)[1] = op /\ Handle(s)[1] = "install"
                               /\ Sleep(n)[1] = "sleep" /\ Sleep(n)[2] = n
    BY DEF Do, Sleep, Handle

\* What a program does that forks no process.
UserOps == {Do("block"), Do("unblock"), Do("check"), Do("forever")}
             \cup {Handle(s) : s \in {"USR1", "USR2", "INT"}}
             \cup {Sleep(n) : n \in 0 .. 5}

\* No program of which the user sends the signals forks or kills, and none is
\* longer than 31 operations.
LEMMA UserTable ==
    ASSUME NEW c \in SignalPrograms \ {Ex_4, Ex_4_expand}
    PROVE  /\ c.parent = "receiver" /\ IsFiniteSet(c.signals)
           /\ c.code["sender"] = <<>>
           /\ c.code["receiver"] \in Seq(UserOps) /\ Len(c.code["receiver"]) <= 31
<1>1. c \in {asm_4_ex_1, Ex_1, Ex_2, Ex_3, asm_6_ex_3}
    BY DEF SignalPrograms
<1>2. /\ IsFiniteSet({"USR1", "USR2"}) /\ IsFiniteSet({"INT"})
      /\ IsFiniteSet({"INT", "TERM", "QUIT"})
  <2>1. \A x : IsFiniteSet({x})
    BY FS_Singleton
  <2>2. ASSUME NEW x, NEW y PROVE IsFiniteSet({x, y})
    <3>1. IsFiniteSet({x} \cup {y})
      BY <2>1, FS_AddElement
    <3>2. {x, y} = {x} \cup {y}
      OBVIOUS
    <3> QED
      BY <3>1, <3>2
  <2>3. ASSUME NEW x, NEW y, NEW z PROVE IsFiniteSet({x, y, z})
    <3>1. IsFiniteSet({x, y} \cup {z})
      BY <2>2, FS_AddElement
    <3>2. {x, y, z} = {x, y} \cup {z}
      OBVIOUS
    <3> QED
      BY <3>1, <3>2
  <2> QED
    BY <2>1, <2>2, <2>3
<1>3. ASSUME NEW n, IsFiniteSet(n), NEW f, NEW r \in Seq(UserOps), Len(r) <= 31,
             c = ByUser(n, f, r)
      PROVE  /\ c.parent = "receiver" /\ IsFiniteSet(c.signals)
             /\ c.code["sender"] = <<>>
             /\ c.code["receiver"] \in Seq(UserOps) /\ Len(c.code["receiver"]) <= 31
    BY <1>3 DEF ByUser
<1>4. /\ Handle("USR1") \in UserOps /\ Handle("USR2") \in UserOps
      /\ Handle("INT") \in UserOps /\ Do("block") \in UserOps
      /\ Do("unblock") \in UserOps /\ Do("check") \in UserOps
      /\ Do("forever") \in UserOps /\ Sleep(2) \in UserOps
      /\ Sleep(3) \in UserOps /\ Sleep(5) \in UserOps
    BY DEF UserOps
<1>5. CASE c \in {asm_4_ex_1, Ex_1}
  <2> DEFINE two == <<Handle("USR1"), Handle("USR2"), Do("forever")>>
             one == <<Handle("INT"), Do("forever")>>
  <2>1. /\ two \in Seq(UserOps) /\ Len(two) <= 31
        /\ one \in Seq(UserOps) /\ Len(one) <= 31
    BY <1>4
  <2> HIDE DEF two, one
  <2>2. c = ByUser({"USR1", "USR2"}, {"USR2"}, two) \/ c = ByUser({"INT"}, {}, one)
    BY <1>5 DEF asm_4_ex_1, Ex_1, two, one
  <2> QED
    BY <1>2, <1>3, <2>1, <2>2
<1>6. CASE c = Ex_2
  <2> DEFINE r == <<Do("block"), Sleep(3), Sleep(3), Do("unblock"), Do("forever")>>
  <2>1. r \in Seq(UserOps) /\ Len(r) <= 31
    BY <1>4
  <2> HIDE DEF r
  <2>2. c = ByUser({"INT", "TERM", "QUIT"}, {}, r)
    BY <1>6 DEF Ex_2, r
  <2> QED
    BY <1>2, <1>3, <2>1, <2>2
<1>7. CASE c = Ex_3
  <2> DEFINE r == <<Do("block"), Sleep(5), Do("check"), Do("forever")>>
  <2>1. r \in Seq(UserOps) /\ Len(r) <= 31
    BY <1>4
  <2> HIDE DEF r
  <2>2. c = ByUser({"INT"}, {}, r)
    BY <1>7 DEF Ex_3, r
  <2> QED
    BY <1>2, <1>3, <2>1, <2>2
<1>8. CASE c = asm_6_ex_3
  <2> DEFINE first == <<Handle("INT")>>
  <2> DEFINE loop == [r \in 1 .. 30 |-> Sleep(2)]
  <2>1. first \in Seq(UserOps) /\ Len(first) = 1
    BY <1>4
  <2>2. loop \in Seq(UserOps) /\ Len(loop) = 30
    BY <1>4, LenProperties, SeqDef
  <2>3. c = ByUser({"INT"}, {"INT"}, first \o loop)
    BY <1>8 DEF asm_6_ex_3
  <2> HIDE DEF first, loop
  <2>4. first \o loop \in Seq(UserOps) /\ Len(first \o loop) <= 31
    <3>1. \A s, t \in Seq(UserOps) : s \o t \in Seq(UserOps)
      BY ConcatProperties
    <3>2. \A s, t \in Seq(UserOps) : Len(s \o t) = Len(s) + Len(t)
      BY ConcatProperties
    <3>3. first \o loop \in Seq(UserOps)
      BY <2>1, <2>2, <3>1
    <3>4. Len(first \o loop) = Len(first) + Len(loop)
      BY <2>1, <2>2, <3>2, Zenon
    <3>5. Len(first) + Len(loop) = 31
      BY <2>1, <2>2
    <3> QED
      BY <3>3, <3>4, <3>5
  <2> QED
    BY <1>2, <1>3, <2>3, <2>4
<1> QED
    BY <1>1, <1>5, <1>6, <1>7, <1>8

\* No sleep is longer than 5 seconds; only the parent forks, and once; only the
\* sender kills.
LEMMA Places ==
    ASSUME code \in SignalPrograms, at \in [Processes -> 1 .. 32],
           NEW p \in Processes, NEW op, Before(p, op)
    PROVE  /\ at[p] \in 1 .. 31
           /\ op = "sleep" => code.code[p][at[p]][2] \in 0 .. 5
           /\ op = "fork" => /\ p = code.parent
                             /\ \/ code = Ex_4 /\ at[p] = 3
                                \/ code = Ex_4_expand /\ at[p] = 1
           /\ op = "kill" => p = "sender" /\ code \in {Ex_4, Ex_4_expand}
<1>1. PICK k \in 1 .. 32 : at[p] = k
    BY DEF Before
<1>2. k <= Len(code.code[p]) /\ code.code[p][k][1] = op
    BY <1>1, Zenon DEF Before
<1>3. p = "receiver" \/ p = "sender"
    BY DEF Processes
<1> SUFFICES /\ k \in 1 .. 31
             /\ op = "sleep" => code.code[p][k][2] \in 0 .. 5
             /\ op = "fork" => /\ p = code.parent
                               /\ \/ code = Ex_4 /\ k = 3
                                  \/ code = Ex_4_expand /\ k = 1
             /\ op = "kill" => p = "sender" /\ code \in {Ex_4, Ex_4_expand}
    BY <1>1, Zenon
<1>4. CASE code = Ex_4
  <2>1. code.parent = "receiver"
    BY <1>4, Ex_4_Table
  <2> QED
    BY <1>1, <1>4, <2>1, Ex_4_Places
<1>5. CASE code = Ex_4_expand
  <2>1. code.parent = "sender"
    BY <1>5, Expand_Table
  <2> QED
    BY <1>1, <1>5, <2>1, Expand_Places
<1>6. CASE code \notin {Ex_4, Ex_4_expand}
  <2>1. /\ code.parent = "receiver" /\ code.code["sender"] = <<>>
        /\ code.code["receiver"] \in Seq(UserOps) /\ Len(code.code["receiver"]) <= 31
    BY <1>6, UserTable
  <2>2. p = "receiver"
    <3>1. ASSUME p = "sender" PROVE FALSE
      <4>1. k <= Len(<<>>)
        BY <1>2, <2>1, <3>1, Zenon
      <4> QED
        BY <4>1
    <3> QED
      BY <1>3, <3>1
  <2>3. k \in 1 .. Len(code.code["receiver"]) /\ k \in 1 .. 31
    BY <1>2, <2>1, <2>2
  <2>4. code.code["receiver"][k] \in UserOps
    BY <2>1, <2>3
  <2>5. \A o \in UserOps : /\ o[1] = "sleep" => o[2] \in 0 .. 5
                           /\ o[1] \notin {"fork", "kill"}
    BY OpParts DEF UserOps
  <2>6. code.code[p][k] \in UserOps
    BY <2>2, <2>4
  <2>7. /\ code.code[p][k][1] = "sleep" => code.code[p][k][2] \in 0 .. 5
        /\ code.code[p][k][1] \notin {"fork", "kill"}
    BY <2>5, <2>6, Zenon
  <2> QED
    BY <1>2, <2>3, <2>7, Zenon
<1> QED
    BY <1>4, <1>5, <1>6

\* The two handlers of asm_4/ex_1 are installed first, that of SIGUSR1 before
\* that of SIGUSR2.
LEMMA asm_4_ex_1_Table ==
    /\ asm_4_ex_1.signals = {"USR1", "USR2"} /\ asm_4_ex_1.parent = "receiver"
    /\ asm_4_ex_1.code["receiver"] =
           <<<<"install", "USR1">>, <<"install", "USR2">>, <<"forever", 0>>>>
    BY DEF asm_4_ex_1, ByUser, Do, Handle

\* Every other program has one signal, or installs no handler.
LEMMA OneHandler ==
    ASSUME code \in SignalPrograms \ {asm_4_ex_1}, at \in [Processes -> 1 .. 32],
           Before("receiver", "install")
    PROVE  \E s : code.signals = {s}
<1>1. CASE code = Ex_2
  <2>1. PICK k \in 1 .. 32 : at["receiver"] = k
    BY DEF Processes
  <2>2. PICK r : /\ r = code.code["receiver"]
                 /\ r = <<<<"block", 0>>, <<"sleep", 3>>, <<"sleep", 3>>,
                          <<"unblock", 0>>, <<"forever", 0>>>>
    BY <1>1 DEF Ex_2, ByUser, Do, Sleep
  <2>3. k <= Len(r) /\ r[k][1] = "install"
    BY <2>1, <2>2, Zenon DEF Before
  <2>4. k \in {1, 2, 3, 4, 5}
    BY <2>2, <2>3
  <2> QED
    BY <2>2, <2>3, <2>4
<1>2. CASE code \in {Ex_1, Ex_3, asm_6_ex_3}
  <2>1. \A n, f, r : ByUser(n, f, r).signals = n
    BY DEF ByUser
  <2>2. PICK r : code = ByUser({"INT"}, {}, r) \/ code = ByUser({"INT"}, {"INT"}, r)
    BY <1>2, Zenon DEF Ex_1, Ex_3, asm_6_ex_3
  <2>3. code.signals = {"INT"}
    BY <2>1, <2>2, Zenon
  <2> QED
    BY <2>3
<1>3. CASE code \in {Ex_4, Ex_4_expand}
    BY <1>3, Ex_4_Table, Expand_Table
<1> QED
    BY <1>1, <1>2, <1>3 DEF SignalPrograms

\* The signals, whichever program runs: each of them is handled or pending at
\* most once; the first is not lost while the receiver runs; a receiver with
\* all its handlers is not killed.
Accounted == /\ handled + Cardinality(sig_pending) <= sent
             /\ handler = {} => handled = 0
             /\ fate["receiver"] = "unborn" => sent = 0
             /\ fate["receiver"] = "running" /\ sent > 0 => handled > 0 \/ sig_pending # {}
             /\ fate["receiver"] = "killed" =>
                    /\ ~(code.signals \subseteq handler)
                    /\ handled > 0 => code = asm_4_ex_1 /\ handler = {"USR1"}

\* Only asm_4/ex_1 has a moment at which some of its handlers are installed and
\* others are not.
Installed == /\ code # asm_4_ex_1 => handler \in {{}, code.signals}
             /\ code = asm_4_ex_1 => \/ at["receiver"] = 1 /\ handler = {}
                                     \/ "USR1" \in handler

\* The other process is born by the fork of the parent, and only by it.
Born == /\ fate[code.parent] # "unborn"
        /\ fate[Other(code.parent)] # "unborn" =>
              \/ code = Ex_4 /\ at["receiver"] > 3
              \/ code = Ex_4_expand /\ at["sender"] > 1

\* Where the two processes of Ex_4 are, however late they are: the signals come
\* after the handler is installed, and the receiver outlives the sender.
Ex4Order ==
    LET r == at["receiver"]
        s == at["sender"]
    IN  /\ r \in 1 .. 8 /\ s \in 1 .. 5
        /\ r > 1 => handler = {"USR1"}
        /\ blocked = IF r \in 3 .. 5 THEN {"USR1"} ELSE {}
        /\ fate["receiver"] \in {"running", "exited"}
        /\ fate["sender"] \in {"unborn", "running", "exited"}
        /\ fate["sender"] = "unborn" => s = 1 /\ left["sender"] = 0
        /\ r < 4 => fate["sender"] = "unborn"
        /\ fate["sender"] = "exited" => s = 5
        /\ fate["receiver"] = "exited" /\ fate["sender"] # "unborn" => r = 8 /\ handled > 0
        /\ r = 8 => fate["sender"] = "exited"
        /\ sent = IF s = 5 THEN 2 ELSE IF s > 2 THEN 1 ELSE 0

\* Its seconds, if the sleeps are in time: t of them have passed since the fork
\* while the receiver sleeps.  Both signals come before the mask is lifted.
Ex4Time ==
    LET r == at["receiver"]
        s == at["sender"]
        t == IF r = 5 THEN 5 - left["receiver"] ELSE 0
        l == left["sender"]
    IN  /\ r < 6 => handled = 0
        /\ r = 4 => left["receiver"] = 0
        /\ r < 6 /\ fate["sender"] = "running" => 
              /\ s = 1 => l = 0 /\ t = 0
              /\ s = 2 => l = 1 - t
              /\ s = 3 => l = 0 /\ t = 1
              /\ s = 4 => l = 4 - t
              /\ s = 5 => l = 0 /\ t = 4
        /\ r > 5 => fate["sender"] # "running"
        /\ r > 5 /\ fate["sender"] = "exited" =>
              \/ handled = 0 /\ sig_pending = {"USR1"}
              \/ handled = 1 /\ sig_pending = {}

\* The seconds of Ex_4_expand, if the sleeps are in time: t of them as the
\* receiver sees it.  The signal comes while the receiver sleeps with its mask.
ExpandTime ==
    LET r == at["receiver"]
        s == at["sender"]
        t == IF r = 1 THEN 0 ELSE IF r = 2 THEN 1 - left["receiver"]
             ELSE IF r < 5 THEN 1 ELSE IF r = 5 THEN 4 - left["receiver"] ELSE 4
        l == left["sender"]
    IN  /\ r \in 1 .. 6 /\ s \in 1 .. 6
        /\ r > 2 => handler = {"USR1"}
        /\ blocked = IF r \in 4 .. 5 THEN {"USR1"} ELSE {}
        /\ fate["receiver"] \in {"unborn", "running", "exited"}
        /\ fate["receiver"] = "unborn" => r = 1 /\ left["receiver"] = 0
        /\ s = 1 => fate["receiver"] = "unborn"
        /\ fate["receiver"] = "running" =>
             /\ r \in {1, 3, 4, 6} => left["receiver"] = 0
             /\ fate["sender"] = "running"
             /\ s > 1
             /\ s = 2 => l = 0 /\ t = 0
             /\ s = 3 => l = 2 - t
             /\ s = 4 => l = 0 /\ t = 2
             /\ s = 5 => l = 7 - t
             /\ s < 6
             /\ s < 4 => sent = 0
             /\ s > 3 => \/ handled = 0 /\ sig_pending = {"USR1"}
                         \/ r = 6 /\ handled = 1 /\ sig_pending = {}
        /\ fate["receiver"] = "exited" => handled = 1

\* The inductive invariant.
SignalInv == /\ SignalTypeOK /\ Accounted /\ Installed /\ Born
             /\ code = Ex_4 => Ex4Order
             /\ code = Ex_4 /\ timely => Ex4Time
             /\ code = Ex_4_expand /\ timely => ExpandTime

\* A signal that is sent is one more that may be handled, or is pending already.
LEMMA Sends ==
    ASSUME IsFiniteSet(sig_pending), handled \in Nat, sent \in Nat, NEW s, Send(s),
           handled + Cardinality(sig_pending) <= sent
    PROVE  /\ handled + Cardinality(sig_pending') <= sent'
           /\ fate["receiver"] = "running" => sent' = sent + 1 /\ sig_pending' = sig_pending \cup {s}
           /\ fate["receiver"] # "running" => UNCHANGED <<sent, sig_pending>>
<1>1. Cardinality(sig_pending) \in Nat
    BY FS_CardinalityType
<1>2. CASE fate["receiver"] = "running"
  <2>1. sent' = sent + 1 /\ sig_pending' = sig_pending \cup {s}
    BY <1>2 DEF Send
  <2>2. \/ Cardinality(sig_pending') = Cardinality(sig_pending)
        \/ Cardinality(sig_pending') = Cardinality(sig_pending) + 1
    BY <2>1, FS_AddElement
  <2> QED
    BY <1>1, <1>2, <2>1, <2>2
<1>3. CASE fate["receiver"] # "running"
    BY <1>3 DEF Send
<1> QED
    BY <1>2, <1>3

\* What every step keeps, whichever program it is.
LEMMA CommonStep ==
    SignalTypeOK /\ Accounted /\ Installed /\ Born /\ [SignalNext]_signalVars
        => (SignalTypeOK /\ Accounted /\ Born)'
<1> SUFFICES ASSUME SignalTypeOK, Accounted, Installed, Born, [SignalNext]_signalVars
             PROVE  (SignalTypeOK /\ Accounted /\ Born)'
    OBVIOUS
<1> USE DEF Processes
<1>t. /\ code \in SignalPrograms /\ timely \in BOOLEAN
      /\ at \in [Processes -> 1 .. 32] /\ left \in [Processes -> 0 .. 5]
      /\ fate \in [Processes -> {"unborn", "running", "exited", "killed"}]
      /\ handler \subseteq code.signals /\ blocked \in {{}, code.signals}
      /\ sig_pending \subseteq code.signals /\ sent \in Nat /\ handled \in Nat
      /\ DOMAIN at = Processes /\ DOMAIN left = Processes
    BY DEF SignalTypeOK
<1>c. /\ code.parent \in Processes /\ IsFiniteSet(code.signals)
      /\ code \in {Ex_4, Ex_4_expand} => "USR1" \in code.signals
  <2>1. CASE code \notin {Ex_4, Ex_4_expand}
    BY <1>t, <2>1, UserTable
  <2>2. CASE code \in {Ex_4, Ex_4_expand}
    <3>1. code.signals = {"USR1"} /\ code.parent \in Processes
      BY <2>2, Ex_4_Table, Expand_Table
    <3> QED
      BY <3>1, FS_Singleton
  <2> QED
    BY <2>1, <2>2
<1>f. IsFiniteSet(sig_pending) /\ Cardinality(sig_pending) \in Nat
    BY <1>t, <1>c, FS_Subset, FS_CardinalityType
<1>p. ASSUME NEW p \in Processes, NEW op, Passes(p, op)
      PROVE  /\ at' \in [Processes -> 1 .. 32] /\ \A q \in Processes : at'[q] >= at[q]
             /\ at'[p] = at[p] + 1 /\ fate[p] = "running"
  <2>1. at[p] \in 1 .. 31 /\ at' = [at EXCEPT ![p] = @ + 1] /\ fate[p] = "running"
    BY <1>t, <1>p, Places DEF Passes, Before
  <2> QED
    BY <1>t, <2>1
<1>q. ASSUME UNCHANGED <<code, sent, handled, handler, sig_pending, fate>>,
             \A q \in Processes : at'[q] >= at[q], at' \in [Processes -> 1 .. 32]
      PROVE  Accounted' /\ Born'
    BY <1>t, <1>c, <1>q DEF Accounted, Born, Other
<1>1. CASE \E p \in Processes : StartSleep(p)
  <2> PICK p \in Processes : StartSleep(p)
    BY <1>1
  <2>1. /\ Passes(p, "sleep")
        /\ left' = [left EXCEPT ![p] = code.code[p][at[p]][2]]
        /\ UNCHANGED <<code, timely, fate, handler, blocked, sig_pending, sent, handled>>
    BY DEF StartSleep
  <2>2. code.code[p][at[p]][2] \in 0 .. 5
    BY <1>t, <2>1, Places DEF Passes
  <2> QED
    BY <1>t, <1>p, <1>q, <2>1, <2>2 DEF SignalTypeOK
<1>2. CASE Install
  <2>1. PICK s \in code.signals :
           /\ Passes("receiver", "install") /\ handler' = handler \cup {s}
           /\ UNCHANGED <<code, timely, left, fate, blocked, sig_pending, sent, handled>>
    BY <1>2 DEF Install
  <2>2. fate["receiver"] = "running" /\ handler' # {}
    BY <1>p, <2>1
  <2> QED
    BY <1>t, <1>c, <1>p, <2>1, <2>2 DEF SignalTypeOK, Accounted, Born, Other
<1>3. CASE SetMask
  <2>1. /\ Passes("receiver", "block") \/ Passes("receiver", "unblock")
        /\ blocked' \in {{}, code.signals}
        /\ UNCHANGED <<code, timely, left, fate, handler, sig_pending, sent, handled>>
    BY <1>3 DEF SetMask
  <2> QED
    BY <1>t, <1>p, <1>q, <2>1 DEF SignalTypeOK
<1>4. CASE Check
  <2>1. /\ Passes("receiver", "check") /\ fate["receiver"] = "running"
        /\ fate' = fate \/ fate' = [fate EXCEPT !["receiver"] = "exited"]
        /\ UNCHANGED <<code, timely, left, handler, blocked, sig_pending, sent, handled>>
    BY <1>4, <1>p DEF Check, Ends
  <2> QED
    BY <1>t, <1>c, <1>p, <2>1 DEF SignalTypeOK, Accounted, Born, Other
<1>5. CASE \E p \in Processes : ForkOther(p)
  <2> PICK p \in Processes : ForkOther(p)
    BY <1>5
  <2>1. /\ Passes(p, "fork") /\ Before(p, "fork") /\ fate[p] = "running"
        /\ \/ fate' = [fate EXCEPT ![Other(p)] = "running"]
           \/ fate' = [fate EXCEPT ![p] = "exited"]
        /\ UNCHANGED <<code, timely, left, handler, blocked, sig_pending, sent, handled>>
    BY <1>p DEF ForkOther, Ends, Passes
  <2>2. /\ p = code.parent
        /\ \/ code = Ex_4 /\ at[p] = 3 /\ p = "receiver"
           \/ code = Ex_4_expand /\ at[p] = 1 /\ p = "sender"
    BY <1>t, <2>1, Places, Ex_4_Table, Expand_Table
  <2>3. at'[p] = at[p] + 1 /\ at' \in [Processes -> 1 .. 32]
    BY <1>p, <2>1
  <2>4. fate[Other(p)] = "unborn"
    <3>1. Ex_4 # Ex_4_expand
      BY Ex_4_Table, Expand_Table
    <3>2. /\ fate[Other(p)] # "unborn" =>
                \/ code = Ex_4 /\ at["receiver"] > 3
                \/ code = Ex_4_expand /\ at["sender"] > 1
          /\ Other(p) \in Processes
      BY <1>t, <2>2 DEF Born, Other
    <3> QED
      BY <1>t, <2>2, <3>1, <3>2
  <2>5. \/ sent = 0 /\ handled = 0 /\ sig_pending = {}
        \/ fate["receiver"] = "running"
    <3>1. CASE p = "receiver"
      BY <2>1, <3>1
    <3>2. CASE p = "sender"
      <4>1. sent = 0
        BY <2>4, <3>2 DEF Accounted, Other
      <4>2. handled = 0 /\ Cardinality(sig_pending) = 0
        BY <1>t, <1>f, <4>1 DEF Accounted
      <4> QED
        BY <1>f, <4>1, <4>2, FS_EmptySet
    <3> QED
      BY <3>1, <3>2
  <2>6. SignalTypeOK'
    BY <1>t, <2>1, <2>3 DEF SignalTypeOK, Other
  <2>7. Accounted'
    BY <1>t, <2>1, <2>2, <2>4, <2>5 DEF Accounted, Other
  <2>8. Born'
    BY <1>t, <2>1, <2>2, <2>3 DEF Born, Other
  <2> QED
    BY <2>6, <2>7, <2>8
<1>6. CASE Kill
  <2>1. /\ Passes("sender", "kill") /\ Send("USR1") /\ Before("sender", "kill")
        /\ UNCHANGED <<code, timely, left, fate, handler, blocked, handled>>
    BY <1>6 DEF Kill, Passes
  <2>2. code \in {Ex_4, Ex_4_expand}
    BY <1>t, <2>1, Places
  <2>3. /\ handled + Cardinality(sig_pending') <= sent'
        /\ \/ sent' = sent + 1 /\ sig_pending' = sig_pending \cup {"USR1"} /\ fate["receiver"] = "running"
           \/ UNCHANGED <<sent, sig_pending>>
    BY <1>t, <1>f, <2>1, Sends DEF Accounted
  <2>4. /\ at' \in [Processes -> 1 .. 32] /\ \A q \in Processes : at'[q] >= at[q]
    BY <1>p, <2>1
  <2>5. SignalTypeOK'
    BY <1>t, <1>c, <2>1, <2>2, <2>3, <2>4 DEF SignalTypeOK
  <2>6. Accounted'
    BY <1>t, <2>1, <2>3 DEF Accounted
  <2>7. Born'
    BY <1>t, <1>c, <2>1, <2>4 DEF Born, Other
  <2> QED
    BY <2>5, <2>6, <2>7
<1>7. CASE \E p \in Processes : WaitOther(p)
  <2> PICK p \in Processes : WaitOther(p)
    BY <1>7
  <2>1. /\ Passes(p, "wait")
        /\ UNCHANGED <<code, timely, left, fate, handler, blocked, sig_pending, sent, handled>>
    BY DEF WaitOther
  <2> QED
    BY <1>t, <1>p, <1>q, <2>1 DEF SignalTypeOK
<1>8. CASE \E p \in Processes : SignalExit(p)
  <2> PICK p \in Processes : SignalExit(p)
    BY <1>8
  <2>1. /\ fate[p] = "running" /\ fate' = [fate EXCEPT ![p] = "exited"]
        /\ UNCHANGED <<code, timely, at, left, handler, blocked, sig_pending, sent, handled>>
    BY DEF SignalExit, Ends
  <2> QED
    BY <1>t, <1>c, <2>1 DEF SignalTypeOK, Accounted, Born, Other
<1>9. CASE Deliver
  <2>1. PICK s \in Deliverable :
           /\ sig_pending' = sig_pending \ {s}
           /\ \/ /\ s \in handler /\ handled' = handled + 1
                 /\ left' = [left EXCEPT !["receiver"] = 0]
                 /\ fate' = fate \/ fate' = [fate EXCEPT !["receiver"] = "exited"]
              \/ /\ s \notin handler /\ UNCHANGED <<handled, left>>
                 /\ fate' = [fate EXCEPT !["receiver"] = "killed"]
           /\ UNCHANGED <<code, timely, at, handler, blocked, sent>>
    BY <1>9 DEF Deliver, Ends
  <2>2. fate["receiver"] = "running" /\ s \in sig_pending
    BY DEF Deliverable
  <2>3. /\ Cardinality(sig_pending') = Cardinality(sig_pending) - 1
    BY <1>f, <2>1, <2>2, FS_RemoveElement
  <2>4. SignalTypeOK'
    BY <1>t, <2>1 DEF SignalTypeOK
  <2>5. Accounted'
    <3>1. CASE s \in handler
      BY <1>t, <1>f, <2>1, <2>2, <2>3, <3>1 DEF Accounted
    <3>2. CASE s \notin handler
      <4>1. handled > 0 => code = asm_4_ex_1 /\ handler = {"USR1"}
        BY <1>t, <2>1, <2>2, <3>2, asm_4_ex_1_Table DEF Accounted, Installed
      <4> QED
        BY <1>t, <1>f, <2>1, <2>2, <2>3, <3>2, <4>1 DEF Accounted
    <3> QED
      BY <3>1, <3>2
  <2>6. Born'
    BY <1>t, <1>c, <2>1, <2>2 DEF Born, Other
  <2> QED
    BY <2>4, <2>5, <2>6
<1>10. CASE SendByUser
  <2>1. PICK s \in code.signals :
           /\ Send(s) /\ UNCHANGED <<code, timely, at, left, fate, handler, blocked, handled>>
    BY <1>10 DEF SendByUser
  <2>2. /\ handled + Cardinality(sig_pending') <= sent'
        /\ \/ sent' = sent + 1 /\ sig_pending' = sig_pending \cup {s} /\ fate["receiver"] = "running"
           \/ UNCHANGED <<sent, sig_pending>>
    BY <1>t, <1>f, <2>1, Sends DEF Accounted
  <2>3. SignalTypeOK'
    BY <1>t, <2>1, <2>2 DEF SignalTypeOK
  <2>4. Accounted'
    BY <1>t, <2>1, <2>2 DEF Accounted
  <2>5. Born'
    BY <1>t, <1>c, <2>1 DEF Born, Other
  <2> QED
    BY <2>3, <2>4, <2>5
<1>11. CASE SecondPasses
  <2>1. /\ left' = [p \in Processes |-> IF left[p] > 0 THEN left[p] - 1 ELSE 0]
        /\ UNCHANGED <<code, timely, at, fate, handler, blocked, sig_pending, sent, handled>>
    BY <1>11, <1>t DEF SecondPasses
  <2> QED
    BY <1>t, <1>q, <2>1 DEF SignalTypeOK
<1>12. CASE UNCHANGED signalVars
    BY <1>12, <1>t, <1>q DEF SignalTypeOK, signalVars
<1> QED
    BY <1>1, <1>2, <1>3, <1>4, <1>5, <1>6, <1>7, <1>8, <1>9, <1>10, <1>11, <1>12,
       <1>t DEF SignalNext, Acts

\* Handlers are installed by signal() alone, and asm_4/ex_1 begins with it.
LEMMA InstalledStep ==
    SignalTypeOK /\ Installed /\ [SignalNext]_signalVars => Installed'
<1> SUFFICES ASSUME SignalTypeOK, Installed, [SignalNext]_signalVars PROVE Installed'
    OBVIOUS
<1> USE DEF Processes
<1>t. /\ code \in SignalPrograms /\ at \in [Processes -> 1 .. 32]
      /\ handler \subseteq code.signals /\ DOMAIN at = Processes
    BY DEF SignalTypeOK
<1>p. ASSUME code = asm_4_ex_1, at["receiver"] = 1, NEW op, Before("receiver", op)
      PROVE  /\ op = "install"
             /\ \A s : code.code["receiver"][at["receiver"]] = Handle(s) => s = "USR1"
  <2>1. code.code["receiver"][1] = <<"install", "USR1">>
    BY <1>p, asm_4_ex_1_Table
  <2> QED
    BY <1>p, <2>1 DEF Before, Handle
<1>1. CASE Install
  <2>1. PICK s \in code.signals :
           /\ Before("receiver", "install") /\ handler' = handler \cup {s}
           /\ code.code["receiver"][at["receiver"]] = Handle(s) /\ UNCHANGED code
    BY <1>1 DEF Install, Passes
  <2>2. code # asm_4_ex_1 => handler' = code.signals
    BY <1>t, <2>1, OneHandler
  <2>3. code = asm_4_ex_1 => "USR1" \in handler'
    BY <1>p, <2>1 DEF Installed
  <2> QED
    BY <2>1, <2>2, <2>3 DEF Installed
<1>2. CASE ~Install
  <2>1. UNCHANGED <<code, handler>>
    BY <1>2 DEF SignalNext, Acts, StartSleep, SetMask, Check, ForkOther, Kill,
           WaitOther, SignalExit, Deliver, SendByUser, SecondPasses, signalVars
  <2>2. \/ at'["receiver"] = at["receiver"]
        \/ \E op : op # "install" /\ Before("receiver", op)
    BY <1>t, <1>2 DEF SignalNext, Acts, StartSleep, SetMask, Check, ForkOther, Kill,
           WaitOther, SignalExit, Deliver, SendByUser, SecondPasses, Passes, signalVars
  <2> QED
    BY <1>p, <2>1, <2>2 DEF Installed
<1> QED
    BY <1>1, <1>2

\* Nothing is pending before something was sent.
LEMMA FirstSent ==
    SignalTypeOK /\ Accounted /\ IsFiniteSet(sig_pending) /\ sent = 0
        => handled = 0 /\ sig_pending = {}
<1> SUFFICES ASSUME SignalTypeOK, Accounted, IsFiniteSet(sig_pending), sent = 0
             PROVE  handled = 0 /\ sig_pending = {}
    OBVIOUS
<1>1. Cardinality(sig_pending) \in Nat /\ handled \in Nat
    BY FS_CardinalityType DEF SignalTypeOK
<1>2. handled = 0 /\ Cardinality(sig_pending) = 0
    BY <1>1 DEF Accounted
<1> QED
    BY <1>2, FS_EmptySet

\* Every step of Ex_4 keeps the order of its two processes and, if the sleeps
\* are in time, their seconds.
LEMMA Ex4Step ==
    /\ SignalTypeOK /\ Accounted /\ code = Ex_4 /\ Ex4Order /\ (timely => Ex4Time)
    /\ [SignalNext]_signalVars
    => Ex4Order' /\ (timely' => Ex4Time')
<1> SUFFICES ASSUME SignalTypeOK, Accounted, code = Ex_4, Ex4Order, timely => Ex4Time,
                    [SignalNext]_signalVars
             PROVE  Ex4Order' /\ (timely' => Ex4Time')
    OBVIOUS
<1> USE DEF Processes
<1>t. /\ timely \in BOOLEAN
      /\ at \in [Processes -> 1 .. 32] /\ left \in [Processes -> 0 .. 5]
      /\ fate \in [Processes -> {"unborn", "running", "exited", "killed"}]
      /\ handler \subseteq {"USR1"}
      /\ sig_pending \in {{}, {"USR1"}} /\ sent \in Nat /\ handled \in Nat
      /\ DOMAIN at = Processes /\ DOMAIN left = Processes
      /\ code.signals = {"USR1"} /\ code.fatal = {} /\ code.parent = "receiver"
    BY Ex_4_Table DEF SignalTypeOK
<1>e. sent = 0 => handled = 0 /\ sig_pending = {}
  <2>1. IsFiniteSet({}) /\ IsFiniteSet({"USR1"})
    BY FS_Singleton, FS_EmptySet
  <2>2. IsFiniteSet(sig_pending)
    BY <1>t, <2>1
  <2> QED
    BY <2>2, FirstSent
<1>l. Len(code.code["receiver"]) = 7 /\ Len(code.code["sender"]) = 4
    BY Ex_4_Table
<1>p. ASSUME NEW p \in Processes, NEW op, Passes(p, op)
      PROVE  /\ Before(p, op) /\ at' = [at EXCEPT ![p] = @ + 1]
             /\ fate[p] = "running" /\ left[p] = 0
             /\ p = "receiver" => Deliverable = {}
    BY <1>p DEF Passes, Before
<1>1. CASE \E p \in Processes : StartSleep(p)
  <2> PICK p \in Processes : StartSleep(p)
    BY <1>1
  <2>1. /\ Passes(p, "sleep")
        /\ left' = [left EXCEPT ![p] = code.code[p][at[p]][2]]
        /\ UNCHANGED <<code, timely, fate, handler, blocked, sig_pending, sent, handled>>
    BY DEF StartSleep
  <2>2. /\ at' = [at EXCEPT ![p] = @ + 1] /\ fate[p] = "running" /\ left[p] = 0
        /\ \/ p = "receiver" /\ at[p] = 4 /\ left' = [left EXCEPT !["receiver"] = 5]
           \/ p = "receiver" /\ at[p] = 6 /\ left' = [left EXCEPT !["receiver"] = 3]
           \/ p = "sender" /\ at[p] = 1 /\ left' = [left EXCEPT !["sender"] = 1]
           \/ p = "sender" /\ at[p] = 3 /\ left' = [left EXCEPT !["sender"] = 3]
    <3>1. PICK n : n = code.code[p][at[p]][2]
      OBVIOUS
    <3>2. left' = [left EXCEPT ![p] = n]
      BY <2>1, <3>1, Zenon
    <3>3. Before(p, "sleep")
      BY <1>p, <2>1
    <3>4. \/ p = "receiver" /\ at[p] = 4 /\ n = 5
          \/ p = "receiver" /\ at[p] = 6 /\ n = 3
          \/ p = "sender" /\ at[p] = 1 /\ n = 1
          \/ p = "sender" /\ at[p] = 3 /\ n = 3
      BY <1>t, <3>1, <3>3, Ex_4_Places
    <3> QED
      BY <1>p, <2>1, <3>2, <3>4
  <2>3. Ex4Order'
    BY <1>t, <2>1, <2>2 DEF Ex4Order
  <2>4. ASSUME timely PROVE Ex4Time'
    BY <1>t, <2>1, <2>2, <2>4 DEF Ex4Order, Ex4Time
  <2> QED
    BY <2>1, <2>3, <2>4
<1>2. CASE Install
  <2>1. /\ Passes("receiver", "install") /\ handler' = {"USR1"}
        /\ UNCHANGED <<code, timely, left, fate, blocked, sig_pending, sent, handled>>
    BY <1>2, <1>t DEF Install
  <2>2. /\ at' = [at EXCEPT !["receiver"] = @ + 1] /\ at["receiver"] = 1
        /\ fate["receiver"] = "running"
    BY <1>t, <1>p, <2>1, Ex_4_Places
  <2> QED
    BY <1>t, <2>1, <2>2 DEF Ex4Order, Ex4Time
<1>3. CASE SetMask
  <2>1. /\ \/ Passes("receiver", "block") /\ blocked' = {"USR1"}
           \/ Passes("receiver", "unblock") /\ blocked' = {}
        /\ UNCHANGED <<code, timely, left, fate, handler, sig_pending, sent, handled>>
    BY <1>t, <1>3 DEF SetMask
  <2>2. /\ at' = [at EXCEPT !["receiver"] = @ + 1] /\ fate["receiver"] = "running"
        /\ left["receiver"] = 0
        /\ \/ at["receiver"] = 2 /\ blocked' = {"USR1"}
           \/ at["receiver"] = 5 /\ blocked' = {}
    BY <1>t, <1>p, <2>1, Ex_4_Places
  <2>3. Ex4Order'
    BY <1>t, <2>1, <2>2 DEF Ex4Order
  <2>4. ASSUME timely PROVE Ex4Time'
    BY <1>t, <2>1, <2>2, <2>4 DEF Ex4Order, Ex4Time, Accounted
  <2> QED
    BY <2>1, <2>3, <2>4
<1>4. CASE Check
  <2>1. Passes("receiver", "check")
    BY <1>4 DEF Check
  <2> QED
    BY <1>t, <1>p, <2>1, Ex_4_Places
<1>5. CASE \E p \in Processes : ForkOther(p)
  <2> PICK p \in Processes : ForkOther(p)
    BY <1>5
  <2>1. /\ Passes(p, "fork")
        /\ \/ fate' = [fate EXCEPT ![Other(p)] = "running"]
           \/ fate' = [fate EXCEPT ![p] = "exited"]
        /\ UNCHANGED <<code, timely, left, handler, blocked, sig_pending, sent, handled>>
    BY <1>p DEF ForkOther, Ends
  <2>2. /\ p = "receiver" /\ at["receiver"] = 3 /\ fate["receiver"] = "running"
        /\ at' = [at EXCEPT !["receiver"] = @ + 1] /\ left["receiver"] = 0
        /\ Other(p) = "sender"
    BY <1>t, <1>p, <2>1, Ex_4_Places DEF Other
  <2>3. Ex4Order'
    BY <1>t, <1>e, <2>1, <2>2 DEF Ex4Order
  <2>4. ASSUME timely PROVE Ex4Time'
    BY <1>t, <2>1, <2>2, <2>4 DEF Ex4Order, Ex4Time
  <2> QED
    BY <2>1, <2>3, <2>4
<1>6. CASE Kill
  <2>1. /\ Passes("sender", "kill") /\ Send("USR1")
        /\ UNCHANGED <<code, timely, left, fate, handler, blocked, handled>>
    BY <1>6 DEF Kill
  <2>2. /\ at' = [at EXCEPT !["sender"] = @ + 1] /\ at["sender"] \in {2, 4}
        /\ fate["sender"] = "running" /\ left["sender"] = 0
    BY <1>t, <1>p, <2>1, Ex_4_Places
  <2>3. fate["receiver"] = "running"
    BY <1>t, <2>2 DEF Ex4Order
  <2>4. sent' = sent + 1 /\ sig_pending' = sig_pending \cup {"USR1"}
    BY <2>1, <2>3 DEF Send
  <2>5. Ex4Order'
    BY <1>t, <2>1, <2>2, <2>3, <2>4 DEF Ex4Order
  <2>6. ASSUME timely PROVE Ex4Time'
    BY <1>t, <2>1, <2>2, <2>3, <2>4, <2>6 DEF Ex4Order, Ex4Time
  <2> QED
    BY <2>1, <2>5, <2>6
<1>7. CASE \E p \in Processes : WaitOther(p)
  <2> PICK p \in Processes : WaitOther(p)
    BY <1>7
  <2>1. /\ Passes(p, "wait") /\ fate[Other(p)] \in {"exited", "killed"}
        /\ UNCHANGED <<code, timely, left, fate, handler, blocked, sig_pending, sent, handled>>
    BY DEF WaitOther
  <2>2. /\ at' = [at EXCEPT !["receiver"] = @ + 1] /\ at["receiver"] = 7
        /\ fate["receiver"] = "running" /\ fate["sender"] \in {"exited", "killed"}
    BY <1>t, <1>p, <2>1, Ex_4_Places DEF Other
  <2>3. Ex4Order'
    BY <1>t, <2>1, <2>2 DEF Ex4Order
  <2>4. ASSUME timely PROVE Ex4Time'
    BY <1>t, <2>1, <2>2, <2>4 DEF Ex4Order, Ex4Time
  <2> QED
    BY <2>1, <2>3, <2>4
<1>8. CASE \E p \in Processes : SignalExit(p)
  <2> PICK p \in Processes : SignalExit(p)
    BY <1>8
  <2>1. /\ fate[p] = "running" /\ fate' = [fate EXCEPT ![p] = "exited"]
        /\ p = "receiver" => Deliverable = {}
        /\ UNCHANGED <<code, timely, at, left, handler, blocked, sig_pending, sent, handled>>
    BY DEF SignalExit, Ends
  <2>2. at[p] = IF p = "receiver" THEN 8 ELSE 5
    <3>1. PICK k \in 1 .. 32 : at[p] = k
      BY <1>t
    <3>2. k > Len(code.code[p])
      BY <3>1, Zenon DEF SignalExit
    <3>3. p = "receiver" => k > 7
      BY <1>l, <3>2
    <3>4. p = "sender" => k > 4
      BY <1>l, <3>2
    <3>5. at["receiver"] \in 1 .. 8 /\ at["sender"] \in 1 .. 5
      BY DEF Ex4Order
    <3> QED
      BY <3>1, <3>3, <3>4, <3>5
  <2>3. CASE p = "receiver"
    <3>1. fate["sender"] = "exited" /\ blocked = {} /\ sent = 2
      BY <1>t, <2>2, <2>3 DEF Ex4Order
    <3>2. sig_pending = {}
      BY <2>1, <2>3, <3>1 DEF Deliverable
    <3>3. handled > 0
      BY <1>t, <2>1, <2>3, <3>1, <3>2 DEF Accounted
    <3>4. Ex4Order'
      BY <1>t, <2>1, <2>2, <2>3, <3>1, <3>3 DEF Ex4Order
    <3>5. ASSUME timely PROVE Ex4Time'
      BY <1>t, <2>1, <2>2, <2>3, <3>1, <3>5 DEF Ex4Time
    <3> QED
      BY <2>1, <3>4, <3>5
  <2>4. CASE p = "sender"
    <3>1. fate["receiver"] = "running" /\ at["receiver"] < 8
      BY <1>t, <2>1, <2>4 DEF Ex4Order
    <3>2. Ex4Order'
      BY <1>t, <2>1, <2>2, <2>4, <3>1 DEF Ex4Order
    <3>3. ASSUME timely PROVE Ex4Time'
      BY <1>t, <2>1, <2>2, <2>4, <3>1, <3>3 DEF Ex4Time
    <3> QED
      BY <2>1, <3>2, <3>3
  <2> QED
    BY <2>3, <2>4
<1>9. CASE Deliver
  <2>1. PICK s \in Deliverable :
           /\ sig_pending' = sig_pending \ {s}
           /\ s \in handler => /\ handled' = handled + 1 /\ UNCHANGED fate
                              /\ left' = [left EXCEPT !["receiver"] = 0]
           /\ UNCHANGED <<code, timely, at, handler, blocked, sent>>
    BY <1>9, <1>t DEF Deliver
  <2>2. fate["receiver"] = "running" /\ s = "USR1" /\ sig_pending = {"USR1"} /\ s \notin blocked
    BY <1>t DEF Deliverable
  <2>3. sent > 0
    BY <1>t, <1>e, <2>2
  <2>4. at["receiver"] > 5 /\ handler = {"USR1"}
    BY <1>t, <2>2, <2>3 DEF Ex4Order
  <2>5. Ex4Order'
    BY <1>t, <2>1, <2>2, <2>4 DEF Ex4Order
  <2>6. ASSUME timely PROVE Ex4Time'
    BY <1>t, <2>1, <2>2, <2>4, <2>6 DEF Ex4Order, Ex4Time
  <2> QED
    BY <2>1, <2>5, <2>6
<1>10. CASE SendByUser
  <2>1. code.code["sender"] = <<>>
    BY <1>10 DEF SendByUser
  <2> QED
    BY <1>l, <2>1
<1>11. CASE SecondPasses
  <2>1. /\ left' = [p \in Processes |-> IF left[p] > 0 THEN left[p] - 1 ELSE 0]
        /\ timely => Idle("receiver") /\ Idle("sender")
        /\ UNCHANGED <<code, timely, at, fate, handler, blocked, sig_pending, sent, handled>>
    BY <1>11, <1>t DEF SecondPasses
  <2>2. Ex4Order'
    BY <1>t, <2>1 DEF Ex4Order
  <2>3. ASSUME timely PROVE Ex4Time'
    <3>1. /\ \/ fate["receiver"] # "running" \/ left["receiver"] > 0
             \/ at["receiver"] = 7
          /\ fate["sender"] # "running" \/ left["sender"] > 0
      <4>1. ~Before("receiver", "forever") /\ ~Before("sender", "forever")
            /\ ~Before("sender", "wait") /\ (Before("receiver", "wait") => at["receiver"] = 7)
        BY <1>t, Ex_4_Places
      <4> QED
        BY <2>1, <2>3, <4>1 DEF Idle
    <3> QED
      BY <1>t, <2>1, <2>3, <3>1 DEF Ex4Order, Ex4Time
  <2> QED
    BY <2>1, <2>2, <2>3
<1>12. CASE UNCHANGED signalVars
    BY <1>12 DEF signalVars, Ex4Order, Ex4Time
<1> QED
    BY <1>1, <1>2, <1>3, <1>4, <1>5, <1>6, <1>7, <1>8, <1>9, <1>10, <1>11, <1>12,
       <1>t DEF SignalNext, Acts

\* So does every step of Ex_4_expand, if the sleeps are in time.
LEMMA ExpandStep ==
    /\ SignalTypeOK /\ Accounted /\ code = Ex_4_expand /\ timely /\ ExpandTime
    /\ [SignalNext]_signalVars
    => ExpandTime'
<1> SUFFICES ASSUME SignalTypeOK, Accounted, code = Ex_4_expand, timely, ExpandTime,
                    [SignalNext]_signalVars
             PROVE  ExpandTime'
    OBVIOUS
<1> USE DEF Processes
<1>t. /\ at \in [Processes -> 1 .. 32] /\ left \in [Processes -> 0 .. 5]
      /\ fate \in [Processes -> {"unborn", "running", "exited", "killed"}]
      /\ handler \subseteq {"USR1"}
      /\ sig_pending \in {{}, {"USR1"}} /\ sent \in Nat /\ handled \in Nat
      /\ DOMAIN at = Processes /\ DOMAIN left = Processes
      /\ code.signals = {"USR1"} /\ code.fatal = {} /\ code.parent = "sender"
  <2>1. code.signals = {"USR1"} /\ code.fatal = {} /\ code.parent = "sender"
    BY Expand_Table
  <2>2. sig_pending \in {{}, {"USR1"}}
    BY <2>1 DEF SignalTypeOK
  <2> QED
    BY <2>1, <2>2 DEF SignalTypeOK
<1>e. sent = 0 => handled = 0 /\ sig_pending = {}
  <2>1. IsFiniteSet({}) /\ IsFiniteSet({"USR1"})
    BY FS_Singleton, FS_EmptySet
  <2>2. IsFiniteSet(sig_pending)
    BY <1>t, <2>1
  <2> QED
    BY <2>2, FirstSent
<1>l. Len(code.code["receiver"]) = 5 /\ Len(code.code["sender"]) = 5
    BY Expand_Table
<1>p. ASSUME NEW p \in Processes, NEW op, Passes(p, op)
      PROVE  /\ Before(p, op) /\ at' = [at EXCEPT ![p] = @ + 1]
             /\ fate[p] = "running" /\ left[p] = 0
             /\ p = "receiver" => Deliverable = {}
    BY <1>p DEF Passes, Before
<1>1. CASE \E p \in Processes : StartSleep(p)
  <2> PICK p \in Processes : StartSleep(p)
    BY <1>1
  <2>1. /\ Passes(p, "sleep")
        /\ left' = [left EXCEPT ![p] = code.code[p][at[p]][2]]
        /\ UNCHANGED <<code, timely, fate, handler, blocked, sig_pending, sent, handled>>
    BY DEF StartSleep
  <2>2. /\ at' = [at EXCEPT ![p] = @ + 1] /\ fate[p] = "running" /\ left[p] = 0
        /\ \/ p = "receiver" /\ at[p] = 1 /\ left' = [left EXCEPT !["receiver"] = 1]
           \/ p = "receiver" /\ at[p] = 4 /\ left' = [left EXCEPT !["receiver"] = 3]
           \/ p = "sender" /\ at[p] = 2 /\ left' = [left EXCEPT !["sender"] = 2]
           \/ p = "sender" /\ at[p] = 4 /\ left' = [left EXCEPT !["sender"] = 5]
    <3>1. PICK n : n = code.code[p][at[p]][2]
      OBVIOUS
    <3>2. left' = [left EXCEPT ![p] = n]
      BY <2>1, <3>1, Zenon
    <3>3. Before(p, "sleep")
      BY <1>p, <2>1
    <3>4. \/ p = "receiver" /\ at[p] = 1 /\ n = 1
          \/ p = "receiver" /\ at[p] = 4 /\ n = 3
          \/ p = "sender" /\ at[p] = 2 /\ n = 2
          \/ p = "sender" /\ at[p] = 4 /\ n = 5
      BY <1>t, <3>1, <3>3, Expand_Places
    <3> QED
      BY <1>p, <2>1, <3>2, <3>4
  <2> QED
    BY <1>t, <2>1, <2>2 DEF ExpandTime
<1>2. CASE Install
  <2>1. /\ Passes("receiver", "install") /\ handler' = {"USR1"}
        /\ UNCHANGED <<code, timely, left, fate, blocked, sig_pending, sent, handled>>
    BY <1>2, <1>t DEF Install
  <2>2. /\ at' = [at EXCEPT !["receiver"] = @ + 1] /\ at["receiver"] = 2
        /\ fate["receiver"] = "running" /\ left["receiver"] = 0
    BY <1>t, <1>p, <2>1, Expand_Places
  <2> QED
    BY <1>t, <2>1, <2>2 DEF ExpandTime
<1>3. CASE SetMask
  <2>1. /\ \/ Passes("receiver", "block") /\ blocked' = {"USR1"}
           \/ Passes("receiver", "unblock") /\ blocked' = {}
        /\ UNCHANGED <<code, timely, left, fate, handler, sig_pending, sent, handled>>
    BY <1>t, <1>3 DEF SetMask
  <2>2. /\ at' = [at EXCEPT !["receiver"] = @ + 1] /\ fate["receiver"] = "running"
        /\ left["receiver"] = 0
        /\ \/ at["receiver"] = 3 /\ blocked' = {"USR1"}
           \/ at["receiver"] = 5 /\ blocked' = {}
    BY <1>t, <1>p, <2>1, Expand_Places
  <2> QED
    BY <1>t, <2>1, <2>2 DEF ExpandTime
<1>4. CASE Check
  <2>1. Passes("receiver", "check")
    BY <1>4 DEF Check
  <2> QED
    BY <1>t, <1>p, <2>1, Expand_Places
<1>5. CASE \E p \in Processes : ForkOther(p)
  <2> PICK p \in Processes : ForkOther(p)
    BY <1>5
  <2>1. /\ Passes(p, "fork")
        /\ \/ fate' = [fate EXCEPT ![Other(p)] = "running"]
           \/ fate' = [fate EXCEPT ![p] = "exited"]
        /\ UNCHANGED <<code, timely, left, handler, blocked, sig_pending, sent, handled>>
    BY <1>p DEF ForkOther, Ends
  <2>2. /\ p = "sender" /\ at["sender"] = 1 /\ fate["sender"] = "running"
        /\ at' = [at EXCEPT !["sender"] = @ + 1] /\ left["sender"] = 0
        /\ Other(p) = "receiver"
    BY <1>t, <1>p, <2>1, Expand_Places DEF Other
  <2>3. /\ fate["receiver"] = "unborn" /\ at["receiver"] = 1
        /\ left["receiver"] = 0 /\ blocked = {} /\ sent = 0
    BY <1>t, <2>2 DEF ExpandTime, Accounted
  <2>4. CASE fate' = [fate EXCEPT !["receiver"] = "running"]
    BY <1>t, <2>1, <2>2, <2>3, <2>4 DEF ExpandTime
  <2>5. CASE fate' = [fate EXCEPT !["sender"] = "exited"]
    BY <1>t, <2>1, <2>2, <2>3, <2>5 DEF ExpandTime
  <2> QED
    BY <2>1, <2>2, <2>4, <2>5
<1>6. CASE Kill
  <2>1. /\ Passes("sender", "kill") /\ Send("USR1")
        /\ UNCHANGED <<code, timely, left, fate, handler, blocked, handled>>
    BY <1>6 DEF Kill
  <2>2. /\ at' = [at EXCEPT !["sender"] = @ + 1] /\ at["sender"] = 3
        /\ fate["sender"] = "running" /\ left["sender"] = 0
    BY <1>t, <1>p, <2>1, Expand_Places
  <2>3. CASE fate["receiver"] = "running"
    <3>1. sent' = sent + 1 /\ sig_pending' = sig_pending \cup {"USR1"}
      BY <2>1, <2>3 DEF Send
    <3>2. handled = 0 /\ sig_pending = {}
      BY <1>e, <1>t, <2>2, <2>3 DEF ExpandTime
    <3> QED
      BY <1>t, <2>1, <2>2, <2>3, <3>1, <3>2 DEF ExpandTime
  <2>4. CASE fate["receiver"] # "running"
    <3>1. UNCHANGED <<sent, sig_pending>>
      BY <2>1, <2>4 DEF Send
    <3> QED
      BY <1>t, <2>1, <2>2, <2>4, <3>1 DEF ExpandTime
  <2> QED
    BY <2>3, <2>4
<1>7. CASE \E p \in Processes : WaitOther(p)
  <2> PICK p \in Processes : WaitOther(p)
    BY <1>7
  <2>1. /\ Passes(p, "wait") /\ fate[Other(p)] \in {"exited", "killed"}
        /\ UNCHANGED <<code, timely, left, fate, handler, blocked, sig_pending, sent, handled>>
    BY DEF WaitOther
  <2>2. /\ at' = [at EXCEPT !["sender"] = @ + 1] /\ at["sender"] = 5
        /\ fate["sender"] = "running" /\ fate["receiver"] \in {"exited", "killed"}
    BY <1>t, <1>p, <2>1, Expand_Places DEF Other
  <2> QED
    BY <1>t, <2>1, <2>2 DEF ExpandTime
<1>8. CASE \E p \in Processes : SignalExit(p)
  <2> PICK p \in Processes : SignalExit(p)
    BY <1>8
  <2>1. /\ fate[p] = "running" /\ fate' = [fate EXCEPT ![p] = "exited"]
        /\ p = "receiver" => Deliverable = {}
        /\ UNCHANGED <<code, timely, at, left, handler, blocked, sig_pending, sent, handled>>
    BY DEF SignalExit, Ends
  <2>2. at[p] = 6
    <3>1. PICK k \in 1 .. 32 : at[p] = k
      BY <1>t
    <3>2. k > Len(code.code[p])
      BY <3>1, Zenon DEF SignalExit
    <3>3. k > 5
      BY <1>l, <3>2
    <3>4. at["receiver"] \in 1 .. 6 /\ at["sender"] \in 1 .. 6
      BY DEF ExpandTime
    <3> QED
      BY <3>1, <3>3, <3>4
  <2>3. CASE p = "receiver"
    <3>1. blocked = {} /\ sig_pending = {}
      BY <1>t, <2>1, <2>2, <2>3 DEF ExpandTime, Deliverable
    <3> QED
      BY <1>t, <2>1, <2>2, <2>3, <3>1 DEF ExpandTime
  <2>4. CASE p = "sender"
    <3>1. fate["receiver"] # "running"
      BY <1>t, <2>1, <2>2, <2>4 DEF ExpandTime
    <3> QED
      BY <1>t, <2>1, <2>2, <2>4, <3>1 DEF ExpandTime
  <2> QED
    BY <2>3, <2>4
<1>9. CASE Deliver
  <2>1. PICK s \in Deliverable :
           /\ sig_pending' = sig_pending \ {s}
           /\ s \in handler => /\ handled' = handled + 1 /\ UNCHANGED fate
                              /\ left' = [left EXCEPT !["receiver"] = 0]
           /\ UNCHANGED <<code, timely, at, handler, blocked, sent>>
    BY <1>9, <1>t DEF Deliver
  <2>2. fate["receiver"] = "running" /\ s = "USR1" /\ sig_pending = {"USR1"} /\ s \notin blocked
    BY <1>t DEF Deliverable
  <2>3. sent > 0
    BY <1>t, <1>e, <2>2
  <2>4. at["receiver"] = 6 /\ handler = {"USR1"}
    BY <1>t, <2>2, <2>3 DEF ExpandTime
  <2> QED
    BY <1>t, <2>1, <2>2, <2>4 DEF ExpandTime
<1>10. CASE SendByUser
  <2>1. code.code["sender"] = <<>>
    BY <1>10 DEF SendByUser
  <2> QED
    BY <1>l, <2>1
<1>11. CASE SecondPasses
  <2>1. /\ left' = [p \in Processes |-> IF left[p] > 0 THEN left[p] - 1 ELSE 0]
        /\ Idle("receiver") /\ Idle("sender")
        /\ UNCHANGED <<code, timely, at, fate, handler, blocked, sig_pending, sent, handled>>
    BY <1>11, <1>t DEF SecondPasses
  <2>2. /\ fate["receiver"] # "running" \/ left["receiver"] > 0
        /\ fate["sender"] # "running" \/ left["sender"] > 0 \/ at["sender"] = 5
    <3>1. /\ ~Before("receiver", "forever") /\ ~Before("sender", "forever")
          /\ ~Before("receiver", "wait") /\ (Before("sender", "wait") => at["sender"] = 5)
      BY <1>t, Expand_Places
    <3> QED
      BY <2>1, <3>1 DEF Idle
  <2> QED
    BY <1>t, <2>1, <2>2 DEF ExpandTime
<1>12. CASE UNCHANGED signalVars
    BY <1>12 DEF signalVars, ExpandTime
<1> QED
    BY <1>1, <1>2, <1>3, <1>4, <1>5, <1>6, <1>7, <1>8, <1>9, <1>10, <1>11, <1>12,
       <1>t DEF SignalNext, Acts

\* Every step keeps the inductive invariant.
LEMMA SignalStep == SignalInv /\ [SignalNext]_signalVars => SignalInv'
<1> SUFFICES ASSUME SignalInv, [SignalNext]_signalVars PROVE SignalInv'
    OBVIOUS
<1>1. (SignalTypeOK /\ Accounted /\ Installed /\ Born)'
    BY CommonStep, InstalledStep DEF SignalInv
<1>2. UNCHANGED <<code, timely>>
    BY DEF SignalNext, Acts, StartSleep, Install, SetMask, Check, ForkOther, Kill,
           WaitOther, SignalExit, Deliver, SendByUser, SecondPasses, signalVars
<1>3. code = Ex_4 => Ex4Order' /\ (timely => Ex4Time')
    BY <1>2, Ex4Step DEF SignalInv
<1>4. code = Ex_4_expand /\ timely => ExpandTime'
    BY ExpandStep DEF SignalInv
<1> QED
    BY <1>1, <1>2, <1>3, <1>4 DEF SignalInv

\* At first nothing is sent, and only the parent runs.
LEMMA SignalBegins == SignalInit => SignalInv
<1> SUFFICES ASSUME SignalInit PROVE SignalInv
    OBVIOUS
<1> USE DEF Processes
<1>1. /\ code \in SignalPrograms /\ timely \in BOOLEAN
      /\ at \in [Processes -> 1 .. 32] /\ at["receiver"] = 1 /\ at["sender"] = 1
      /\ left \in [Processes -> 0 .. 5] /\ left["receiver"] = 0 /\ left["sender"] = 0
      /\ handler = {} /\ blocked = {} /\ sig_pending = {}
      /\ sent = 0 /\ handled = 0
    BY DEF SignalInit
<1>2. /\ fate \in [Processes -> {"unborn", "running", "exited", "killed"}]
      /\ \A p \in Processes : fate[p] = IF p = code.parent THEN "running" ELSE "unborn"
    BY DEF SignalInit
<1>3. code.parent \in Processes
  <2>1. CASE code \in {Ex_4, Ex_4_expand}
    BY <2>1, Ex_4_Table, Expand_Table
  <2>2. CASE code \notin {Ex_4, Ex_4_expand}
    BY <1>1, <2>2, UserTable
  <2> QED
    BY <2>1, <2>2
<1>4. SignalTypeOK
    BY <1>1, <1>2 DEF SignalTypeOK
<1>5. Accounted /\ Installed
    BY <1>1, <1>2, FS_EmptySet DEF Accounted, Installed
<1>6. Born
    BY <1>2, <1>3 DEF Born, Other
<1>7. code = Ex_4 => Ex4Order /\ Ex4Time
    BY <1>1, <1>2, Ex_4_Table DEF Ex4Order, Ex4Time
<1>8. code = Ex_4_expand => ExpandTime
    BY <1>1, <1>2, Expand_Table DEF ExpandTime
<1> QED
    BY <1>4, <1>5, <1>6, <1>7, <1>8 DEF SignalInv

\* The invariant says what becomes of the signals.
LEMMA SignalsAreAccounted == SignalInv => SignalsAccounted
<1> SUFFICES ASSUME SignalInv PROVE SignalsAccounted
    OBVIOUS
<1> USE DEF Processes
<1>1. /\ sent \in Nat /\ handled \in Nat /\ sig_pending \subseteq code.signals
      /\ fate \in [Processes -> {"unborn", "running", "exited", "killed"}]
      /\ code \in SignalPrograms /\ DOMAIN fate = Processes
    BY DEF SignalInv, SignalTypeOK
<1>2. IsFiniteSet(sig_pending)
  <2>1. CASE code \in {Ex_4, Ex_4_expand}
    <3>1. code.signals = {"USR1"}
      BY <2>1, Ex_4_Table, Expand_Table
    <3> QED
      BY <1>1, <3>1, FS_Singleton, FS_Subset
  <2>2. CASE code \notin {Ex_4, Ex_4_expand}
    BY <1>1, <2>2, UserTable, FS_Subset
  <2> QED
    BY <2>1, <2>2
<1>3. Cardinality(sig_pending) \in Nat /\ handled + Cardinality(sig_pending) <= sent
    BY <1>2, FS_CardinalityType DEF SignalInv, Accounted
<1>4. handled <= sent
    BY <1>1, <1>3
<1>5. Over /\ code = Ex_4 => handled \in 1 .. 2
    BY <1>1, <1>4 DEF SignalInv, Ex4Order, Over
<1>6. Over /\ timely /\ code = Ex_4_expand => handled = 1 /\ fate["receiver"] = "exited"
    BY <1>1 DEF SignalInv, ExpandTime, Over
<1> QED
    BY <1>1, <1>4, <1>5, <1>6 DEF SignalInv, Accounted, SignalsAccounted

\* In every program about signals the handler runs at most once for each signal,
\* the first is handled, pending or fatal and never lost, and a signal kills
\* only before its handler is installed: once one was handled, only in
\* asm_4/ex_1 and between its two calls of signal().  The child of Ex_4_expand
\* handles its signal if the sleeps are in time.
THEOREM NoFirstSignalLost == ShellSafeSpec => []SignalsAccounted
<1>1. ShellInit => SignalInv
    BY SignalBegins DEF ShellInit
<1> QED
    BY <1>1, SignalStep, SignalsAreAccounted, ShellSteps, PTL DEF ShellSafeSpec

\* If the sleeps of Ex_4 are in time, its two signals always become one: the
\* second, which ex_4.c:55 sleeps for, is not received in any run in which both
\* processes have existed and ended.
THEOREM SecondNeverReceived ==
    ShellSafeSpec => [](Over /\ timely /\ code = Ex_4 => handled = 1)
<1>1. ShellInit => SignalInv
    BY SignalBegins DEF ShellInit
<1>2. SignalInv => (Over /\ timely /\ code = Ex_4 => handled = 1)
    BY DEF SignalInv, SignalTypeOK, Ex4Order, Ex4Time, Over, Processes
<1> QED
    BY <1>1, <1>2, SignalStep, ShellSteps, PTL DEF ShellSafeSpec
-------------------------------------------------------------------------------
\* The variables of all the programs keep their types.
THEOREM ShellTypesHold == ShellSafeSpec => []TypesOK
<1> DEFINE AllInv == /\ Inv /\ EchoInv /\ SignalInv /\ TreeInv /\ LockInv /\ LifeInv
                     /\ QueueInv /\ CounterInv /\ started \in ProgramNames
<1>1. ShellInit => AllInv
    BY InitInv, EchoBegins, SignalBegins, TreeBegins, LockBegins, LifeBegins,
       QueueBegins, CounterInitInv DEF ShellInit
<1>2. [ShellNext]_shellVars => UNCHANGED started
    BY DEF ShellNext, shellVars, AsReaper, AsEcho, AsSignals, AsTree, AsLocks,
           AsModule, AsMessages, AsCounters
<1>3. AllInv /\ [ShellNext]_shellVars => AllInv'
    BY <1>2, ShellSteps, InvStep, EchoStep, SignalStep, TreeKeeps, LockStep, LifeStep,
       QueueStep, CounterStep
<1>4. AllInv => TypesOK
    BY DEF TypesOK, Inv, EchoInv, SignalInv, TreeInv, LockInv, LifeInv, QueueInv,
           CounterInv
<1> QED
    BY <1>1, <1>3, <1>4, PTL DEF ShellSafeSpec
===============================================================================
