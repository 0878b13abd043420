------------------------------- MODULE EpollEcho -------------------------------
(***************************************************************************)
(* src/asm_4/ex_3_socketpair/ex_3.c: one thread waits with epoll for its   *)
(* input and for sv[1], writes what it reads from the input to sv[0], and  *)
(* prints what comes out at sv[1].                                         *)
(*                                                                         *)
(* The bytes are numbered in the order they are typed.  Both descriptors   *)
(* are level-triggered; sv[0] blocks when the socket is full, and nobody   *)
(* but the thread itself could empty it.                                   *)
(***************************************************************************)
EXTENDS Integers, Sequences

CONSTANTS BUF_SIZE,   \* 1024 in the program, one byte of it for the '\0'
          CAPACITY,   \* how many bytes the socket holds
          TYPED       \* how many bytes are typed at most

ASSUME EchoAssumption == /\ BUF_SIZE \in Nat \ {0, 1}
                         /\ CAPACITY \in Nat /\ CAPACITY >= 2 * (BUF_SIZE - 1)
                         /\ TYPED \in Nat

VARIABLES echo,      \* "loop", "write", or "closed" after the loop
          events,    \* the descriptors epoll_wait reported, not yet handled
          typed,     \* the number of bytes typed
          eof,       \* the input has been closed by the other side
          input,     \* what is typed and not yet read
          buf,       \* what is read and not yet written
          socket,    \* what is written and not yet read at sv[1]
          printed    \* what is printed as a message from the socket

echoVars == <<echo, events, typed, eof, input, buf, socket, printed>>

Fds == {"stdin", "sv[1]"}

EchoInit == /\ echo = "loop"
            /\ events = {}
            /\ typed = 0
            /\ eof = FALSE
            /\ input = <<>> /\ buf = <<>> /\ socket = <<>> /\ printed = <<>>
-------------------------------------------------------------------------------
Readable == {fd \in Fds : IF fd = "stdin" THEN eof \/ input # <<>>
                                         ELSE socket # <<>>}

\* epoll_wait: MAX_EVENTS is the number of descriptors.
EpollWait == /\ echo = "loop" /\ events = {}
             /\ Readable # {}
             /\ events' = Readable
             /\ UNCHANGED <<echo, typed, eof, input, buf, socket, printed>>

\* epoll_wait returns -1 when the job is stopped and continued while nothing
\* can be read; the loop is left and everything closed.
WaitInterrupted == /\ echo = "loop" /\ events = {}
                   /\ Readable = {}
                   /\ echo' = "closed"
                   /\ UNCHANGED <<events, typed, eof, input, buf, socket, printed>>

\* A read takes no more than is there and than sizeof(buf) - 1.
Chunk(s) == IF Len(s) < BUF_SIZE THEN Len(s) ELSE BUF_SIZE - 1
Rest(s, n) == SubSeq(s, n + 1, Len(s))

\* Mutation: one event per round.
HandledFirst(fd) == /\ echo = "loop" /\ fd \in events
                    /\ events' = {}

\* The loop over the events; the kernel lists them in any order.
Handled(fd) == /\ echo = "loop" /\ fd \in events
               /\ events' = events \ {fd}

\* A terminal hands out one line at a time; at the end of the input read
\* returns 0 each time, and nothing is done.
ReadStdin == /\ Handled("stdin")
             /\ IF input = <<>>
                THEN UNCHANGED <<echo, input, buf>>
                ELSE \E n \in 1 .. Chunk(input) :
                        /\ buf' = SubSeq(input, 1, n)
                        /\ input' = Rest(input, n)
                        /\ echo' = "write"
             /\ UNCHANGED <<typed, eof, socket, printed>>

\* write(sv[0], buf, len)
WriteSocket == /\ echo = "write"
               /\ Len(socket) + Len(buf) <= CAPACITY
               /\ socket' = socket \o buf
               /\ buf' = <<>>
               /\ echo' = "loop"
               /\ UNCHANGED <<events, typed, eof, input, printed>>

\* Mutation: the socket is read byte by byte.
ReadSocketByte == /\ Handled("sv[1]")
                  /\ printed' = Append(printed, socket[1])
                  /\ socket' = Rest(socket, 1)
                  /\ UNCHANGED <<echo, typed, eof, input, buf>>

ReadSocket == /\ Handled("sv[1]")
              /\ printed' = printed \o SubSeq(socket, 1, Chunk(socket))
              /\ socket' = Rest(socket, Chunk(socket))
              /\ UNCHANGED <<echo, typed, eof, input, buf>>

EchoLoop == EpollWait \/ ReadStdin \/ WriteSocket \/ ReadSocket

Typing == /\ echo # "closed" /\ ~eof
          /\ \/ /\ typed < TYPED
                /\ typed' = typed + 1
                /\ input' = Append(input, typed')
                /\ UNCHANGED eof
             \/ eof' = TRUE /\ UNCHANGED <<typed, input>>
          /\ UNCHANGED <<echo, events, buf, socket, printed>>

EchoNext == EchoLoop \/ WaitInterrupted \/ Typing
-------------------------------------------------------------------------------
\* The variables keep their types.
EchoTypeOK == /\ echo \in {"loop", "write", "closed"}
              /\ events \subseteq Fds
              /\ typed \in 0 .. TYPED
              /\ eof \in BOOLEAN
              /\ \A s \in {input, buf, socket, printed} : s \in Seq(1 .. typed)
              /\ Len(buf) < BUF_SIZE

\* Nothing typed is lost, doubled or overtaken on its way, not even when the
\* loop ends; and the socket never lacks the room for what the only thread,
\* which alone could make room, is about to write to it.
EchoAccounted == /\ printed \o socket \o buf \o input = [n \in 1 .. typed |-> n]
                 /\ echo = "write" => Len(socket) + Len(buf) <= CAPACITY
                 /\ echo = "closed" => Len(printed) = typed

\* All that is typed is printed in the end, even while the end of the input
\* keeps the loop spinning.
EchoedInTheEnd == Len(printed) < typed ~> Len(printed) = typed
===============================================================================
