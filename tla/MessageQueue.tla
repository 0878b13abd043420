----------------------------- MODULE MessageQueue -----------------------------
(***************************************************************************)
(* src/asm_5 /message_queue: each run of msg_send.c sends two messages to  *)
(* the queue that the user has made with ipcmk, each run of msg_recv.c     *)
(* takes one and prints it.  Nobody waits (IPC_NOWAIT) and nobody looks at *)
(* a result: a message that finds no room is gone, and a receiver that     *)
(* finds no message prints a text that nobody has put there.               *)
(***************************************************************************)
EXTENDS Integers, Sequences

CONSTANTS SENDERS, RECEIVERS,   \* runs of the two programs
          ROOM                  \* the messages the queue holds

ASSUME QueueAssumption == SENDERS \in Nat /\ RECEIVERS \in Nat /\ ROOM \in Nat \ {0}

VARIABLES made,      \* the queue is there
          queue,     \* the messages in it, the oldest first
          said,      \* how many messages each sender has passed to msgsnd
          dropped,   \* those that msgsnd did not take
          texts      \* what the receivers have printed, one after the other

queueVars == <<made, queue, said, dropped, texts>>

\* A message: the run that sends it, and which of its two it is.  Both are
\* longer, with their terminators, than the 20 bytes of the receiver.
Messages == (1 .. SENDERS) \X {1, 2}
length == <<24, 25>>
Text(m) == [of |-> m, whole |-> length[m[2]] <= 20]
Leftovers == [of |-> <<0, 0>>, whole |-> FALSE]

QueueInit == /\ made = FALSE
             /\ queue = <<>>
             /\ said = [s \in 1 .. SENDERS |-> 0]
             /\ dropped = {}
             /\ texts = <<>>

MakeQueue == /\ ~made /\ made' = TRUE
             /\ UNCHANGED <<queue, said, dropped, texts>>

MsgSend(s) == /\ said[s] < 2
              /\ said' = [said EXCEPT ![s] = @ + 1]
              /\ IF made /\ Len(queue) < ROOM
                 THEN queue' = Append(queue, <<s, said'[s]>>) /\ UNCHANGED dropped
                 ELSE dropped' = dropped \cup {<<s, said'[s]>>} /\ UNCHANGED queue
              /\ UNCHANGED <<made, texts>>

\* Mutation: the newest message is taken.
MsgReceiveNewest == /\ Len(texts) < RECEIVERS
                    /\ IF queue = <<>>
                       THEN texts' = Append(texts, Leftovers) /\ UNCHANGED queue
                       ELSE /\ texts' = Append(texts, Text(queue[Len(queue)]))
                            /\ queue' = SubSeq(queue, 1, Len(queue) - 1)
                    /\ UNCHANGED <<made, said, dropped>>

\* msgtyp = 0: the oldest message, cut to what the text has room for.
MsgReceive == /\ Len(texts) < RECEIVERS
              /\ IF queue = <<>>
                 THEN texts' = Append(texts, Leftovers) /\ UNCHANGED queue
                 ELSE texts' = Append(texts, Text(Head(queue))) /\ queue' = Tail(queue)
              /\ UNCHANGED <<made, said, dropped>>

QueueNext == MakeQueue \/ (\E s \in 1 .. SENDERS : MsgSend(s)) \/ MsgReceive
-------------------------------------------------------------------------------
\* The variables keep their types.
QueueTypeOK == /\ made \in BOOLEAN
               /\ queue \in Seq(Messages) /\ Len(queue) <= ROOM
               /\ said \in [1 .. SENDERS -> 0 .. 2]
               /\ dropped \subseteq Messages
               /\ texts \in Seq({Leftovers} \cup {Text(m) : m \in Messages})

Printed == {texts[k].of : k \in DOMAIN texts}

\* No message is lost on the way but those that found no room, and none is
\* printed twice: the second message of a run shows that the first was printed
\* before it, or dropped.  No receiver ever prints a text that ends where the
\* sender ended it: each is cut before its terminator, or left over.
MessagesAccounted ==
    /\ {m \in Messages : m[2] <= said[m[1]]} =
           dropped \cup (Printed \ {<<0, 0>>}) \cup {queue[k] : k \in DOMAIN queue}
    /\ \A j, k \in DOMAIN texts :
           /\ texts[j].of = texts[k].of => j = k \/ texts[j] = Leftovers
           /\ texts[j].of[1] = texts[k].of[1] /\ j < k => texts[j].of[2] <= texts[k].of[2]
    /\ \A s \in 1 .. SENDERS :
           <<s, 2>> \in Printed => <<s, 1>> \in Printed \cup dropped
    /\ \A k \in DOMAIN texts : ~texts[k].whole
===============================================================================
