---------------------------- MODULE BlockedSignals ----------------------------
(***************************************************************************)
(* The programs about signal handlers and masks: src/asm_4/ex_1, Ex_1 to   *)
(* Ex_4 of src/asm_5, src/asm_6/ex_3.  One process, the receiver, installs *)
(* its handler for one signal after the other, blocks signals, or does     *)
(* both; the user sends it signals, or a parent or child of its own does.  *)
(*                                                                         *)
(* A program is what it does between its sleeps, whose seconds are those   *)
(* of the source.  `timely' says that every process goes on in the second  *)
(* in which its sleep ends; on a busy system it may be any amount later.   *)
(***************************************************************************)
EXTENDS Integers, Sequences

CONSTANT SENDS   \* how often the user sends a signal at most

ASSUME SignalsAssumption == SENDS \in Nat

Sleep(n) == <<"sleep", n>>
Do(op) == <<op, 0>>
Handle(s) == <<"install", s>>   \* one call of signal()

\* The user sends any of the signals; a handler called for a fatal one exits.
ByUser(signals, fatal, receiver) ==
    [signals |-> signals, fatal |-> fatal, parent |-> "receiver",
     code |-> [receiver |-> receiver, sender |-> <<>>]]

\* One of the two processes forks the other.
ByProcess(parent, receiver, sender) ==
    [signals |-> {"USR1"}, fatal |-> {}, parent |-> parent,
     code |-> [receiver |-> receiver, sender |-> sender]]

asm_4_ex_1 == ByUser({"USR1", "USR2"}, {"USR2"},
                     <<Handle("USR1"), Handle("USR2"), Do("forever")>>)
Ex_1 == ByUser({"INT"}, {}, <<Handle("INT"), Do("forever")>>)
Ex_2 == ByUser({"INT", "TERM", "QUIT"}, {},
               <<Do("block"), Sleep(3), Sleep(3), Do("unblock"), Do("forever")>>)
Ex_3 == ByUser({"INT"}, {}, <<Do("block"), Sleep(5), Do("check"), Do("forever")>>)
Ex_4 == ByProcess("receiver",
            <<Handle("USR1"), Do("block"), Do("fork"), Sleep(5), Do("unblock"),
              Sleep(3), Do("wait")>>,
            <<Sleep(1), Do("kill"), Sleep(3), Do("kill")>>)
Ex_4_expand == ByProcess("sender",
            <<Sleep(1), Handle("USR1"), Do("block"), Sleep(3), Do("unblock")>>,
            <<Do("fork"), Sleep(2), Do("kill"), Sleep(5), Do("wait")>>)
asm_6_ex_3 == ByUser({"INT"}, {"INT"}, <<Handle("INT")>> \o [r \in 1 .. 30 |-> Sleep(2)])

SignalPrograms == {asm_4_ex_1, Ex_1, Ex_2, Ex_3, Ex_4, Ex_4_expand, asm_6_ex_3}

Other(p) == IF p = "receiver" THEN "sender" ELSE "receiver"

VARIABLES code,          \* the program that is run
          timely,        \* see above
          at,            \* where each process stands in it
          left,          \* the seconds left of its sleep
          fate,          \* "unborn", "running", "exited" or "killed"
          handler,       \* the signals the receiver has installed its handler for
          blocked,       \* the signals it blocks
          sig_pending,   \* the signals pending for it
          sent, handled  \* the signals sent to it, and its handler's calls

signalVars == <<code, timely, at, left, fate, handler, blocked, sig_pending, sent, handled>>

SignalInit == /\ code \in SignalPrograms
              /\ timely \in BOOLEAN
              /\ at = [p \in {"receiver", "sender"} |-> 1]
              /\ left = [p \in {"receiver", "sender"} |-> 0]
              /\ fate = [p \in {"receiver", "sender"} |->
                            IF p = code.parent THEN "running" ELSE "unborn"]
              /\ handler = {}
              /\ blocked = {} /\ sig_pending = {}
              /\ sent = 0 /\ handled = 0
-------------------------------------------------------------------------------
Deliverable == IF fate["receiver"] = "running" THEN sig_pending \ blocked ELSE {}

\* p stands before op, and no signal has to be delivered first.
Before(p, op) == /\ fate[p] = "running" /\ left[p] = 0
                 /\ p = "receiver" => Deliverable = {}
                 /\ at[p] <= Len(code.code[p])
                 /\ code.code[p][at[p]][1] = op
Passes(p, op) == Before(p, op) /\ at' = [at EXCEPT ![p] = @ + 1]
Ends(p, how) == fate' = [fate EXCEPT ![p] = how]

StartSleep(p) == /\ Passes(p, "sleep")
                 /\ left' = [left EXCEPT ![p] = code.code[p][at[p]][2]]
                 /\ UNCHANGED <<code, timely, fate, handler, blocked,
                                sig_pending, sent, handled>>

\* signal() for one signal; the next one is a step of its own.
Install == /\ Passes("receiver", "install")
           /\ \E s \in code.signals : /\ code.code["receiver"][at["receiver"]] = Handle(s)
                                      /\ handler' = handler \cup {s}
           /\ UNCHANGED <<code, timely, left, fate, blocked, sig_pending, sent, handled>>

\* Mutation: SIG_BLOCK in both places.
SetMaskAlways == /\ \/ Passes("receiver", "block") /\ blocked' = code.signals
                    \/ Passes("receiver", "unblock") /\ blocked' = code.signals
                 /\ UNCHANGED <<code, timely, left, fate, handler, sig_pending, sent, handled>>

\* sigprocmask; pending signals are delivered before anything else is done.
SetMask == /\ \/ Passes("receiver", "block") /\ blocked' = code.signals
              \/ Passes("receiver", "unblock") /\ blocked' = {}
           /\ UNCHANGED <<code, timely, left, fate, handler, sig_pending, sent, handled>>

\* Ex_3 exits when sigpending finds a signal.
Check == /\ Passes("receiver", "check")
         /\ IF sig_pending = {} THEN UNCHANGED fate ELSE Ends("receiver", "exited")
         /\ UNCHANGED <<code, timely, left, handler, blocked, sig_pending, sent, handled>>

\* fork; when it fails the program exits.
ForkOther(p) == /\ Passes(p, "fork")
                /\ Ends(Other(p), "running") \/ Ends(p, "exited")
                /\ UNCHANGED <<code, timely, left, handler, blocked, sig_pending, sent, handled>>

\* A signal that is pending already is not queued; one that is sent to a
\* process that has ended does nothing.
Send(s) == IF fate["receiver"] = "running"
           THEN sent' = sent + 1 /\ sig_pending' = sig_pending \cup {s}
           ELSE UNCHANGED <<sent, sig_pending>>

Kill == /\ Passes("sender", "kill")
        /\ Send("USR1")
        /\ UNCHANGED <<code, timely, left, fate, handler, blocked, handled>>

\* wait(NULL) returns when the other process has ended.
WaitOther(p) == /\ Passes(p, "wait")
                /\ fate[Other(p)] \in {"exited", "killed"}
                /\ UNCHANGED <<code, timely, left, fate, handler, blocked,
                               sig_pending, sent, handled>>

SignalExit(p) == /\ fate[p] = "running" /\ left[p] = 0
                 /\ p = "receiver" => Deliverable = {}
                 /\ at[p] > Len(code.code[p])
                 /\ Ends(p, "exited")
                 /\ UNCHANGED <<code, timely, at, left, handler, blocked,
                                sig_pending, sent, handled>>

\* Mutation: signal() installs a handler for one call only, as in System V.
DeliverOnce == \E s \in Deliverable :
               /\ sig_pending' = sig_pending \ {s}
               /\ handler' = handler \ {s}
               /\ IF s \in handler
                  THEN /\ handled' = handled + 1
                       /\ left' = [left EXCEPT !["receiver"] = 0]
                       /\ IF s \in code.fatal THEN Ends("receiver", "exited")
                                              ELSE UNCHANGED fate
                  ELSE Ends("receiver", "killed") /\ UNCHANGED <<handled, left>>
               /\ UNCHANGED <<code, timely, at, blocked, sent>>

\* A signal that is not blocked interrupts the sleep by its handler, or kills.
Deliver == \E s \in Deliverable :
           /\ sig_pending' = sig_pending \ {s}
           /\ IF s \in handler
              THEN /\ handled' = handled + 1
                   /\ left' = [left EXCEPT !["receiver"] = 0]
                   /\ IF s \in code.fatal THEN Ends("receiver", "exited")
                                          ELSE UNCHANGED fate
              ELSE Ends("receiver", "killed") /\ UNCHANGED <<handled, left>>
           /\ UNCHANGED <<code, timely, at, handler, blocked, sent>>

Acts(p) == \/ StartSleep(p) \/ ForkOther(p) \/ WaitOther(p) \/ SignalExit(p)
           \/ p = "receiver" /\ (Install \/ SetMask \/ Check \/ Deliver)
           \/ p = "sender" /\ Kill

SendByUser == /\ code.code["sender"] = <<>>
              /\ sent < SENDS
              /\ \E s \in code.signals : Send(s)
              /\ UNCHANGED <<code, timely, at, left, fate, handler, blocked, handled>>

\* p has nothing to do before a second has passed or the other one has acted.
Idle(p) == \/ fate[p] # "running" \/ left[p] > 0
           \/ Before(p, "forever")
           \/ Before(p, "wait") /\ fate[Other(p)] = "running"

\* A second passes for all sleepers.
SecondPasses == /\ \E p \in DOMAIN left : left[p] > 0
                /\ timely => Deliverable = {} /\ \A p \in DOMAIN left : Idle(p)
                /\ left' = [p \in DOMAIN left |-> IF left[p] > 0 THEN left[p] - 1 ELSE 0]
                /\ UNCHANGED <<code, timely, at, fate, handler, blocked,
                               sig_pending, sent, handled>>

SignalNext == (\E p \in DOMAIN at : Acts(p)) \/ SendByUser \/ SecondPasses
SignalSpec == SignalInit /\ [][SignalNext]_signalVars
-------------------------------------------------------------------------------
\* The variables keep their types.
SignalTypeOK == /\ code \in SignalPrograms /\ timely \in BOOLEAN
                /\ at \in [{"receiver", "sender"} -> 1 .. 32]
                /\ left \in [{"receiver", "sender"} -> 0 .. 5]
                /\ fate \in [{"receiver", "sender"} ->
                                {"unborn", "running", "exited", "killed"}]
                /\ handler \subseteq code.signals
                /\ blocked \in {{}, code.signals}
                /\ sig_pending \subseteq code.signals
                /\ sent \in Nat /\ handled \in Nat

Over == \A p \in DOMAIN fate : fate[p] \in {"exited", "killed"}

\* What becomes of the signals: they collapse, so that the handler runs at
\* most once for each, but the first is handled, pending or fatal, never lost.
\* A signal kills only a receiver that has a handler yet to install, and after
\* one was handled only in asm_4/ex_1, between its two calls of signal().  Of
\* the two signals of Ex_4 at least one is handled; the one of Ex_4_expand is
\* handled if the sleeps are in time.  A late child of Ex_4_expand is killed
\* before it has installed the handler, or gone before the signal comes.
SignalsAccounted ==
    /\ handled <= sent
    /\ fate["receiver"] = "running" /\ sent > 0 => handled > 0 \/ sig_pending # {}
    /\ fate["receiver"] = "killed" =>
           /\ ~(code.signals \subseteq handler)
           /\ handled > 0 => code = asm_4_ex_1 /\ handler = {"USR1"}
    /\ Over /\ code = Ex_4 => handled \in 1 .. 2
    /\ Over /\ timely /\ code = Ex_4_expand =>
           handled = 1 /\ fate["receiver"] = "exited"

\* "sleep for ensuring having time for receving second signal from process B
\* after unblocking" (Ex_4/ex_4.c:55): the parent of Ex_4 receives both signals
\* of its child, if the sleeps are in time.  It does not: both are sent before
\* it unblocks them, and two pending signals are one.
SecondSignalReceived == Over /\ timely /\ code = Ex_4 => handled = 2

\* A pending signal is delivered or the receiver ends, except in Ex_3 after
\* its check, where SIGINT stays blocked although the program says that it
\* waits for it; and the programs that do not wait for ever end.
SignalsSettle ==
    /\ sig_pending # {} ~> \/ sig_pending = {} \/ fate["receiver"] # "running"
                           \/ code = Ex_3 /\ at["receiver"] = 4
    /\ code \in {Ex_4, Ex_4_expand, asm_6_ex_3} ~> fate[code.parent] # "running"
===============================================================================
