------------------------------ MODULE ChildReaper ------------------------------
(***************************************************************************)
(* src/asm_5 /Ex_5/ex_5.c: a parent forks CHILD_COUNT children, which sleep *)
(* and exit; the first one stops itself before that, and the parent sends  *)
(* it SIGCONT after a sleep of its own.  A SIGCHLD handler reaps.          *)
(*                                                                         *)
(* SIGCHLD is raised when a child stops, continues or exits (sa_flags is   *)
(* 0), and is not queued.  A handled signal cuts the sleep of its process  *)
(* short; the user may press ctrl + C, which reaches every process.        *)
(*                                                                         *)
(* Time is modelled by an order: the sleeps are a second or more apart, so *)
(* one that is not cut short ends only after the forks are done and after  *)
(* the processes with shorter sleeps have gone on.                         *)
(***************************************************************************)
EXTENDS Integers

CONSTANTS CHILD_COUNT,   \* 3 in the program
          PRESSES        \* how often the user presses ctrl + C at most

ASSUME ReaperAssumption == /\ CHILD_COUNT \in Nat \ {0}
                           /\ PRESSES \in Nat

Children == 1 .. CHILD_COUNT

VARIABLES parent,      \* where main of the parent stands
          forked,      \* number of children forked so far
          handling,    \* the parent is in handle_sigchld
          sigchld,     \* a SIGCHLD is pending for the parent
          sigint,      \* the processes a SIGINT is pending for, 0 the parent
          presses,     \* how often ctrl + C has been pressed
          child,       \* the state of each child
          unreported   \* the children whose stop, continuation or exit
                       \* waitpid has still to report

childVars == <<child, unreported>>
vars == <<parent, forked, handling, sigchld, sigint, presses, childVars>>

\* Not yet past the sleep, and for the first child not past the stop.
Early == {"unborn", "sleep", "stop"}
Alive(c) == child[c] \notin {"unborn", "zombie", "reaped"}

Init == /\ parent = "fork"
        /\ forked = 0
        /\ handling = FALSE
        /\ sigchld = FALSE
        /\ sigint = {}
        /\ presses = 0
        /\ child = [c \in Children |-> "unborn"]
        /\ unreported = {}
-------------------------------------------------------------------------------
\* main of the parent; it stands still while a handler runs.

\* Mutation: one child too many.
ForkTooMany == /\ parent = "fork" /\ ~handling
               /\ forked' = forked + 1
               /\ child' = [c \in Children |->
                               IF c = forked' THEN "sleep" ELSE child[c]]
               /\ parent' = IF forked' <= CHILD_COUNT THEN "fork" ELSE "sleep"
               /\ UNCHANGED <<handling, sigchld, sigint, presses, unreported>>

Fork == /\ parent = "fork" /\ ~handling
        /\ forked' = forked + 1
        /\ child' = [child EXCEPT ![forked'] = "sleep"]
        /\ parent' = IF forked' < CHILD_COUNT THEN "fork" ELSE "sleep"
        /\ UNCHANGED <<handling, sigchld, sigint, presses, unreported>>

\* fork returns -1: the parent exits and leaves its children to init; the
\* kernel ends a stopped one with SIGHUP.
ForkFails == /\ parent = "fork" /\ ~handling
             /\ parent' = "exit"
             /\ sigchld' = FALSE
             /\ sigint' = sigint \ {0}
             /\ child' = [c \in Children |-> IF child[c] = "stopped"
                                            THEN "zombie" ELSE child[c]]
             /\ unreported' = {}
             /\ UNCHANGED <<forked, handling, presses>>

\* sleep(10) is over, later than the sleeps of all children.
SleepOver == /\ parent = "sleep" /\ ~handling
             /\ \A c \in Children : child[c] \notin Early
             /\ parent' = "kill"
             /\ UNCHANGED <<forked, handling, sigchld, sigint, presses, childVars>>

\* Mutation: SIGCONT is sent to the last child.
ContinueLast == /\ parent = "kill" /\ ~handling
                /\ parent' = "pause"
                /\ UNCHANGED <<forked, handling, sigchld, sigint, presses,
                               childVars>>

\* kill(child_pids[0], SIGCONT) has no effect unless the child is stopped.
Continue == /\ parent = "kill" /\ ~handling
            /\ parent' = "pause"
            /\ IF child[1] = "stopped"
               THEN /\ child' = [child EXCEPT ![1] = "usr1"]
                    /\ unreported' = unreported \cup {1}
                    /\ sigchld' = TRUE
               ELSE UNCHANGED <<childVars, sigchld>>
            /\ UNCHANGED <<forked, handling, sigint, presses>>
-------------------------------------------------------------------------------
\* The handlers of the parent.

\* A sleep does not go on after a handler has run, unless it had not begun.
Interrupted == \/ parent' = parent
               \/ parent = "sleep" /\ parent' = "kill"

\* functionCallHandler is called for SIGCHLD, which is blocked meanwhile.
EnterHandler == /\ sigchld /\ ~handling
                /\ handling' = TRUE
                /\ sigchld' = FALSE
                /\ UNCHANGED <<parent, forked, sigint, presses, childVars>>

\* What waitpid does with the report of a child.
Report(c) == /\ unreported' = unreported \ {c}
             /\ child' = [child EXCEPT ![c] = IF @ = "zombie" THEN "reaped" ELSE @]

\* Mutation: the handler asks once per signal.
ReapOne == /\ handling
           /\ \E c \in unreported : Report(c)
           /\ handling' = FALSE
           /\ Interrupted
           /\ UNCHANGED <<forked, sigchld, sigint, presses>>

\* waitpid(-1, WNOHANG | WUNTRACED | WCONTINUED) reports one of the children;
\* the handler asks again.
Reap == /\ handling
        /\ \E c \in unreported : Report(c)
        /\ UNCHANGED <<parent, forked, handling, sigchld, sigint, presses>>

\* waitpid has nothing to report: the handler returns.
LeaveHandler == /\ handling
                /\ unreported = {}
                /\ handling' = FALSE
                /\ Interrupted
                /\ UNCHANGED <<forked, sigchld, sigint, presses, childVars>>

\* sigint_handler prints, also on top of the other handler.
HandleSigint == /\ 0 \in sigint
                /\ sigint' = sigint \ {0}
                /\ Interrupted
                /\ UNCHANGED <<forked, handling, sigchld, presses, childVars>>

Parent == \/ Fork \/ ForkFails \/ SleepOver \/ Continue
          \/ EnterHandler \/ Reap \/ LeaveHandler \/ HandleSigint
-------------------------------------------------------------------------------
\* The children.

ChildMoves(c, from, to) == /\ child[c] = from
                           /\ child' = [child EXCEPT ![c] = to]

\* A change of state that the parent, if it is still there, is told of.
Announce(c) == /\ unreported' = IF parent = "exit" THEN unreported
                                ELSE unreported \cup {c}
               /\ sigchld' = (parent # "exit")

Awake(c) == ChildMoves(c, "sleep", IF c = 1 THEN "stop" ELSE "usr1")

\* sleep(3 + i) is over, later than those of the children before.
ChildSleepOver(c) == /\ Awake(c)
                     /\ parent # "fork"
                     /\ \A b \in 1 .. c - 1 : child[b] \notin Early
                     /\ UNCHANGED <<parent, forked, handling, sigchld, sigint,
                                    presses, unreported>>

\* The inherited sigint_handler runs in the child (a stopped child has to be
\* continued first).
ChildSigint(c) == /\ c \in sigint /\ Alive(c) /\ child[c] # "stopped"
                  /\ sigint' = sigint \ {c}
                  /\ Awake(c) \/ UNCHANGED child
                  /\ UNCHANGED <<parent, forked, handling, sigchld, presses,
                                 unreported>>

\* raise(SIGSTOP), first child only.
Stop == /\ ChildMoves(1, "stop", "stopped")
        /\ Announce(1)
        /\ UNCHANGED <<parent, forked, handling, sigint, presses>>

\* raise(SIGUSR1), whose handler prints.
RaiseUsr1(c) == /\ ChildMoves(c, "usr1", "exit")
                /\ UNCHANGED <<parent, forked, handling, sigchld, sigint,
                               presses, unreported>>

\* exit(10 + i).
ChildExit(c) == /\ ChildMoves(c, "exit", "zombie")
                /\ Announce(c)
                /\ UNCHANGED <<parent, forked, handling, sigint, presses>>

\* The orphans of a parent that has exited are reaped by init.
InitReaps(c) == /\ parent = "exit"
                /\ ChildMoves(c, "zombie", "reaped")
                /\ UNCHANGED <<parent, forked, handling, sigchld, sigint,
                               presses, unreported>>

Child(c) == \/ ChildSleepOver(c) \/ ChildSigint(c) \/ (c = 1 /\ Stop)
            \/ RaiseUsr1(c) \/ ChildExit(c) \/ InitReaps(c)
-------------------------------------------------------------------------------
\* ctrl + C: SIGINT to every process of the program.
Press == /\ parent # "exit"
         /\ presses < PRESSES
         /\ presses' = presses + 1
         /\ sigint' = sigint \cup {0} \cup {c \in Children : Alive(c)}
         /\ UNCHANGED <<parent, forked, handling, sigchld, childVars>>

Next == Parent \/ (\E c \in Children : Child(c)) \/ Press

\* The parent and each child go on whenever they can; nobody has to press
\* ctrl + C, and forks need not fail.
Fairness == WF_vars(Parent) /\ \A c \in Children : WF_vars(Child(c))

SafeSpec == Init /\ [][Next]_vars
Spec == SafeSpec /\ Fairness
===============================================================================
