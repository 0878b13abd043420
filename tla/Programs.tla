------------------------------- MODULE Programs -------------------------------
(***************************************************************************)
(* A shell with the smaller programs of the repository, one of which is    *)
(* started.  They share nothing, so a behaviour of one of them is all there *)
(* is to see; the others stay as they are.  What is fair in a program is   *)
(* fair here while that program runs.                                      *)
(***************************************************************************)
EXTENDS ChildReaperProps, EpollEcho, BlockedSignals, ProcessTree, LockOrder,
        ModuleLife, MessageQueue, SharedCounter

VARIABLE started   \* the program that runs

ProgramNames == {"reaper", "echo", "signals", "tree", "locks", "module", "messages",
                 "counters"}

shellVars == <<started, vars, echoVars, signalVars, treeVars, lockVars, lifeVars,
               queueVars, counterVars>>

AsReaper(A) == /\ started = "reaper" /\ A
               /\ UNCHANGED <<started, echoVars, signalVars, treeVars, lockVars,
                              lifeVars, queueVars, counterVars>>
AsEcho(A) == /\ started = "echo" /\ A
             /\ UNCHANGED <<started, vars, signalVars, treeVars, lockVars,
                            lifeVars, queueVars, counterVars>>
AsSignals(A) == /\ started = "signals" /\ A
                /\ UNCHANGED <<started, vars, echoVars, treeVars, lockVars,
                               lifeVars, queueVars, counterVars>>
AsTree(A) == /\ started = "tree" /\ A
             /\ UNCHANGED <<started, vars, echoVars, signalVars, lockVars,
                            lifeVars, queueVars, counterVars>>
AsLocks(A) == /\ started = "locks" /\ A
              /\ UNCHANGED <<started, vars, echoVars, signalVars, treeVars,
                             lifeVars, queueVars, counterVars>>
AsModule(A) == /\ started = "module" /\ A
               /\ UNCHANGED <<started, vars, echoVars, signalVars, treeVars,
                              lockVars, queueVars, counterVars>>
AsMessages(A) == /\ started = "messages" /\ A
                 /\ UNCHANGED <<started, vars, echoVars, signalVars, treeVars,
                                lockVars, lifeVars, counterVars>>
AsCounters(A) == /\ started = "counters" /\ A
                 /\ UNCHANGED <<started, vars, echoVars, signalVars, treeVars,
                                lockVars, lifeVars, queueVars>>

\* A program that is not started needs only one of its initial states.
ShellInit ==
    /\ Init /\ EchoInit /\ SignalInit /\ TreeInit /\ LockInit /\ LifeInit
    /\ QueueInit /\ CounterInit
    /\ started \in ProgramNames
    /\ started # "signals" => code = Ex_1 /\ timely
    /\ started # "tree" => shape = asm_6_ex_1
    /\ started # "module" => driver = tasklet
    /\ started # "counters" => program = mutex

ShellNext == \/ AsReaper(Next) \/ AsEcho(EchoNext) \/ AsSignals(SignalNext)
             \/ AsTree(TreeNext) \/ AsLocks(LockNext) \/ AsModule(LifeNext)
             \/ AsMessages(QueueNext) \/ AsCounters(CounterNext)

\* A program that can go on does: seconds pass, some process or thread takes
\* its next step; no fork has to fail, nobody has to type, press a key, send a
\* signal, load a module or open a file.  The parent and the children of the
\* reaper each go on when they can.
Going == \/ AsEcho(EchoLoop)
         \/ AsSignals(SecondPasses \/ \E p \in DOMAIN at : Acts(p))
         \/ AsTree(TreeNext)
         \/ AsLocks(LockNext)
         \/ AsModule(LifeFunction \/ RunDeferred)
         \/ AsCounters(CounterNext)

ShellFairness == /\ WF_shellVars(Going)
                 /\ WF_shellVars(AsReaper(Parent))
                 /\ \A c \in Children : WF_shellVars(AsReaper(Child(c)))

ShellSafeSpec == ShellInit /\ [][ShellNext]_shellVars
ShellSpec == ShellSafeSpec /\ ShellFairness

\* The types of all the programs.
TypesOK == /\ TypeOK /\ EchoTypeOK /\ SignalTypeOK /\ TreeTypeOK /\ LockTypeOK
           /\ LifeTypeOK /\ QueueTypeOK /\ CounterTypeOK
           /\ started \in ProgramNames

\* The promises of the single programs, of the runs of that program.
ReaperReapsAll == started = "reaper" => AllReaped /\ ZombiesReaped
TreeTerminates == started = "tree" => AllTerminated
LocksEnd == started = "locks" => EndsOrLocksUp
SignalsEnd == started = "signals" => SignalsSettle
CountersEnd == started = "counters" => <>(main = "exit")
===============================================================================
