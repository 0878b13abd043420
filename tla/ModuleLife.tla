------------------------------ MODULE ModuleLife ------------------------------
(***************************************************************************)
(* Loading and unloading the kernel modules of the repository: the         *)
(* character devices of src/asm_11, src/asm_4/tasklet and                  *)
(* src/asm_4/workqueue.                                                    *)
(*                                                                         *)
(* A module acquires things one after the other in its init function, gives *)
(* some back when one of them fails, and gives all back in its exit        *)
(* function.  Meanwhile files are opened and closed, interrupts come, and  *)
(* deferred work runs.  Each thing refers to code or data of the module, so *)
(* none should outlive it.                                                 *)
(***************************************************************************)
EXTENDS Integers, Sequences

CONSTANTS LOADS, FILES, INTERRUPTS   \* how many there are at most

ASSUME LifeAssumption == LOADS \in Nat /\ FILES \in Nat /\ INTERRUPTS \in Nat

\* What is acquired, what is given back when one of these fails (a failure
\* not listed there is not looked at), and what exit gives back.
Module(name, init, undo, exit) ==
    [name |-> name, init |-> init, undo |-> undo, exit |-> exit]

\* One device; ex_3 deletes the cdev before it gives the number back.
OneDevice(name, exit) ==
    Module(name, <<"region", "cdev", "class", "device">>,
           [region |-> <<>>, cdev |-> <<"region">>, class |-> <<"region">>,
            device |-> <<"class", "region">>],
           exit)
asm_11_ex_1 == OneDevice("ex_1", <<"device", "class", "region", "cdev">>)
asm_11_ex_2 == OneDevice("ex_2", <<"device", "class", "region", "cdev">>)
asm_11_ex_3 == OneDevice("ex_3", <<"device", "class", "cdev", "region">>)

\* Five devices, of which one is modelled.
ManyDevices(name) == Module(name, <<"region", "class", "cdev", "device">>,
                            [region |-> <<>>, class |-> <<"region">>],
                            <<"device", "cdev", "class", "region">>)
ex_2_multi2 == ManyDevices("ex_2_multi2")

\* The driver stays loaded; ex_2_device.c registers the device that it probes.
ex_2_platform == ManyDevices("ex_2_platform")

tasklet == Module("tasklet", <<"irq">>, [irq |-> <<>>], <<"tasklet", "irq">>)
workqueue == Module("workqueue", <<"work">>, [none |-> <<>>], <<"work">>)

OneDeviceDrivers == {asm_11_ex_1, asm_11_ex_2, asm_11_ex_3}
Drivers == OneDeviceDrivers \cup {ex_2_multi2, ex_2_platform, tasklet, workqueue}

VARIABLES driver,       \* the module
          state,        \* "absent", "init", "undo", "live" or "exit"
          todo,         \* what the function that runs has still to do
          held,         \* what has been acquired and not given back
          failed,       \* what has failed so far
          deferred,     \* the tasklet or work is queued, runs, or both
          files,        \* the number of open files of the device
          leftover,     \* what outlived a module
          loads, interrupts

lifeVars == <<driver, state, todo, held, failed, deferred, files, leftover, loads, interrupts>>

LifeInit == /\ driver \in Drivers
            /\ state = "absent"
            /\ todo = <<>>
            /\ held = {} /\ failed = {} /\ deferred = {} /\ leftover = {}
            /\ files = 0 /\ loads = 0 /\ interrupts = 0
-------------------------------------------------------------------------------
\* A function begins, takes its next step, or is through.
Enter(from, to, steps) == state = from /\ state' = to /\ todo' = steps
NextStep(in) == /\ state \in in /\ todo # <<>>
                 /\ todo' = Tail(todo)
                 /\ UNCHANGED state
Through(from, to) == todo = <<>> /\ Enter(from, to, <<>>)

\* insmod; of the platform device, whose driver waits for it.
Insmod == /\ loads < LOADS
          /\ loads' = loads + 1
          /\ Enter("absent", "init", driver.init)
          /\ UNCHANGED <<driver, held, failed, deferred, files, leftover, interrupts>>

Acquire == /\ NextStep({"init"})
           /\ held' = held \cup {Head(todo)}
           /\ deferred' = IF Head(todo) = "work" THEN {"queued"} ELSE deferred
           /\ UNCHANGED <<driver, failed, files, leftover, loads, interrupts>>

\* Mutation: the jumps for a failing class and a failing device are swapped.
AcquireFailsSwapped ==
    /\ state = "init" /\ todo # <<>>
    /\ Head(todo) \in DOMAIN driver.undo
    /\ Enter("init", "undo",
             IF Head(todo) = "device" THEN <<"region">> ELSE driver.undo[Head(todo)])
    /\ failed' = failed \cup {Head(todo)}
    /\ UNCHANGED <<driver, held, deferred, files, leftover, loads, interrupts>>

\* The goto r_class and r_device, and the early returns.
AcquireFails == /\ state = "init" /\ todo # <<>>
                /\ Head(todo) \in DOMAIN driver.undo
                /\ Enter("init", "undo", driver.undo[Head(todo)])
                /\ failed' = failed \cup {Head(todo)}
                /\ UNCHANGED <<driver, held, deferred, files, leftover, loads, interrupts>>

\* The results of cdev_add and device_create are not looked at.
FailureIgnored == /\ NextStep({"init"})
                  /\ Head(todo) \in {"cdev", "device"} \ DOMAIN driver.undo
                  /\ UNCHANGED <<driver, held, failed, deferred, files, leftover,
                                 loads, interrupts>>

InitDone == /\ Through("init", "live")
            /\ UNCHANGED <<driver, held, failed, deferred, files, leftover, loads, interrupts>>

\* rmmod is refused while files of the module are open (.owner = THIS_MODULE);
\* removing the platform device is not.
Rmmod == /\ files = 0 \/ driver = ex_2_platform
         /\ Enter("live", "exit", driver.exit)
         /\ UNCHANGED <<driver, held, failed, deferred, files, leftover, loads, interrupts>>

\* Giving one thing back; tasklet_kill and flush_work wait for what is queued
\* or runs.
GiveBack == /\ NextStep({"undo", "exit"})
            /\ Head(todo) \in {"tasklet", "work"} => deferred = {}
            /\ held' = held \ {Head(todo)}
            /\ UNCHANGED <<driver, failed, deferred, files, leftover, loads, interrupts>>

\* The memory of the module is freed (that of the platform driver is not).
Gone == /\ \E from \in {"undo", "exit"} : Through(from, "absent")
        /\ leftover' = leftover \cup held \cup (IF deferred = {} THEN {} ELSE {"deferred"})
        /\ held' = {} /\ deferred' = {}
        /\ UNCHANGED <<driver, failed, files, loads, interrupts>>
-------------------------------------------------------------------------------
\* open finds the node and the cdev, unless the module is on its way out.
OpenFile == /\ state \in {"init", "live"} /\ {"cdev", "device"} \subseteq held
            /\ files < FILES
            /\ files' = files + 1
            /\ UNCHANGED <<driver, state, todo, held, failed, deferred, leftover, loads, interrupts>>

CloseFile == /\ files > 0
             /\ files' = files - 1
             /\ UNCHANGED <<driver, state, todo, held, failed, deferred, leftover, loads, interrupts>>

\* interrupt_handler; a tasklet that is queued is not queued again.
Interrupt == /\ "irq" \in held
             /\ interrupts < INTERRUPTS
             /\ interrupts' = interrupts + 1
             /\ deferred' = deferred \cup {"queued"}
             /\ UNCHANGED <<driver, state, todo, held, failed, files, leftover, loads>>

\* Mutation: the work queues itself again when it is done.
RunDeferredAgain == /\ \/ deferred = {"queued"} /\ deferred' = {"runs"}
                       \/ "runs" \in deferred /\ deferred' = {"queued"}
                    /\ UNCHANGED <<driver, state, todo, held, failed, files,
                                   leftover, loads, interrupts>>

\* tasklet_work or test_work_handler.
RunDeferred == /\ \/ deferred = {"queued"} /\ deferred' = {"runs"}
                  \/ "runs" \in deferred /\ deferred' = deferred \ {"runs"}
               /\ UNCHANGED <<driver, state, todo, held, failed, files, leftover,
                              loads, interrupts>>

LifeFunction == \/ Acquire \/ AcquireFails \/ FailureIgnored \/ InitDone
                \/ GiveBack \/ Gone

LifeNext == \/ Insmod \/ Rmmod \/ LifeFunction
            \/ OpenFile \/ CloseFile \/ Interrupt \/ RunDeferred
-------------------------------------------------------------------------------
\* The variables keep their types.
LifeTypeOK ==
    LET things == {"region", "cdev", "class", "device", "irq", "work"}
    IN  /\ driver \in Drivers
        /\ state \in {"absent", "init", "undo", "live", "exit"}
        /\ todo \in Seq(things \cup {"tasklet"})
        /\ held \subseteq things /\ failed \subseteq things
        /\ deferred \subseteq {"queued", "runs"}
        /\ leftover \subseteq things \cup {"deferred"}
        /\ files \in 0 .. FILES /\ loads \in 0 .. LOADS /\ interrupts \in 0 .. INTERRUPTS

\* What refers to a module that is gone, or going: an open file never does
\* (only the platform device can be removed below one, and its driver stays);
\* the modules with one device leave their cdev behind exactly when class or
\* device could not be made; only the tasklet can still be queued, by an
\* interrupt between tasklet_kill and free_irq; nothing else outlives a module.
NothingDangles ==
    /\ files > 0 /\ driver # ex_2_platform =>
          state \in {"init", "live"} /\ {"cdev", "device"} \subseteq held
    /\ state # "undo" =>
          CASE driver \in OneDeviceDrivers ->
                    leftover = {"cdev" : f \in failed \cap {"class", "device"}}
            [] driver = tasklet -> leftover \subseteq {"deferred"}
            [] OTHER -> leftover = {}

\* What has begun to clean up, after a failure or for rmmod, is gone in the
\* end: tasklet_kill and flush_work wait, but not for ever.
UnloadEnds == state \in {"undo", "exit"} ~> state = "absent"
===============================================================================
