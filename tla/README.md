# TLA+ verification of Linux-assignment

The repository is the work of a Linux course: some thirty small C programs and
kernel modules, each in a directory of its own, about signals, processes,
threads, System V IPC and character devices.  Most are a page of code; what
makes them hard is what they are exercises in: threads that interleave,
processes that are killed, signals that are not queued, objects that outlive
the program that made them.  This directory holds TLA+ specifications of the
programs in which that matters, the TLC configurations that check them on small
instances, and proofs that TLAPS checks for every value of the constants.

There is no test and no manual in the repository.  What the programs promise is
said in comments and in the texts they print; properties are stated from the
code, and where a comment or a printed text says something the code does not
keep, a run shows the counterexample (see *Findings*).

## Inventory

| Part | State | Operations | Interaction | What makes it correct |
|---|---|---|---|---|
| producer/consumer, `asm_7/ex_3` | array used as a stack, its index, a flag, two sums | produce, consume, wait, signal; main joins and destroys | one mutex, two condition variables | items neither lost nor doubled, index inside the array, no lost wakeup, both finish |
| three-thread pipeline, `asm_7/pthread_cond.c` | two flags | hand a token on; thread 1 polls, 2 and 3 wait | one mutex, two condition variables | every token reaches the next thread, all threads finish |
| shared counters, `asm_7/ex_1`, `asm_7/ex_2` (two programs), `asm_8/ex_1`, `asm_8/ex_4` | one integer | add, with no lock, a mutex or a spinlock | shared memory | exact under a lock; bounded damage without one |
| semaphore section, `asm_8/ex_2` | counting semaphore | wait, post; main joins and destroys | semaphore | at most three inside, all get through |
| printer pool, `asm_8/printer.c` | semaphore, printer table, index | `get_printer`, print, post | semaphore and mutex | printers given in turn, one thread to a printer |
| shared-memory exchange, `asm_8/ex_3` | System V segment and semaphore, found by key | create, look up, reset, store, post; wait, print, remove | two programs, run by hand in any order, killed at will | a reader prints after a writer and prints what it wrote; nobody hangs |
| multi-device driver and menu program, `asm_11/ex_2_multi2`; platform variant `asm_11/ex_2_platform` | five buffers, sizes, permission flags; an offset per open file | open, read, write, close | system calls of several programs, no lock in the driver | no byte out of the buffer, nothing unwritten read, permissions |
| SIGCHLD reaper, `asm_5 /Ex_5` | children and their states, pending signals | fork, sleep, stop, continue, exit, reap | signals that coalesce and interrupt | no zombie left, every child ends |
| blocked signals, `asm_5 /Ex_4` (two programs) | signal mask, pending set | block, send twice, unblock, handle | `kill` between parent and child | what is sent twice is received; the handler is there in time |
| signal handlers and masks, `asm_4/ex_1`, `asm_5 /Ex_1` to `Ex_3`, `asm_6/ex_3` | handler, mask, pending set | install, block, unblock, exit on a signal | the user's signals against the sleeps | a signal is handled, kept or fatal, never lost; what is pending is settled |
| message queue, `asm_5 /message_queue` | System V queue | send, receive, neither waiting | a queue between runs of two programs | messages in order, none twice, none lost but for want of room |
| process trees, `asm_6/ex_1`, `ex_2`, `ex_4` | parents, children, tables of pids | fork, exit, wait for each entry | `waitpid` | every child waited for, and the waiting ends, also after a failed fork |
| epoll echo, `asm_4/ex_3_socketpair` | input, socket, events | wait, read, write to the socket, print | one event loop is both ends of a socket pair | what was typed is echoed once, in order, and the loop never blocks itself |
| lock-order demo, `asm_7/demo_deadlock.c` | two mutexes | lock in opposite orders | threads | locks up on purpose, but only while both threads are in their rounds |
| tasklet, work queue, `asm_4/tasklet`, `asm_4/workqueue` | interrupt line, deferred work | schedule, run, unload | interrupt against unload | no work runs after the module is gone |
| life cycle, buffered and ioctl devices, `asm_11/ex_1`, `ex_2`, `ex_3` | registration; buffer and length; an integer | load, open, read, write, ioctl, unload | system calls against each other | error paths undo what was done; length inside the buffer; nothing outlives the module |
| device-tree probes, `asm_12`; first modules, `asm_2`; `select` with timeout, `asm_4/ex_2` | none | print | - | - |
| `*.mod.c`, `asm_3`, `asm_9`, `asm_10`, `asm_8/ex_1.c~` | generated files, notes, screenshots, an editor backup | - | - | - |

The hard behaviours are: interleaved threads (asm_7, asm_8), unlocked kernel
buffers (asm_11), objects that outlive a killed process (asm_8/ex_3), signals
that coalesce or come too early (asm_5), and the order of loading and unloading
(asm_4, asm_11).  `PROJECT.json` lists each hazard at its line with the
properties that watch it, and each part with its status.

## The modules

| Module | Models | Role |
|---|---|---|
| `Pthreads` | the mutex and the condition variables (library) | used by the next two with `INSTANCE` |
| `ProducerConsumer`, `...Props`, `...Proofs` | `asm_7/ex_3/ex_3.c` | detailed |
| `BoundedStack` | what that program promises | abstract specification |
| `ThreadPipeline`, `...Props`, `...Proofs` | `asm_7/pthread_cond.c` | detailed |
| `SharedCounter`, `...Proofs` | the five counter programs | detailed |
| `PrinterPool`, `...Props`, `...Proofs` | `asm_8/printer.c` | detailed |
| `SemaphoreSection` | `asm_8/ex_2/ex_2.c` | a program, and the specification that the printer pool implements |
| `ShmExchange`, `...Props`, `...Proofs` | `asm_8/ex_3/ex_3_writer.c`, `ex_3_reader.c` | two programs composed |
| `CharDevice`, `...Props`, `...Proofs` | the file operations of `asm_11/ex_2_multi2`, `ex_2_platform`, `ex_2` and `ex_3`, with `ex_2_user.c` and `user_test.c` | drivers and programs composed |
| `ChildReaper`, `...Props`, `...Proofs` | `asm_5 /Ex_5/ex_5.c` | parent, children, handlers |
| `BlockedSignals` | `asm_4/ex_1`, `asm_5 /Ex_1` to `Ex_4`, `asm_6/ex_3` | eight small programs (the two of `Ex_1` differ only in what they print) as data of one model |
| `MessageQueue` | `asm_5 /message_queue` | two programs composed |
| `ProcessTree` | `asm_6/ex_1`, `ex_2`, `ex_4` | detailed |
| `EpollEcho` | `asm_4/ex_3_socketpair/ex_3.c` | detailed |
| `LockOrder` | `asm_7/demo_deadlock.c` | detailed |
| `ModuleLife` | init and exit of all modules of `asm_11`, `asm_4/tasklet`, `asm_4/workqueue` | seven modules as data of one model |
| `Programs`, `...Proofs` | the user, who starts the reaper, the counters or one of the last six | the suite that is checked, and the theorems about its programs |

A module `X` holds state and actions, `XProps` the properties, `XProofs` the
theorems; the modules of the suite other than the reaper's keep their properties at
their end.  `X.cfg` checks `XProps` (or `X`) on the instance it names; a second
configuration of the same component shows a finding.  Definitions that begin
with the comment *Mutation* are not part of any specification: each is a
variant of the action after it with a plausible bug, and shows that some
property tells the two apart.

### How they correspond to the code

**Threads.**  A step is the code between two calls that another thread can see:
lock, the test of a loop condition together with what follows it under the
mutex, signal, unlock.  `pc[t]` names the next such call.  Printing is left out.
`sleep` and `usleep` only delay, so they are the scheduler's choice.
`Wait` releases the mutex and joins the wait set in one step, as POSIX
requires; `Signal` takes any one waiter; `SpuriousWakeup` may take one at any
time; the woken thread must get the mutex again (`WakeUp`) and tests again.

*ProducerConsumer.*  `buffer` keeps the stale entries above the index, since the
consumer only moves the index.  `Produce` and `Consume` are the accesses
(lines 56-63 and 104-110), `MustWaitToProduce` and `MustWaitToConsume` the loop
conditions.  The data are the integers of the program, so sums are exact.

*ThreadPipeline.*  Thread 1 unlocks, sleeps and locks again while its token has
not been taken (`Poll`); thread 2 sets `b_done` without looking at it
(`ProcessB`), which is the point of the model.

*SharedCounter.*  One module for five programs: `program`, chosen in `Init`, says
whether the addition is locked, how many rounds each thread runs and what it
adds.  `counter++` is a load and a store.  The unlocked additions are data races,
undefined in C; the model takes the outcomes of the unoptimised build that the
repository's `tasks.json` asks for.

*PrinterPool.*  `get_printer` is five steps, so that the load of the table entry
and the increment of the index are apart.  `SemaphoreSection` sees only
`SemWait` and `SemPost`.

*ShmExchange.* Segments and semaphores are numbered as they are created; `shm_key`
and `sem_key` say which one the key leads to, as `IPC_RMID` unlinks the key and
leaves identifiers held elsewhere behind. A removed segment lives until the last
process detaches; a removed semaphore fails every later `semop`. Every run of the
writer resets the semaphore to 0, whether it created it or found it (`SetVal`, line
35), so a signal that was waiting is lost with it. A writer whose `shmget` or
`semget` fails exits like a reader that finds nothing (`CreateFails`). `fgets`
stores straight into the segment, so storing is two steps, and the `text` of a
segment records which writers' bytes are in it. Any run may be killed at any step
after its first; the kernel detaches, and nothing else is undone (`sem_flg` is 0).
`ftok` is taken to give the two programs the same key: if `file_null` does not exist
it returns -1 in both, and the keys still agree.

*CharDevice.* `multi` are the flags of the table of `ex_2_multi2.c` (line 28);
`single` and `ioctl` name the devices of `asm_11/ex_2` and `ex_3`. A write is three
steps: the length is computed, the bytes are copied, offset and size are set; in the
driver of one device a fourth stores the terminator, which is not a byte of the
buffer when the write fills it (`Positions` has one position more for that). A read
is two steps, since its size test and its copy may straddle a write through another
open file. Calls through one open file exclude each other: the kernel holds the file
position lock for `read` and `write`. A byte is represented by the run that wrote
it, `Unwritten` if none has. The two loads of the size in each `dev_read` are taken
as one, as the kernel's optimised build compiles them: no call stands between them,
and the field is not volatile. The `-EFAULT` exits of the copies are left out: the
programs pass buffers of their own, which are valid and at least as long as they
say. The integer of `ex_3` is position 0 of its device; four aligned bytes are
copied as one. A run opens one device, and no driver has `llseek`. Of `asm_11/ex_2`
no program is in the repository: its user writes and reads like the menu program,
and may write a line that is too long. `Load` and `Unload` are one step each,
`ModuleLife` has their steps. Unloading drops the buffers; the next load finds them
blank. `DEVICE_NAME` is used but not defined in `ex_2_multi2.c` (lines 114 and 120),
so the file does not compile as it stands; the platform variant defines it, and has
the same file operations.

*ChildReaper.*  `child[c]` runs from *sleep* over *stop* and *stopped* (the first
child only) to *zombie* and *reaped*; `unreported` are the children with a change
`waitpid` has not reported; `sigchld` is one bit, since the signal is not queued.
`handling` says that the parent is in `handle_sigchld`, during which SIGCHLD is
blocked but SIGINT is not.  A handled signal ends the sleep of its process,
unless it comes before the sleep has begun.  Time is an order: the sleeps differ
by a second or more, so a sleep that is not cut short ends after the shorter
ones, and after the forks.  A failed `fork` ends the parent, and `init` reaps
the orphans.

*BlockedSignals.*  A program is the sequence of what its process does between its
sleeps (`Ex_4` and `Ex_4_expand`: its two processes).  `sig_pending` is a set, as
signals are not queued; a signal that is not blocked is delivered before the
process goes on, ends its sleep, and kills it when no handler is installed for it.
Each call of `signal()` is a step of its own (`Handle`, `Install`), and `handler` is
the set of signals whose handler is there: `asm_4/ex_1` may be interrupted between
its two calls.
Seconds pass for all sleepers at once; `timely`, chosen at the start, says
whether a process whose sleep is over acts before the next second passes.

*ProcessTree.*  A process is named by its path from `main`.  A failed fork leaves
its entry of the table unset (`stored`), and `WaitUnset` allows what `waitpid` may
do with any value found there: collect one of the children, or fail at once.

*EpollEcho.*  The bytes are numbered as they are typed.  `epoll_wait` reports what
is readable then, and the loop handles the events in any order; a read takes at
most `BUF_SIZE - 1` bytes.  `epoll_wait` fails only when the job is stopped and
continued while nothing is readable; no handler is installed.

*LockOrder.*  The outer mutex of thread 1 is the inner one of thread 2.  Thread 2
returns inside its loop, so it makes one round (`Rounds`).

*ModuleLife.* A module is a record: what init acquires, what it gives back when one
of these fails, what exit gives back, in the order of the calls. `held` is what has
been acquired, `leftover` what outlived a module. A failure that the code does not
look at (`cdev_add` and `device_create` of the five-device drivers) is a step that
acquires nothing (`FailureIgnored`). `rmmod` is refused while files are open;
removing the platform device, which is done by unloading another module
(`ex_2_device.c`), is not. That module stands for `ex_2_platform`: unloading the
driver itself gives back the same things, and is refused while files are open, so it
is the removal with no file open. A device registered again below files that are
still open is a load like any other; what a second probe does to the static data
below those files is not modelled. Of the five devices one is modelled: they are
made and removed alike.

*MessageQueue.*  A message is the run that sends it and its number; no call waits
and no result is looked at, so a message without room is dropped and a receiver
without a message prints what its stack holds (`Leftovers`).  The queue, made by the
user with `ipcmk`, is never removed.

*Programs.*  The eight programs share nothing, and the variable `started` says which
one runs; the rest keep their initial values.  It exists so that the small programs
are checked together, by one run.

## The runs

| Run | Module, configuration | Bounds | What it shows |
|---|---|---|---|
| `prodcons` | `ProducerConsumerProps`, `ProducerConsumer.cfg` | the program's own 5 and 10 | `TypeOK`, `NoLostWakeup`, `BufferIsBacklog`, `CleanExit`; it implements `BoundedStack`; it terminates |
| `pipeline` | `ThreadPipelineProps`, `ThreadPipeline.cfg` | the program's own 5 | `TypeOK`, `NoLostWakeup`, `TokenAccounting`; `FirstTwoFinish`, `ReturnsUnlessLost` |
| `pipeline_third` | same, `ThreadPipelineThird.cfg` | 5 | violation: thread 3 need not finish |
| `printers` | `PrinterPoolProps`, `PrinterPool.cfg` | 3 printers, 6 threads | `TypeOK`, `HandedOutInTurn`, `SafeSemaphore`; it implements `SemaphoreSection`, and so everybody gets through and main returns |
| `printers_sharing` | same, `PrinterPoolSharing.cfg` | 3 printers, 4 threads | violation: two threads print on one printer |
| `shm` | `ShmExchangeProps`, `ShmExchange.cfg` | 2 writers, 2 readers | `TypeOK`, `OneReaderPerSignal`, `LoneWriterIsHeard`, `SignalWaits`, `EndsUnlessDisturbed` |
| `shm_finished` | same, `ShmExchangeFinished.cfg` | 2 writers, 1 reader | violation: a writer stores while the reader prints |
| `chardev` | `CharDeviceProps`, `CharDevice.cfg` | 3 runs, 5 devices, 2 bytes | `TypeOK`, `NothingUnwritten`, `NeverReadsOwn`, `PermissionsHold` |
| `chardev_stored` | same, `CharDeviceStored.cfg` | 1 run | violation: "Write successful" of a line that was cut |
| `programs` | `Programs`, `Programs.cfg` | per program, see below | `TypesOK` and the next table |
| `reaper_continue` | `ChildReaperProps`, `ChildReaperContinue.cfg` | 2 children, ctrl + C once | violation: the first child stays stopped |
| `signals_second` | `BlockedSignals`, `BlockedSignalsSecond.cfg` | 2 signals of the user | violation: the second signal is not received |

The suite checks, program by program:

| Program | Property | What it says |
|---|---|---|
| reaper | `ChangesAnnounced` | no change of a child is forgotten while SIGCHLD coalesces |
| reaper | `ReaperReapsAll` | no zombie stays, and all children end unless ctrl + C comes too early |
| echo | `EchoAccounted`, `EchoedInTheEnd` | every byte is printed once, in order and in the end; the loop never writes to a full socket |
| signals | `SignalsAccounted`, `SignalsEnd` | no first signal is lost, how many are handled, in which states one can kill, and that what is pending is settled |
| tree | `TreeTerminates` | nobody that has ended leaves a child, and main ends, whatever an unset entry holds |
| locks | `LocksEnd` | the program ends with both mutexes free, or the threads hold them crosswise |
| module | `NothingDangles`, `UnloadEnds` | exactly what outlives a module, and that cleaning up ends |
| messages | `MessagesAccounted` | order, no doubles, and losses only for want of room |
| counters | `GuardedIsExact`, `DamageBounded`, `CountersEnd` | nothing is lost under a lock; how much can be without one; that main prints |

**Why the bounds are enough.** Two runs (`prodcons`, `pipeline`) and the reaper of
the suite use the constants of the program; the number of presses is the only cap in
the third, and two of them reach the parent once in its sleep and once later, or
inside the SIGCHLD handler. In the suite, further: reads of two bytes, six bytes
typed and a socket of four make a chunk stay behind in the input and in the socket
at once (the socket of Linux holds far more than the two chunks the assumption asks
for); two signals of the user are enough to coalesce, and the sleeps keep their
seconds; two parents with two children give an unset entry a sibling to collect;
three rounds of thread 1 let thread 2 come before, between and after them; a module
loaded twice meets what the first load left behind, and two interrupts find the
tasklet idle, queued and running; two senders fill a queue of three, and four
receivers empty it; five rounds of two threads are more than the two that decide
what an unlocked counter can lose, and with three threads two contend for a lock
that the third holds (the round counts 100000 and 100 are covered by the proofs).
Six threads are the number of `ex_2.c`: three wait for a permit
and the printers go round twice (`printer.c` itself has 15, which the proofs cover).
Two runs of
writer and reader each are the least with which a reader removes what another one
waits for while a writer has made new objects. A buffer of two bytes takes two
writes or a full one and cuts what comes after; three runs put two writers and a
reader on one device, or one on each of three devices; the two devices left out have
the flags *none* and those of `sensor0`. Runs of the menu program are
interchangeable, and `CharDevice.cfg` checks invariants only, so the symmetry is
sound.

**Deadlock** is checked everywhere except in `pipeline` and `pipeline_third`, where
thread 3 may really hang, and in the suite, `reaper_continue` and `signals_second`:
the programs there end, wait for the user or in `pause()` for ever, or lock up.

**Fairness.** A thread or process that can take a step takes one (weak fairness of
each): the operating system's scheduler. Threads of the producer/consumer and of the
pipeline get a mutex that is released again and again (strong fairness of `Enter`
and `WakeUp`): in `ex_3.c` both threads sleep for seconds outside the mutex in each
round, and in `pthread_cond.c` the only loop that can release and take the mutex
without end, the polling of thread 1, sleeps outside it (line 20), so a waiter finds
it free. In the printer and counter programs weak fairness is enough, since a thread
waits only a bounded number of times; for the counters it is enough even that some
thread goes on. Nothing makes the user press ctrl + C or kill
a run, forks fail, or wakeups be spurious; the user of the shared-memory writer is
assumed to answer its prompt or end its input. `CharDevice` has no liveness
property: its runs may stay at the menu. In the suite one condition (`Going`) is
enough for six of the programs: as long as the one that runs can take a step of its
own, it takes some step. All their loops are bounded or wait for somebody, so no
process can be kept back for ever; the user's actions (typing, signals, loading,
opening files), stopping the job and interrupts are not part of it. The spinning of
the echo at the end of its input is, and handles all events of a round.

## What is proved

Every invariant that a passing run checks is also a theorem, for every value of
the constants that the named assumptions allow.  The theorems are about
`SafeSpec`, the specification without its fairness (`ShellSafeSpec` in
`Programs`; the `Spec` of `CharDevice` has none).  What the inductive invariants
add to the properties, and why, is said here.

* `ProducerConsumerProofs`, from `SizesAssumption` (both sizes are positive):
  `TypesHold`, `MutexExcludes`, `WakeupsArrive`, `BacklogIsExact`,
  `CleanupIsSafe`, and `StackImplemented`: every step is a step of `BoundedStack`
  or leaves its variables alone.  `TypeOK` is not inductive: that the index stays
  in the buffer under `Consume` needs mutual exclusion and the backlog equation,
  and `NoLostWakeup` needs that a wait set holds only threads at the wait.  The
  invariant therefore adds `WaitersAtWake`, `LoopsAndJoins` (a worker is done
  exactly when its counter says so, and main's joins tell) and
  `DataReadyFollows` (the flag lags behind the buffer only while the producer is
  about to set it).
* `ThreadPipelineProofs`, from `NumAssumption`: `TypesHold`, `MutexExcludes`,
  `WakeupsArrive`, `TokensAccounted`, and `LossIsFinal`: once a token is lost main
  never returns.  The last is a safety fact behind the finding: the loss is not
  repaired later.  The strengthening is again the wait sets and the loop
  counters; `LossIsFinal` then follows since thread 3 can only be done after
  `NUM` tokens, which lost tokens make impossible.
* `PrinterPoolProofs`, from `PoolAssumption` (finitely many threads, a positive
  number of printers): `TypesHold`, `TurnsKept`, `SemaphoreIsSafe`
  (the permits add up, and are all back when it is destroyed), and
  `SectionImplemented`.  Handing out in turn needs that what a thread has read is
  still the entry at the index (`ReadIsCurrent`), which needs the owner of the
  mutex to be the only thread inside (`MutexOwned`), and the lemmas on quotient
  and remainder (`DivMod...`).
* `SharedCounterProofs`, from `CounterAssumption`: `CountersTypesHold`,
  `LockedCountIsExact` (for any number of threads and rounds) and `LossIsBounded`,
  the bounds of the unlocked programs.  For the lock: its owner alone is in the
  loop body, what it has loaded is current, and it has rounds left.  For the lower
  bound, an argument over whole executions, the invariant `Surviving` keeps what is
  certain at each point: from the first store on, one addition is in the
  counter and in everything that is loaded for a round after a thread's first;
  the last store of all therefore leaves two.
* `ShmExchangeProofs`, from `RunsAssumption` (no process is writer and reader):
  `TypesHold`, `SignalsAccounted`, `LoneWriterHeard`, `MessageWaits`, for any sets
  of runs.  The types need `LookedUp` (who is past a look-up has an identifier
  of something created), `StoringBytes` (while a writer stores, its segment holds
  bytes and not a whole text) and `FinitelyMany` (at any time finitely many runs have
  begun, so that what they attach and post can be counted).  `LoneInv` follows
  the single writer from its creation of the objects to its signal;
  `NoReaderYet` does the same for any writers while no reader has begun.
* `CharDeviceProofs`, from `DeviceAssumption` (a positive size, devices of the
  tables, and no run named like the mark of an unwritten byte): `Invariant` and its parts `TypesHold`, `OnlyWrittenBytes`,
  `OwnBytesUnread`, `FlagsKept`, for any programs and buffer size.  There is no
  lock, so the argument is about what no step takes back: bytes once written
  stay written while the module is loaded, and a writer's offset is never beyond what is written
  (`WrittenBelow`); the bytes of a run are below its own offset (`OwnBelow`), where it never reads.
* `ChildReaperProofs`, from `ReaperAssumption`: `TypesHold`; `NothingMissed`, which
  needs that nothing is reported to a parent that has exited (`ParentKnows`); and `ContinuedAfterStop`, what safety contributes to
  `AllReaped`: unless ctrl + C comes before the first child has stopped, it is
  stopped before it is continued.
* `ProgramsProofs`, first each program by itself, then (`ShellSteps`) the suite.
  A step of the suite is a step of a program or leaves that program alone, so
  an invariant of a program is one of the suite.

| Theorem | From | What its invariant adds, and why |
|---|---|---|
| `NothingLostOrOvertaken` | `EchoAssumption` | `EchoRoom`: how full the socket can be at each point of a round; two reads must fit, or the loop blocks itself |
| `NoFirstSignalLost` | `SignalsAssumption` | `Accounted` for all programs; `Installed`: only `asm_4/ex_1` ever has one handler and not the other, and SIGUSR1's comes first, which is what a signal that kills after another was handled needs; for `Ex_4_expand` with sleeps in time, the joint clock of the two processes, second by second (`ExpandTime`) |
| `SecondNeverReceived` | `SignalsAssumption` | the same clock for `Ex_4` (`Ex4Time`), on top of the order that holds without it (`Ex4Order`): both signals come before the mask is lifted |
| `NobodyLeftBehind` (half of `AllTerminated`) | `TreeAssumption` | `Family`: the waiting loop has passed only entries whose child is collected or was never forked |
| `OnlyCrosswise` (half of `EndsOrLocksUp`) | `LockOrderAssumption` | `HoldersRight`: where a thread stands says what it holds |
| `NothingOutlivesModules` | `LifeAssumption` | `LifePlaces`: what is held at each place of init, undo and exit of the seven modules; `FilesHold`: a file keeps its device |
| `NoMessageLost` | `QueueAssumption` | `QueueOrder`: of one sender's messages, the queue holds later ones than those printed |
| `ShellTypesHold` | all of these | `TypesOK` of the whole suite |

**Only model-checked.**  Liveness under fairness, which this prover cannot
reach: `Termination`, `FirstTwoFinish`, `ReturnsUnlessLost`, `EndsUnlessDisturbed`,
`ReaperReapsAll`, `EchoedInTheEnd`, `SignalsEnd`, `TreeTerminates`, `LocksEnd`,
`UnloadEnds`, `CountersEnd`, and the fairness halves of the two refinements.
`MutualExclusion` of the first two programs is proved, and checked by no run.

## Findings

Each is a run whose one property a comment or a printed text of the program
states, and which TLC refutes.

1. `pipeline_third`: thread 2 sets `b_done` unread (`pthread_cond.c:45`); when it
   runs twice before thread 3, a token is overwritten and thread 3, and `main`
   with it, waits for ever.
2. `printers_sharing`: `get_printer` gives the printers in turn whether or not
   they are free (`printer.c:20`), so when a later printer's job ends first the
   next thread shares a printer that is in use.
3. `shm_finished`: the writer stores into the segment before anybody has taken
   the last text (`ex_3_writer.c:47`), so a second writer changes it while the
   reader, which has announced that the writer has finished, prints it.
4. `chardev_stored`: the menu program takes any result of `write` that is not
   negative for success (`ex_2_user.c:58`), but the driver cuts a line at the end
   of its buffer and accepts none of it when the buffer is full.
5. `reaper_continue`: SIGCONT is kept behind SIGSTOP by `sleep(10)` alone
   (`ex_5.c:120`), which ctrl + C ends.
6. `signals_second`: the parent of `Ex_4` sleeps "for receving second signal from
   process B after unblocking" (`ex_4.c:55`), but both signals are sent while it
   blocks them and become one.  `SecondNeverReceived` proves that it is so in every
   run whose sleeps are in time; only a late child gets two signals through.

## Observations

What the models show of the code without a text that it contradicts:

* `asm_4/tasklet` kills the tasklet before it frees the interrupt (lines 44-45).  An
  interrupt in between queues it again, and the module goes with its tasklet
  queued: `NothingDangles` allows that leftover, and only that one, for `tasklet`.
* `asm_11/ex_1` to `ex_3` leave their cdev registered when `class_create` or
  `device_create` fails (`ex_1.c:69` jumps to `r_class`, which gives back only the
  number): `NothingDangles` says exactly when.
* `asm_4/ex_1` installs two handlers (lines 17 and 22); SIGUSR2 between the two calls
  kills it, also after a SIGUSR1 that it has handled: `SignalsAccounted` says that
  there is no other such state.
* `Ex_4_expand` is killed by the signal if it is late to install its handler, or has
  exited before a late parent sends it.
* `Ex_3` prints that it waits for SIGINT (line 37) but keeps it blocked: the exception
  that `SignalsSettle` names.
* `demo_deadlock.c` can lock up only until thread 2 has made its one round.
* `asm_11/ex_2` limits a write to its buffer (`ex_2.c:106`) and then stores the
  terminator behind it (line 115): `NothingUnwritten` says that no other driver
  touches that byte.
* `msg_recv` never prints a whole message: both are longer than its text.

## Not modelled, and why

The first modules (`asm_2`) and the device-tree probes (`asm_12`) print and return,
and `asm_4/ex_2` is straight-line code around one `select`: they keep no state and
nothing can interleave, so a model of them has nothing to check.  Generated `.mod.c`
files, notes and the backup `asm_8/ex_1.c~` are not program.  Of the modelled
programs, the texts they print and argument parsing are left out, and the lengths
of the sleeps except in `BlockedSignals`.  The `read` and `write` of `asm_11/ex_1` and
`ex_3` do nothing.

## Plan

Done, in this order: producer/consumer, pipeline, printer pool with the
semaphore section, counters, shared-memory exchange, multi-device driver, reaper;
then the drivers of `asm_11/ex_2` and `ex_3`, and the suite of small programs.

All invariants of the runs are proved, and the step-by-step half of the two
refinements.  What is left is to state more of the programs as implementations of
something simpler, and to prove that every step maps to a step or a stutter:

1. a mailbox for `ShmExchange`: messages put, at most one taken per signal;
2. a pipe for `EpollEcho`: bytes go in at one end and come out at the other;
3. an append-only log for what a run of `CharDevice` writes, and a bag of
   messages for `MessageQueue`.
