# Verification of aiseirigh

aiseirigh is a recovery installer for the PSP. It runs on a fork of Little
Kernel (LK), reads an official updater from a memory stick, repartitions and
formats the NAND flash, writes the firmware's files to it and replaces the boot
loader (IPL). If it stops half way, or reports success wrongly, the device does
not start any more; and everything it does rests on the kernel's threads, wait
queues and mutexes. This directory models both layers in TLA+, and the LK
libraries whose correctness is hardest to test: TCP, the circular buffer and the
two flash file systems.

1. [The system](#1-the-system)
2. [Modules](#2-modules)
3. [Runs](#3-runs)
4. [Fairness](#4-fairness)
5. [Proofs](#5-proofs)
6. [What the checks found](#6-what-the-checks-found)
7. [Not modelled](#7-not-modelled)
8. [Plan](#8-plan)

## 1. The system

### Parts, their state and operations

| part | source | state | operations |
|---|---|---|---|
| threads, scheduler | `kernel/thread.c` | per thread: state, priority, quantum, wait queue, wait status; run queues and their bitmap; current thread | create, resume, yield, preempt, block, unblock, sleep, exit, set priority, `thread_resched`, tick |
| thread life | `kernel/thread.c` | state, magic, detached flag, queue of joiners | create, resume, exit, join with timeout, detach |
| wait queues | `kernel/thread.c` | list of threads, count | block with timeout, wake one, wake all, destroy, timeout handler |
| timers | `kernel/timer.c` | ordered list of one-shot and periodic timers | set, cancel, tick |
| mutex | `kernel/mutex.c` | magic, holder, count, wait queue | acquire with timeout, release, destroy |
| semaphore | `kernel/semaphore.c` | count, wait queue | post, wait, timed wait, try wait, destroy |
| event | `kernel/event.c` | signaled, flags, wait queue | wait with timeout, signal, unsignal, destroy |
| port | `kernel/port.c` | write ports by name, read ports with a packet buffer, groups | create, open, group, add, remove, write, read with timeout, close, destroy |
| circular buffer | `lib/cbuf` | head, tail, bytes, an event | write and read blocks and characters, blocking or not |
| TCP | `lib/minip/tcp.c`, `net_timer.c` | per socket: state, windows, buffers, reference count, three timers, events | connect, listen, accept, read, write, close, a handler per segment and timer |
| spifs | `lib/fs/spifs` | two tables of contents with generations, files, open directories | format, mount, unmount, create, remove, write, truncate, list |
| norfs | `lib/norfs` | blocks of versioned objects, inodes, write pointer, free space | mount, unmount, wipe, put, remove, collection of a block |
| event flags | `external/lib/evflag` | word of bits, wait queue | wait for a pattern (OR, AND, autoclear, timeout), raise, destroy |
| vsync | `external/lib/vsync` | wait queue | wait, interrupt |
| gamepad | `external/lib/gamepad` | previous keys, press/release/hold edges, three wait queues, mutex | poll thread, `gamepad_read` |
| fdisk | `external/lib/fdisk` | sectors of the flash | write the master record and four partition records |
| state machine | `app/aiseirigh/statemachine.c` | state, next state, pressed keys, event flag, mutex | transition, main loop, press thread |
| installation states | `app/aiseirigh/states` | the application's state, memory stick, flash | one `on_enter` per state, `on_key_press` of menu and finish |
| PSAR reader | `app/aiseirigh/psar.c` | file handle, table position, two work buffers | open with self test, read each directory, read each file |
| IPL writer | `app/aiseirigh/ipl.c` | blocks of the NAND | `clear_ipl`, `write_ipl` |
| screens | `app/aiseirigh/screen.c`, `textraster.c`, `primaryscreen.c` | cursor, pixels, mutex | print, display |

### How they interact

* A thread that must wait calls `wait_queue_block` under the thread lock and
  leaves the processor in the middle of it. Whoever wakes it (another thread,
  a timer interrupt, a device interrupt) stores a status and makes it READY;
  it goes on when the scheduler picks it. All synchronisation objects are built
  on this, and what happens between *made READY* and *runs* is where they are
  hard.
* The vsync interrupt wakes the poll thread once per frame; the poll thread
  wakes threads in `gamepad_read`; the press thread stores the keys in the
  state machine and raises `SM_ON_PRESS`; the main thread waits for
  `SM_ON_PRESS` and `SM_TRANSITION`, runs the handlers of the states, and the
  handlers request transitions.
* The states form a chain: init, menu, mount_ms, check_updater, process_psar,
  partition_flash, format_flash, mount_flash, create_directories, flash_files,
  finish; every one from mount_ms on can go to error.
* A circular buffer is an array with an event: the event is waited for outside
  the lock under which the array is read, so the event may be late.
* TCP is called by three kinds of threads at once: its users, the thread that
  delivers packets and the timer thread. A socket lives as long as its reference
  count, which each of them raises before it lets go of a lock.
* spifs and norfs keep on flash what must survive a loss of power, and in memory
  what they conclude from it when they are mounted.

### What is hard

`PROJECT.json` lists the main hazards line by line; more are among the observations
in section 3. In short: a timeout, a
wake-up and the thread's own run in every order; the mutex without a holder
during a hand-off; a cached bitmap and counters that must agree with lists;
shared fields that hold the result for a thread that has been woken but has not
run; a wait that clears two flags at once; a clock and sequence numbers that wrap; a
thread, port or socket that is freed by one of several users who may all be the
last; segments that are lost, repeated and overtaken; an installation that fails or
loses power at any step, on a NAND with bad blocks, and is started again on what
was left; file systems that lose power between any two writes.

### What makes each part correct

* scheduler: queues, bitmap and thread states agree; one thread runs; the
  highest priority runs; within a priority nobody starves.
* mutex, semaphore, event, event flags: exclusion (or accounting) that counts
  the threads already chosen but not yet run; no wake-up lost; a wake-up is not
  undone by a late timer.
* thread life: a dead thread is torn down, by one of those who may, and no joiner
  is left behind.
* timers: the list is in order of the real due times, nothing runs early or after
  it was cancelled, and everything runs.
* ports, circular buffer, TCP: what was accepted arrives once and in order, or
  the caller is told; nobody sleeps beside what it waits for; nothing is used
  after it was freed.
* spifs, norfs: what was reported stored is found by a mount at any later time.
* gamepad: a reader is told of changes made after it began to wait.
* state machine: no assertion fails, no transition is lost, the flash is not
  touched without consent, an installation ends.
* PSAR reader: each callback is given the data of the entry that it is called for,
  although everything passes through two shared buffers.
* IPL writer: at every moment the index names what is really there; success
  means that the data is written.
* installer: nothing is changed before everything that can be checked has been;
  success means that it is all there, whatever earlier attempts left.

## 2. Modules

| module | models | composed with |
|---|---|---|
| `WaitQueue` | the wait queue as its users see it | extended by the objects |
| `Mutex`, `Semaphore`, `Event`, `EvFlag` | the synchronisation objects | `WaitQueue` |
| `ThreadLife` | join, detach, exit and teardown of a thread | `WaitQueue` |
| `Cbuf` | the circular buffer | `Event` |
| `Sched` | run queues, dispatch, quanta, wait queues, timers, interrupts | |
| `MutexOnSched` | the mutex on the real scheduler | `Sched`; implements `Mutex` |
| `Timer` | the ordered timer list on a wrapping clock | |
| `Port` | write ports, read ports, a group | |
| `Tcp` | a connection of two hosts, with its timers | |
| `Gamepad` | poll thread, vsync, readers, the user | |
| `StateMachine` | main loop, press thread, states | `Gamepad` |
| `Ipl` | the IPL writer on a NAND | |
| `Installer` | what the states do to stick and flash, power failures | `Ipl` |
| `Psar` | the container reader and its work buffers | |
| `Spifs`, `Norfs` | the flash file systems | |
| `MutexProofs` | theorems (section 5), and the lemmas on the wait queue that `ObjectProofs` shares | `Mutex` |
| `SchedProofs` | theorems | `Sched`, `MutexOnSched` |
| `ObjectProofs` | theorems | `Semaphore`, `EvFlag`, `ThreadLife`, `Event`, `Cbuf`, `Timer` |
| `TcpProofs`, `TcpStreamProofs` | theorems | `Tcp` |
| `ApplicationProofs` | theorems | `StateMachine` with `Gamepad`, `Installer` with `Ipl` |
| `PortProofs` | theorems | `Port` |
| `StorageProofs` | theorems | `Spifs`, `Psar`, `Norfs` |
| `MCMutex`, `MCMutexOnSched`, `MCSched` | instances for TLC | |
| `MCObjects` | semaphore, event, event flags, thread life, circular buffer or timers: a behaviour (variable `object`) is of one of them | |
| `MCPort`, `MCTcp` | instances with two scenes each (variable `scene`), which together reach every action | |
| `MCApplication` | gamepad, state machine or installation (variable `part`) | |
| `MCStorage` | IPL writer, PSAR reader, spifs or norfs (variable `part`) | |

Names of actions are those of the C functions. A function that blocks is split
where it leaves the processor: `mutex_acquire_timeout` goes up to
`wait_queue_block`, `mutex_acquire_returns` from its return. `PROJECT.json`
maps every definition to its lines. Operators with a suffix after a second
underscore part, introduced by "Mutant:" (`mutex_release_OffByOne`), are
deliberate errors, used to see that a property notices them; no specification
uses them.

**Atomicity.** The target has one processor. Code under the thread lock runs with
interrupts disabled, so it is one step, except for two loops that `Sched` splits
into iterations (with nothing else enabled in between) to keep steps small. A
section under a mutex is one step where all accesses to its data are under that
mutex. What the code does *outside* a lock is a step of its own:
`mutex_destroy_check` (the owner check precedes the lock), the store and the
raise in the press thread, `transition_raise`, `reset_keys`, the clock that
`timer_set` reads before it takes the lock, the two halves of `port_create`,
`thread_detach` before it calls `thread_join`, `tcp_input` between the look-up of
the socket and its lock. Each NAND, flash or
FatFs operation is a step, since the power can fail between two of them.

**WaitQueue.** `wait` is the list, `tstate` the part of the thread state the
objects depend on (BLOCKED or not), `block_ret` the status, `timer` the threads
whose timer is queued. The count of the C structure is the length of `wait`
(`Sched` has both and checks that they agree). Which READY thread runs next is
left open, so the properties of the objects hold under any scheduling.

**Mutex.** `pc` says where each thread is; `expired` is a history variable: some
timed wait has expired. **Semaphore** adds what was posted and taken (and has the
same history, `sem_expired`),
**Event** what was signaled and passed, **EvFlag** how often each flag was
raised and consumed, as history.

**ThreadLife.** One thread and the callers of join and detach, on the thread's
`retcode_wait_queue`. `contested` is history: two callers were due the same dead
thread, which the code does not provide for (section 3).

**Cbuf.** The n-th byte accepted is the number n, so that order, loss and
repetition show. The event is `Event`, with its waiters.

**Sched.** All of `thread_resched` and of the functions that call it, with head
and tail insertion as in the code. Time is abstracted: a queued timer may expire
at any timer interrupt. The idle thread is outside the run queues.

**Timer.** Here the time is not abstracted: `clock` counts modulo 2^Width,
`timer_tick` runs every `TickInterval` and while it runs the clock goes on and
callbacks set and cancel timers, their own included. `left` is history: the time
until a timer is really due, as a number that does not wrap.

**Port.** Packets are numbered per write port. One thread opens, groups, closes
and destroys; any thread writes and reads. `fault` says that the code has touched
what was freed or kept a lock; the behaviour ends there. `misuse` is the history
of the sequences of calls after which the code promises less. The loop of
`port_write` over the read ports is described by its outcome: which ports take the
packets, and how many threads that takes from the head of each queue (`WokenBy`): one
of the group for each port that is in it until the group's queue is empty, and
otherwise one of the port's own.

**Tcp.** Both hosts run this code. `net` is the set of segments ever sent, from
which any may be delivered at any time, again or never; that covers loss,
duplication, delay and reordering. Bytes are numbered. A timer that was taken out
of the list and whose callback has not run is `firing`. Three sockets are a
connection: the client's, the listener and the accepted one. A failed assertion or
a lock that is kept is a `fault`, and the behaviour ends there.

**Gamepad.** Key words are sets of keys that are down. `since` and `late` are
history: which edges came after the reader blocked, and who was overtaken by a
further poll. The user may change the keys at any time, and reading the pad may
fail.

**StateMachine.** The main thread's position is `main`, the press thread's is
`press`. The main thread is the only one that waits for the event flag, so the
wait is a step enabled when a flag is up. Handlers either succeed or fail; what
they do is in `Installer`.

**Ipl.** A block holds what it held before, nothing, a write that did not verify,
a chunk of the boot loader or the index. Erase and write may fail; the bad
blocks are any set. `Installer` calls it in the state flash_files.

**Psar.** The container is a row of units; what a work buffer holds is an entry and
its form (encrypted, compressed, decompressed, or scratch). `Promised` says what
the callbacks should be given, from the container alone.

**Spifs.** A page is a unit, its content is whose data it holds. Each erasure and each
write of the device is a step that may fail; between any two the power may.
`spifs_write_page` is the pair `erase_page` and `write_page`: `stored` has the pages
that were written and drops a page when its rewriting begins, since a failure between
the two leaves it erased. A table of contents that is being written has the generation
`CORRUPT_TOC`. `spifs_mount(t)` takes the newer table, or the other one if
`get_toc_generation` meets a read error in the newer; the histories then keep what
both tables have (`RollBack`).

**Norfs.** The step is the write to the flash. Versions wrap at 2^VersionWidth and
are compared as in the code. A mount reads the finished blocks in order and each one
object by object (`MountedIndex`, `mount_block`, `mount_next_obj`), as its two loops do.
`Recovered` says what `norfs_mount_fs` finds on the flash as it is; `acked` is what the
last completed call stored. `put_writes` is the end of a put that goes well. The other
two ends are `put_uses_freed_inode`, when the collection inside
`find_space_for_object` has freed the inode the put holds, and `put_over_header`, when
that collection has filled the block exactly, so that the object is written over the
header of the next block. Both leave a memory that no longer describes the flash
(`norfs_pc` is "broken"); from there only an unmount and a failure of the power
are modelled, not further puts nor a wipe.

**Installer.** A path is a sequence of names, compared as `strcmp` compares
strings in which one name is not a prefix of another followed by a character
below the separator. The file systems are reduced to which directories and files
exist; the memory stick to whether the updater on it is a genuine one. After a
power failure the user may put in another stick and start again.

## 3. Runs

| run | module | states | what it shows |
|---|---|---|---|
| `mutex` | `MCMutex` | 19 thousand | exclusion including the hand-off, exact count, final grants; until a timed wait expires no waiter is left behind and each gets the mutex |
| `mutex_on_sched` | `MCMutexOnSched` | 60 thousand | the mutex on the real scheduler implements `Mutex` |
| `mutex_timeout` | `MCMutexOnSched` | violated | see section 6 |
| `sched` | `MCSched` | 540 thousand | queues, bitmap, counts, timers and states agree; highest priority first; no starvation |
| `objects` | `MCObjects` | 320 thousand | semaphore: exact count, nothing given out twice, nobody waits for what is there until a timed wait expires; event: nobody waits on a signaled one, one thread per signal, destruction releases everybody; flags: no raise missed, none taken twice; thread: torn down once, and not never, no joiner left; circular buffer: every byte once and in order, event and data agree; timers: list in order although the clock wraps, none early, none after its cancellation, none overdue after a tick, none forgotten |
| `port` | `MCPort` | 1.4 million | no packet lost, repeated or overtaken without an error; one owner per buffer, one port per name, nothing used after it was freed; no reader asleep beside a packet |
| `application` | `MCApplication` | 2.6 million | gamepad: only edges stored after the call; state machine: assertions, pending transitions, consent, the installation ends; installation: checked before touched, parents first, finish means flashed |
| `installer_ipl` | `MCApplication` | violated | see section 6 |
| `storage` | `MCStorage` | 1.5 million | IPL: the index names chunks in order at every moment, success means written; PSAR: every callback gets its own entry's data; spifs: a power failure at any step keeps the files reported created, their lengths and their pages but the one being rewritten, open directories stand at files that are there; norfs: a power failure keeps every object and deletion, outside the window `Exposed` and apart from the keys in `overtaken`; reference counts are exact |
| `norfs_unmount` | `MCStorage` | violated | see section 6 |
| `tcp` | `MCTcp` | 1.6 million | the stream arrives intact, what is acknowledged is kept; reference counts are exact; no caller sleeps through what it waits for; retransmission and acknowledgement are never forgotten |
| `tcp_overlap` | `MCTcp` | violated | see section 6 |

**Bounds, and why they are enough.**

* Four threads for the mutex: a holder, a thread that is being handed the object
  or timing out, a queued one and a newcomer. Three for the other objects, where
  a queue of two already has a head that is not the tail and the third thread
  posts, signals or destroys. `InitialCount` 1 with `MaxPosts` 4, `MaxSignals` 3
  and `MaxRaises` 2 let each thread be served once and one more call come early or
  late.
* Circular buffer: four slots, of which three are used, seven bytes and reads of 1
  and 3: head and tail wrap twice, blocks are split at the end of the array, the
  buffer is full and a read is shorter than asked.
* Timers: two timers, a clock of 4 bits that wraps again and again, a tick every 2
  units, delays of 0 and 2 and a thread that is held up by one unit in `timer_set`.
  `TimerAssumption` says how far apart due times may be for the comparison of the
  code to be right; with 32 bits that is 24 days.
* Three threads, two usable priorities and one wait queue for the scheduler: one
  that runs, one READY, one that is queued or waking. Threads start at priority
  2 and `thread_set_priority(0)` is clamped to 1; the quantum is 1 instead of 5,
  so that a thread can be preempted with its quantum used up and with quantum
  left (by a device interrupt).
* `MutexOnSched`: three threads, one priority, since all threads of the program
  have `DEFAULT_PRIORITY`.
* Ports: two readers, two read ports, buffers of two packets, three packets per
  write port, writes of one and of two. One scene has both read ports and the group
  on one write port, the other two write ports of one name, so that two creators
  can overtake each other.
* TCP: sequence numbers modulo 16 that begin at 14, so that they wrap in every
  behaviour; MSS, window and transmit buffer of 2 bytes and three bytes to send,
  so that a writer must wait for an acknowledgement and the window closes. In the
  scene `stream` the client writes and closes while the server accepts and reads,
  in `teardown` every socket is closed and read from without data. `tcp_overlap`
  needs a window of two segments: 4 bytes.
* Two keys, X and one that means nothing to the states; one reader per trigger.
* IPL: index blocks 1 and 2, data blocks 3 to 5, two pages per block, and 0, 1,
  3, 6 and 7 pages: nothing, part of a block, a last block that is not full, all
  blocks, one page too many. Block 0 is one that `clear_ipl` erases and
  `write_ipl` leaves alone.
* Installer: a table of six entries in which a directory precedes its parent, with
  an empty directory that is not the last one, files on both partitions and the
  boot loader between them; `MAX_RETRY` 2 instead of 5; one index block, two data
  blocks.
* PSAR: five containers (a good one, a table that names no entry, no boot loader, no
  table, an entry larger than the buffers), each bare and in a PBP, of the right
  firmware and of another; files, a directory and the boot loader in an order other
  than the table's, one installed twice and one not at all.
* spifs: two names, four pages, of which the tables take two, files of 0 and 2
  pages, one open directory and five generations: each table is written several
  times over.
* norfs: two keys, two values, three blocks of which one is kept free, and seven
  calls: enough to fill blocks, to collect one, and to collect one that holds
  copies made by a collection. Six units per block, two per
  header and three per object, so that blocks are filled exactly, by puts and by
  collections, and with waste.
* Symmetry under permutation of readers, read ports and write ports is used in
  `port`, which checks invariants only.

The type invariants are checked as parts of `MutexInv`, `SchedInv`, `SemInv`,
`EventInv`, `FlagInv`, `ThreadLifeInv`, `CbufInv`, `TimerInv`, `PadInv`, `SMInv`, `IplInv`
and `InstallerInv`.

Deadlock is checked in `mutex_on_sched`, `sched` and `application`. It is not in
`mutex` and `objects`, where the object may be destroyed or the bounded calls used
up, nor in `port`, `storage` and `tcp`, where bounded calls end, a single call
ends, and a behaviour stops at a fault.

**Observations in passing.** The properties are stated as strongly as the code
allows. The provisos mark places worth knowing:

* `NoWaitForAvailable` of `Semaphore` needs "no timed wait has expired": `sem_post`
  has the same window as the mutex in section 6 (`semaphore.c:43` and `:87`). With
  count 0, a waiter that times out, a post before it runs, a second waiter and
  then the first thread's `count++` leave the second waiter queued with count 0,
  and no later post wakes it, since the count is then above zero.
* `check_pattern` in AND mode compares `bits & pattern` with `bits` instead of with
  the pattern (`evflag.c:43`): the wait succeeds with flags missing, and a clear
  can make it true without waking anybody. The program uses OR only, and so does
  the run.
* Two threads that join the same thread, or a detach between the death of a thread
  and the run of its joiner, make two callers the owner of a dead thread, and the
  later one touches it after it was torn down (`thread.c:327` and `:373`).
  `TornDownOnce` is stated for the other cases.
* Ports: a port that was removed from its group still points to it, so later
  writes wake the group's readers; removing it a second time returns with the thread
  lock held (`port.c:354`); closing it afterwards deletes from a list through a NULL
  pointer; closing the group leaves its ports pointing to freed memory. One wake-up
  is given for a write of several packets and for `port_group_add` of a port with
  several, and a port that is read both directly and through its group can leave
  the direct reader asleep. `port_close` reschedules before it clears the magic,
  so a call may come in between, and a reader that was woken but has not run finds
  the port freed. Two creators of one name can both succeed (`port.c:170`). A write
  port that is destroyed while it is read never gets its buffer back to free.
  `misuse` is the history of these; the properties are about the other behaviours.
* TCP: a RST in TIME_WAIT leaves the time-wait timer set, whose callback then asserts;
  `tcp_close` in the states after a close returns with the socket's lock held
  (`tcp.c:1259`). A FIN is sent with the sequence number at the lower end of the
  window and not sent again: a close right after a write can cut off what was
  written. SYN and FIN are not retransmitted, a repeated SYN resets a connection in
  SYN_RCVD, and nothing is acknowledged in FIN_WAIT_1. `tcp_write` on an accepted
  socket that is still in SYN_RCVD returns `ERR_CHANNEL_CLOSED`. `tx_win_high` is
  computed and never read, so a peer's window is not respected. Closing a listener
  leaves a thread in `tcp_accept` for ever.
* PSAR: a file that expands to fewer bytes than its header says is handed over with
  the rest of the previous one behind it; a PBP whose offset points to itself is
  read for ever.
* spifs: a page that is rewritten is erased first (`spifs.c:373`), so a failure before
  the write (`spifs.c:379`) loses what it held, the bytes beside a partial write
  included, although an earlier `spifs_write` reported them written;
  `CrashKeepsFiles` promises a page until its rewriting begins. A read error at mount
  (`spifs.c:402`, 426, 432) is taken for a corrupt table: the mount succeeds with the
  older one, and what only the newer one had is gone with the second commit.
  `spifs_write` reports success when the table could not be committed; a
  failed write leaves the longer length in memory; a failed remove frees the file
  in memory while it is on the device, and the next create may erase its pages
  (the history `exists` leaves such a file out); open handles outlive a remove and
  open directories an unmount; the generation wraps to the value that marks a
  corrupt table; an interrupted format can leave no valid table.
* norfs: between the erasure of the collected block and the finished mark a loss of
  power loses the copies (`Exposed`), since a mount erases a block without the mark; an
  inode of a deletion can be freed by the collection inside `find_space_for_object`
  while `norfs_put_obj_iovec` still holds a pointer to it (`put_uses_freed_inode`); a
  collection that fills a block exactly leaves the write pointer at the header of the
  next, where the put writes its object and returns `NO_ERROR`, and the next mount
  finds a bad header and not the object (`put_over_header`); `norfs_wipe_fs`
  mounts the file system at its end although `norfs.h` says "Leaves filesystem
  unmounted".
* `write_ipl` looks neither at the result of an erasure nor at those of the index
  writes (`ipl.c:133`), so it can return 0 without a readable index;
  `SuccessMeansWritten` is about the data blocks.
* The hash of the updater takes `copylen` bytes of the buffer whatever `f_read`
  delivered (`checkupdaterstate.c:50`).
* A press stored between the menu's `on_enter` and `on_press_keys = 0`
  (`statemachine.c:91`) is lost; the user has to press again.
* Files may be short after finish (`f_write` stops with `FR_OK` on a full volume), so
  `FinishMeansFlashed` asks that they exist, not that they are whole.

## 4. Fairness

* `Sched`: strong fairness of `timer_interrupt`, because the tick is periodic and
  stays pending while interrupts are disabled; weak fairness of code under the
  lock and of the return from an interrupt, because it runs to its end. There is
  no fairness for threads: a thread may compute for ever.
* `Mutex`, and `Event` and `ThreadLife` in `objects`: weak fairness of the return from
  `wait_queue_block`, and of a thread in the middle of `thread_detach`: a READY thread
  runs again. That is what `NoStarvation` shows of the scheduler for
  threads of one priority, and the program's threads have one priority. `Mutex`
  also assumes that a holder releases: the program's critical sections are loops
  over pixels and copies of a few fields.
* `Timer`: weak fairness of the clock with its tick interrupt, and of a thread that
  is in the middle of `timer_set`.
* `StateMachine`: weak fairness of the main thread only; handlers return.

No fairness is assumed of the user, of keys, of timeouts, of the network, of calls
that have not begun or of failures. The properties of `Port`, `Tcp`, `Psar`, `Spifs`,
`Norfs`, `Ipl` and `Installer` are safety properties and need none.

## 5. Proofs

TLC checks small instances; the theorems below hold for every value of the
constants that satisfies the named assumptions.

| theorem | statement | what it says of the code |
|---|---|---|
| **`MutexProofs`** | | `kernel/mutex.c` |
| `MutexInvariant` | `Spec => []MutexInv` | the inductive invariant; `TypeCorrect`, `MutualExclusionHolds`, `CountIsExact` and `QueueAgrees` are its parts |
| `GrantIsFinalHolds` | `Spec => GrantIsFinal` | a thread that was handed the mutex stays its owner until it runs |
| `NoStrandedWaiterHolds` | `Spec => []NoStrandedWaiter` | a queued thread with nobody owning the mutex means that a timed wait has expired |
| **`ObjectProofs`** | | the other objects, `kernel/timer.c` |
| `SemaphoreExact` | `SemSpec => []SemInv` | exact count, nothing given out twice |
| `SemaphoreServes` | `SemSpec => []NoWaitForAvailable` | until a timed wait expires nobody waits for what is there |
| `EventCorrect` | `EventSpec => []EventInv` | nobody queued on a signaled or destroyed event, one thread per signal with AUTOUNSIGNAL |
| `ThreadLifeCorrect` | `ThreadLifeSpec => []ThreadLifeInv` | no joiner left behind, torn down once |
| `EventFlagCorrect` | `OrOnly` gives `FlagSpec => []FlagInv` | no raise missed, none taken twice |
| `BytesOnceInOrder` | `CbufSpec => []CbufInv` | circular buffer: every byte once and in order, no reader asleep beside one |
| `ListInTrueOrder` | `TimerSpec => []TimerInv` | the timer list is in the order of the real due times, nothing in it overdue after a tick |
| `NeverEarly` | `TimerSpec => FiresDueTimers` | no callback before its time or after its cancellation |
| **`SchedProofs`** | | `kernel/thread.c` |
| `SchedulerConsistent` | `Spec => []SchedInv` | queues, bitmap, counts, timers and states agree; one thread runs |
| `SwitchesToHighestPriority` | `Spec => DispatchesHighest` | every switch is to a thread of the highest READY priority |
| `SchedulerServesMutex` | `MutexSpec => ImplementsMutex` | `mutex.c` on `thread.c` does only what `Mutex` allows, so what `MutexProofs` shows holds on the real run queues |
| **`TcpProofs`** | | `lib/minip/tcp.c` |
| `RefCountsExact` | `Spec => []RefsExact` | the reference count is the number of holders: freed once, by the last, and not touched afterwards |
| `NobodySleepsOn` | `Spec => []NoSleepingCaller` | no reader asleep beside data or an end, no writer beside room |
| `NothingForgotten` | `Spec => []TimersArmed` | data in flight has a retransmission timer; what was received was acknowledged or has a timer |
| **`TcpStreamProofs`** | | `lib/minip/tcp.c` |
| `BytesArriveIntact` | `Spec => []StreamIntact` | what a reader got is a prefix of what the peer wrote, whatever the network loses, repeats or delays |
| **`ApplicationProofs`** | | `gamepad`, `statemachine.c`, `ipl.c`, `app/aiseirigh/states` |
| `ReadsAreOfTheirTime` | `PadSpec => []PadInv` | only edges made after the call began |
| `NoTransitionLost` | `SMSpec => []SMInv` | no assertion fails, no transition is dropped |
| `FlashedOnlyOnConsent` | `SMSpec => []ConsentBeforeFlash` | nothing behind the menu without the key |
| `MachineImplementsPad` | `SMSpec => PadSpec` | the program uses the library as its specification says |
| `IndexesAreTrue` | `IplSpec => []IplInv` | an index names chunks in order at whatever step the power fails |
| `ZeroMeansWritten` | `IplSpec => []SuccessMeansWritten` | 0 means that every page is there |
| `NothingTouchedUnchecked` | `InstallerSpec => []InstallerInv` | checked before touched, parents before children |
| `DoneMeansFlashed` | `InstallerSpec => []FinishMeansFlashed` | finish means that it is all there |
| **`PortProofs`** | | `kernel/port.c` |
| `PortsInvariant` | `PortSpec => []PortsSound` | the inductive invariant of the next two |
| `PacketsNotLost` | `PortSpec => []NoSilentLoss` | what was written without an error and not yet read is in a buffer that a reader has or will be given, in order |
| `PortsBelong` | `PortSpec => []PortInv` | one owner per buffer, one reader of a unicast port, one port per name; nothing used after it was freed, with the provisos of section 3 |
| `NobodyAsleep` | `PortSpec => []NoReaderAsleep` | while threads wait on a port or on the group, every packet there has a woken thread coming for it |
| **`StorageProofs`** | | `lib/fs/spifs`, `app/aiseirigh/psar.c`, `lib/norfs` |
| `SpifsInvariant` | `SpifsSpec => []SpifsInv` | the inductive invariant of the next two |
| `SpifsKeepsFiles` | `SpifsSpec => []CrashKeepsFiles` | wherever the power fails or a write does, the table a mount would take is consistent and has every file that was reported created and not asked to be removed, not shorter than last reported, with its own data in every page written whose rewriting has not begun; after a mount that could not read the newer table, of what both tables have |
| `SpifsCookies` | `SpifsSpec => []CookiesAlive` | an open directory cookie stands at a file that is still in the list |
| `CallbacksGetTheirs` | `PsarSpec => []DeliversEntries` | every callback is given its own entry's data, in the order of the table, directories first |
| `NorfsReferencesExact` | `NorfsSpec => []ReferencesExact` | between calls an inode counts exactly the copies of its object that a mount reads, until a put goes wrong (`put_over_header`, `put_uses_freed_inode`) and again from the next mount on |
| `NorfsCrashKeepsObjects` | `NorfsSpec /\ []VersionsNear => []CrashKeepsObjects` | a mount finds what was last stored, deletions included, wherever the power fails, with the three exceptions that `CrashKeepsObjects` names (the window `Exposed`, a version overtaken by a collection, an object put over a header), as long as the versions of an object's copies can be compared |

`MutexProofs` begins with the lemmas on the wait queue that mutex, objects and circular
buffer share: block, wake one, wake all, timeout and destruction preserve
`WaitQueueInv` and change the set of waiting threads by exactly the threads they say.

**Assumptions.** Each module's `ASSUME` types its constants; TLC evaluates it on the
instances. The ones that say more:

* `MutexAssumption`, `EventAssumption` and `SemaphoreAssumption`: the set of threads
  is finite, since their accounting counts threads.
* `OrOnly`, a hypothesis of `EventFlagCorrect` alone: every request is of mode OR, as
  all of the program's are. Without it the statement is false (section 3).
* `TimerAssumption`: delay, lag of a thread in `timer_set` and two ticks are
  together less than half the range of the clock, without which `TIME_LT` means
  nothing; it also spells out that 2^Width is even, because the provers know nothing
  of powers.
* `TcpAssumption`: the bytes of both directions, the window and the two control flags
  are together less than half the range of sequence numbers, without which the signed
  comparisons of `tcp.c` mean nothing. It is a bound on what a connection carries:
  what is proved of `Tcp` is of connections whose sequence numbers wrap at any byte,
  and at most once.
* `QsortSorts`: what `processpsarstate.c` asks of the C library's `qsort`: the same
  directories, none before one that the comparison puts behind it. The model's `qsort`
  is `SortSeq`, about which only induction could prove it; TLC evaluates the
  assumption on the instance. `TableHasParents`: with a directory the update's table
  has its parent.
* `SpifsAssumption`: the device has room for two tables, and no file has the name of a
  table. A name of the model stands for a node of the list in memory, and the nodes of
  the two tables are at its ends, where the search for a file does not look.
* `NorfsAssumption`: there are at least two blocks, since with one the block being
  collected would be the one being written; it also spells out that 2^VersionWidth is
  a positive number.
* `VersionsNear`, a hypothesis of `NorfsCrashKeepsObjects` alone: the versions of one
  object's copies on the flash are within half the range of version numbers, counted
  from some version on. `VERSION_GREATER_THAN` orders nothing without it. Versions wrap
  all the same, any number of times. It is what one expects of a flash that holds fewer
  than half as many objects as there are versions and is collected in turn; that it
  always holds is not proved. On the instance of `storage` TLC finds it in every
  reachable state.
* `PortAssumption`: the set of readers is finite, since woken threads are counted
  against packets; ports, group and NULL are different objects, a buffer holds at least
  one packet and a write has at least one.
* `PsarAssumption`: the containers are laid out as the reader expects them, each entry's
  header behind the data of the one before. Names, sizes, kinds and table are free.
* `NullIsNoState`: the NULL `next_state` is not a state.

**Why the invariants need strengthening.**

*Mutex.* `MutualExclusion` is not inductive: `mutex_acquire_timeout` takes the mutex
when `count` was zero, and neither `holder` (NULL during a hand-off) nor the wait
queue is looked at. The invariant therefore says what `count` is, the number of
threads holding, queued, chosen, or timed out and not yet run (`CountIsUsers`); that
the queue holds exactly the BLOCKED threads, once each (`QueueMatchesState`), so that
waking the head makes exactly one new owner; and that a BLOCKED thread is inside
acquire, and that only destruction answers it with `ERR_OBJECT_DESTROYED`
(`BlockedInAcquire`), so that a thread that comes back with an error is known to be
counted if and only if it takes its count back. For `NoStrandedWaiter` it is
strengthened again (`UnexpiredInv`): as long as nothing has expired, a queued thread
implies an owner (`UsersOwned`, `ReleaseLeavesNobody`).

*Objects.* `SemIndInv`, `EventIndInv`, `ThreadLifeIndInv` and `FlagIndInv` are the
checked invariant, `WaitQueueInv`, and where each BLOCKED thread is in its call. The
semaphore's is the mutex's argument with a count that may be negative; that nobody is
inside but queued as long as nothing has expired gives `NoWaitForAvailable`. For the
flags the step to see is that taking a match away from one waiter cannot create one
for another (`OrPattern`), which is what fails for AND.

*Scheduler.* `SchedInv` counts in how many lists a thread is. `SchedIndInv` says it
with lists: run queue p holds, each once, the READY threads of priority p and nobody
else (`RunQueues`), wait queue q the threads BLOCKED on q (`WaitQueues`). There is one
lemma for each list operation (head and tail insertion, removal from the head and from
the middle) and one for `thread_resched`, which finds the highest set bit; every
action is a composition of these. `WakingShape` carries the loop of `wait_queue_wake_all`
from one iteration to the next, and across the return of an interrupt.

*Mutex on the scheduler.* Every step of `MutexOnSched` is a step of the scheduler, so
`SchedIndInv` is kept; `MutexUses` adds that threads block only on the mutex's queue and
only inside acquire, and that a queued wait timer is one that `Mutex` knows of. What
`Mutex` sees of a step, who is queued, in which order, and who is BLOCKED, then follows
from `blocked_on` and the wait queue before and after it: which thread
`thread_resched` picks never needs to be worked out again.

*Timers.* Order of the list is order of the due times only if every entry's
`scheduled_time` is what the clock will read then (`Listed`), and if two entries are
never half a range apart: an entry is overdue by at most a tick, the lag of the thread
that set it and the tick that is running (`Slack`). `Compares` is the lemma that
`TIME_LT` and `TIME_GT` then order the times behind the readings; `Inserts` that
`insert_timer_in_queue` puts a timer behind those not later and before those that
are; `NextPeriod` that a periodic timer's new time, one period on or, if that was
missed, one period after the tick, is again near enough to be compared. `Fired` says of
the timer whose callback runs what is needed if it goes back into the list, and
nothing if the callback cancelled it or set it again.

*Circular buffer.* The loops of `cbuf_write` and `cbuf_read` copy up to the end of the
array and then from its beginning. `Writing` and `Reading` are their loop invariants
and `Content` says that the bytes between tail and head are the consecutive numbers
after those delivered; `Wraps` and `Distances` are the arithmetic of positions modulo
the size. `EventAgrees` (signaled if and only if there is something to read) is what
keeps a reader from sleeping.

*TCP.* Every handler works on one socket under its lock, so the invariant is one
predicate per socket, `SocketInv`: it is `Absent`, or it is `Sound` relative to what its
lock does not protect (`Context`: what was read and written, the callback that is due,
who has the handle) and to the number of those who hold it otherwise (`Others`). `Sound`
has four parts. `Balanced` is the reference count. `Events` says in which states and
with which buffers an event may be down, which is what a sleeper needs. `Transmits`
says that what is in flight is in the buffer and has a timer. `Closes` says in which
states a socket may still be open, may have left the list, and may have a time-wait
timer; without it the theorem on reference counts fails at the callback that removes
the socket from the list, which must find it there. `Acknowledges` refers to the
segments sent, and survives because `net` only grows. There is one lemma for each
function of `tcp.c` on the socket (timers, sending, data, acknowledgements,
retransmission, close) and one for each state's branch of `tcp_input`; `StepAt` and `Untouched`
carry a change of one socket to the whole invariant.

*The stream of TCP.* Segments never leave the network of the model, so each may be
received again at any later time, and `StreamIntact` must be known of every segment
ever sent. `StreamInv(b)` chooses the number `b` of each side's first byte and counts
from there: `Sender` says that the transmit buffer holds the last bytes written,
numbered from `tx_win_low`, and that everything before has arrived; `Receiver` that what
arrived is a prefix of what was written, that `rx_win_low` is the number of the next
byte as long as no FIN was counted, and that the window is not larger than the room in
the buffer, without which a segment inside the window could be cut; `Tells` that a
segment carries bytes that were written, under their numbers, and acknowledges only
what arrived. A sequence number then determines a byte because `TcpAssumption` keeps
all of them within half the range. The invariant rests on that of `TcpProofs`
(`StreamIndInv`), and again there is one lemma for each function of `tcp.c`.

*State machine.* `TransitionPending` needs to know at which points of the loop
`next_state` may differ from NULL and when `SM_TRANSITION` is up for it
(`TransitionExact`). Consent is traced from the poll to the press thread's keys, to
`on_press_keys`, to the transition that leaves the menu (`ConsentKnown`).

*IPL and installer.* `ClearedInOrder` says which blocks the two loops have passed,
`ListedWhen` that `block_index` is the list of written chunks in order and that an index is
written only when it is complete. `CheckedSoFar`, `FormattedSoFar` and `CreatedSoFar`
say for each state of the chain what this attempt has established, so that what
earlier attempts left on the flash is never needed.

*Spifs.* `CrashKeepsFiles` is about the table a mount would take, `Newest`. That is not
always the table in use: a commit whose last page was written before the write
reported an error leaves a newer table on the device than `spifs->generation` says, and
so does a mount that could not read the newer one; the operations that follow work on
the old one. So both, the table in use and the one
a mount would take, have every file that must exist with its length and data, and both
agree with the list in memory about where it lies (`Mounted`): data written to a file
must lie in the file in each of them. `TablesSound` says that a table with a right
checksum is a list without overlaps between its own two entries, `OwnData` that a page
of data stored is still that file's (a page between its erasure and its write is not
among them, `PageStep`), `OlderTable` that what a mount of the older table keeps agrees
with the newer one, and `OpOnFiles` where each operation in progress
may stand: the file being created is not yet one that has to be there and no cookie
names it, so that its being taken back out after a failed commit harms nobody. `Newest`
itself changes only to the table in use or to the one just completed. The lemmas are
about lists: insertion into a gap, removal, a changed length, and the search by name.

*Ports.* `PortBase` says how the structures belong together: who is in
`write_port_list` (`WritePorts`), that the list of readers of a write port and the
`wport` pointers of the read ports are each other's inverse, also while a read port is
closing (`ReadPorts`), that the members of the group are open read ports that point
to it (`GroupMembers`), and that a thread is in a queue if and only if it is blocked
there (`PortThreads`). `PacketsKept` adds to `NoSilentLoss` that nothing in a buffer
or read from it is newer than the last packet written, without which the next packet
would not be behind all others; it is stated for ports that are created and not yet in
the list too. `PortsFresh`, kept until `misuse` has "stale", is what stands between a
thread and freed memory: a thread that waits, or was woken for a packet, comes back to
an open port that is not closing, and a port that points to the group is in its list.

`NoReaderAsleep` counts, and needs the count for all queues at once. `Covered` says of
a queue in which threads wait that there are at most as many packets as woken threads
that come for one (`Coming`). A write adds a packet to every port that takes it, and to
the group one for each of its members among them, and it wakes as many threads or
leaves nobody waiting (`WriteAwake`); a thread that comes takes a packet, or finds
none, and then there are none (`ReturnsAwake`); a timeout takes away a waiting thread
and not one that comes. Packets of different ports are different, and those of one
buffer are because they increase (`PortsOrdered`), so that taking one really takes one
away. `GroupAlone` says that nobody reads a port directly that is in a group: its
wake-ups go to the group, which is why the misuse "unwoken" has to be excluded. The
lemmas about lists (append, delete, head, tail, prefix) and about finite sets that grow
by one element at a time replace what the code does with loops.

*PSAR.* `PsarInv` says for each step of `psar_init` and `psar_read_each_file` where the
file position is, which entries are in the list, what the copy of the table is, and
which lines have been looked up. The entry of a table line is found by name, first
match, in the list as in the container (`TableRead`); what was handed over is, at each
position, exactly what comes before the next line: directories, then files
(`HandedInOrder`). Data is found again by its offset, so two entries must never lie
over each other: lemma `Apart`, by the least entry that would.

*Norfs.* `NorfsBase` says which blocks are free, open and being collected at each step
(`BlockStates`), and that an inode counts the copies of its object in the finished
blocks and the one being filled, less those that the collection has already passed
(`Held`), and stands at one of them (`InodesExact`): it is the inductive invariant of
`NorfsReferencesExact`. The counts are cardinalities of sets of places, and a step adds
or takes away one place. All this is about a memory that is `Active`, which excludes
"broken"; what a put over a header does to the flash is harmless to the other objects
because the block whose header it spoils is free (`BlockStates`: a write pointer at the
end of its block stands before a free one, or is behind the last), and the mount that
follows builds the memory anew.

What a mount builds is computed by two loops, here recursive functions over `0 .. N`.
`Recursion` says that such a function satisfies its equation and `Rounds` that what
each round keeps holds at the end: both are stated for sets and functions, not for an
operator, and so can be cited. `MountBuilds` follows: after the mount an inode counts
the copies read, and under `VersionsNear` it stands at the copy that is newer than
those read before it, with none newer than it (`Wins`). `WinsUnique` says that there is
one such copy at most, so that what is known of the flash and of a mount can be
compared.

`NorfsKeeps` is about two indexes. `FlashKeeps` is about the one that a mount would
build: the newest copy in the finished blocks has the value last stored, or there is
none and the object was deleted. `MemoryKeeps` says the same of the inodes in memory
and of the copies that include the block being filled, which has no finished mark yet.
The second becomes the first when the mark is written (`KeepsFinish`). A collection
drops the last trace of a deletion only when no older copy is left, which is where the
exact reference count is needed, and otherwise gives the copy a version newer than the
original's, so that both may be on the flash when the power fails (`KeepsCollect`).
What a put does to the flash is the same whatever becomes of the memory (`FlashPut`).
Keys in `overtaken` are those of the finding `norfs_unmount` (section 6) and those put
over a header.

**Only model-checked.**

* All liveness (`WaiterAcquires`, `NoStarvation`, `DestroyReleases`, `DeadIsTornDown`,
  `TimerFires`, `InstallEnds`): fairness and ENABLED are out of the prover's reach.
* Of the hypothesis `VersionsNear` only that it holds on small instances is known.
* What `SortSeq` and the C library compute for every input (see `QsortSorts`).

## 6. What the checks found

**A waiter left behind after a timeout** (`mutex_timeout`, `kernel/mutex.c:86`).
t1 holds the mutex, t2 waits with a timeout. The timer makes t2 READY; it is still in
`count`. t1 releases: `--count` is 1, so it wakes the head of an empty queue, that
is nobody. t3 asks: `++count` is 2, so it queues, although nobody has the mutex. t2
runs and takes its count back. t3 now waits for a mutex that nobody holds and that
nobody will release. The comment promises a wait "for the mutex to become
available". The program itself only uses untimed acquires, for which
`NoStrandedWaiterHolds` shows that this cannot happen.

**Success without a boot loader** (`installer_ipl`,
`app/aiseirigh/states/flashfilesstate.c:56`). The result of `write_ipl` is stored and
0 is returned, so the installation reaches finish ("Done. Press X to reboot.") when
the good blocks ran out or a write did not verify, which `ipl.c:76` calls "a VERY
bad situation" in which it "cannot continue".

**An old value after an unmount** (`norfs_unmount`, `lib/norfs/norfs.c:521`).
`norfs_put_obj_iovec` looks the object up and takes its version plus one, and then
asks for space. If that collects the block in which the object is,
`collect_garbage_object` copies it with its version plus one. The new value is
written with the same version as that copy of the old one, and the next mount keeps
whichever it reads first. `norfs.h:20` says "File system can be unmounted.  All data
is stored." The same happens to a deletion, and brings the object back.

**A segment that overlaps what was received** (`tcp_overlap`, `lib/minip/tcp.c:643`).
The client sends a byte and then, because the first acknowledgement is not there
yet, both bytes from the beginning. The receiver has the first byte; the offset of
the new part is computed as `sequence - rx_win_low`, the wrong way round, and
wraps, and the assertion `offset < len` three lines further fails. Without
assertions the bytes are taken from before the segment.

## 7. Not modelled

* real-time threads and statistics (`kernel/thread.c`); several processors: the
  target has one;
* the build with a hardware timer for each deadline (`kernel/timer.c`): the PSP has a
  fixed tick;
* the bytes of the PSAR and of the PBP, decryption, decompression and
  personalisation: straight-line code on buffers, visible elsewhere only by failing;
* CHS arithmetic and record layout in fdisk, and its `lflash_sync`: the model's
  records are on the flash when they are written;
* limits and initial values that no property tells apart: `MAX_PORT_GROUP_COUNT` and its
  `ERR_TOO_BIG` (`kernel/port.c:250`, 313), event flags that begin with bits set
  (`evflag.c:66`), the 16 bits that a mount has for an object's place on
  the flash (`norfs.c:788`; right as long as the flash is at most 64 KiB), a second connection accepted by a listener
  (the run has one, a further SYN finds no memory);
* the two sections under the state machine's mutex (`statemachine.c:41`, 53) and the
  assertion before the thread lock in `mutex_acquire_timeout` (`mutex.c:65`) as steps of
  their own: nobody else changes what they read in between;
* screens, fonts, console, display selection: output;
* assembly, registers, drivers, the NOR flash's driver; FatFs, mbedTLS, miniz and
  the rest of `external/lib`;
* the network below TCP (`lib/minip`: IP, UDP, ARP, DHCP) and the rest of LK that is
  not linked into the installer: block devices and their cache, the file system
  layer, partition tables, console, virtual memory, platforms and boards. Most of
  the repository's lines are of this kind, register definitions and drivers for
  other boards among them.

The contents of files, and a memory stick that changes during an installation, are not
modelled either: the updater is hashed, closed and opened again by path.

## 8. Plan

Every safety property of the passing runs is proved. What is left is `VersionsNear` of
`Norfs`: that blocks are collected in turn bounds how old a copy can be, which needs an
invariant on the ages of the blocks.

Models, should the libraries come into use: the block cache (`lib/bio`, `lib/bcache`)
and the file system layer's mount references (`lib/fs`).
