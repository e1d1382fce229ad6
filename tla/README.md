# A formal model of the TP-SO kernel

TLA+ models of the operating system in `src/` (the x64BareBones kernel with
processes, pipes, semaphores and two memory managers, its shell, and the tool
that makes its disk), checked with TLC and, for the process table, the ready
queues, pipes and pipelines, semaphores, the free-list memory manager, the disk image,
the keyboard and the shell with its children, proved with TLAPS for every size. The models are read off the code, not off its documentation. `PROJECT.json` maps
every definition to the lines it stands for, lists the runs, and lists the
hazards of the code with the properties that guard them.

Everything is run from this directory: `tlc -config ProcessTable.cfg
MCProcessControl.tla` checks a run, `tlapm ProcessControlProofs.tla` the proofs.

## The system

One processor, one address space, no memory protection. What interacts does so
through the kernel, and, before `execve`, through the memory of the shell.

| Component | State | Operations | Interacts with |
|---|---|---|---|
| Scheduler, process table (`scheduler.c`) | PCB nodes in six ready queues, `blockedList`, `current`, `foreground`, `idle` | fork, exit, kill, wait, yield, block, unblock, priority, ground, `scheduler` on every tick and `int 20h` | everything |
| System call dispatcher (`syscallsDispatcher.c`) | none; a call that blocks keeps its loop on the process's stack | 50 calls; read and wait loop over `int 20h` | scheduler, buffers, semaphores |
| Interrupts (`interrupts.asm`, `exceptions.c`) | none | tick, key, `int 20h`, exceptions | scheduler, keyboard |
| Timers (`timer.c`) | list of timers that point at PCBs | `sleep`, `updateTimers` | scheduler (called by each other) |
| Keyboard (`keyboard.c`) | shift, control and capslock flags | make and break codes, `addKey`: a character for the standard input, Ctrl-C, Ctrl-D | standard input, `foreground` |
| Buffers, pipes (`bufferManagement.c`, `pipe.c`) | ring of bytes, cursor, references to processes | open, read, write, close | PCB `pdTable`, scheduler (wakes readers) |
| Semaphores (`sync.c`, `semaphore.asm`) | list of named nodes, `head`, `tail` | open, wait, post, close | kernel memory |
| Memory managers (`freeListMemoryManager.c`; `buddyMemoryManager.c` with `make buddy`) | a list, or a tree, of headers inside the memory | alloc, free, realloc | PCBs, buffers, stacks, user heap |
| Process heap (`scheduler.c`) | list of allocations per process | malloc, free, realloc, release at exit | memory manager, fork |
| Shell (`sh.c`) | command line, arguments, `isBackground`, history | read a line, parse it, fork, pipe, execve, wait | keyboard, its children (shared memory), system calls |
| Programs (`Userland/`) | their own variables | read, write, exit | system calls |
| Disk image (`bmfs.c`, `ModulePacker`) | disk: boot record, directory, system, files; packed kernel | initialize, format, create, delete, read, write; pack | boot loader |
| Kernel start (`kernel.c`, `moduleLoader.c`) | memory with kernel, modules, BSS | `loadModules`, `clearBSS` | what ModulePacker packed |
| Drivers (`video.c`, `speaker.c`) | screen memory, pen | output | — |

What makes it hard:

* **Interrupts and wake-ups.** All gates are interrupt gates, so kernel code runs
  with interrupts off; but a call that blocks runs `int 20h` in the middle and
  goes on when it is picked again, and between the two a process can be woken by
  several parties, blocked by hand, or killed. A wake-up may hit the process that
  is running.
* **Pointers that outlive what they point to**: `foreground`, timers, references
  of buffers, `current`, and pids, which are used again.
* **Several records of one fact**: a process's state and the list it is linked in;
  `pdTable` and the references of a buffer; `parentId` and `childsIds`.
* **Bounded tables** without checks: descriptors, references, children, buffers.
* **In-place data structures**: the headers of the allocators, and the links of a
  process's allocations, lie in the memory that is handed out.
* **Shared memory without locks**: a forked child reads the shell's line,
  arguments and `isBackground` while the shell may go on to the next line.
* **Interrupted writing**: a run of `bmfs` can be killed between any two writes.

The kernel has no crashes to recover from, no messages and no second processor.

## Modules

| Module | Models | Checked by |
|---|---|---|
| `ProcessControl` | process table, scheduler, timers, keyboard input, every call that moves a process | `MCProcessControl` |
| `ProcessControlProofs` | theorems on it | TLAPS |
| `ReadyQueues` | the ready queues in their order, quanta, aging: who runs next | `MCReadyQueues` |
| `ReadyQueuesProofs` | theorems on its types, on aging and on its lists | TLAPS |
| `OrderLemmas` | least and largest numbers, induction up to a number; for the proofs | TLAPS |
| `IPCBuffers` | one buffer | through `Pipe` |
| `Pipe` | a pipe among processes that fork, close, die | `Pipeline` |
| `Pipeline` | the pipelines of the shell: `Pipe` as `runProgram` and its two programs use it | itself |
| `ByteStream` | what a pipe promises | refinement in `Pipe` |
| `PipeProofs` | theorems on `Pipe`, the refinement among them, and on `Pipeline` | TLAPS |
| `Semaphores` | the list of semaphores and their values | `MCSemaphores` |
| `SemaphoresProofs` | theorems on it | TLAPS |
| `SyncTest` | the processes of `test_sync.c` over `Semaphores` | `MCSemaphores` |
| `FreeList` | the default memory manager | `MCFreeList` |
| `FreeListProofs` | theorems on it when blocks are given back last-in-first-out | TLAPS |
| `BuddyMemory` | the memory manager of `make buddy` | through `ProcessHeap` |
| `ProcessHeap` | malloc, free, realloc, fork and death of processes over `BuddyMemory` | itself |
| `Keyboard` | scan codes, modifiers, characters | through `CommandLine` |
| `CommandLine` | the shell's line, parsing, and its children up to `execve`, over `Keyboard` | `MCCommandLine` |
| `CommandLineProofs` | theorems on both | TLAPS |
| `BMFS` | the tool that makes and fills the disk | through `Image` |
| `Image` | packer, disk, boot loader, kernel start, over `BMFS` | `MCImage` |
| `ImageProofs` | theorems on both | TLAPS |

### ProcessControl

`kernel` is a record of the kernel's data structures (the PCBs, what is linked in
the ready queues and in the blocked list, `current`, `foreground`, the linked
timers, the number of characters in the standard input and its references);
`cont` says for each process where it goes on when it is picked: in user code, or
inside wait, sleep, read or the exception handler. Functions of the code are
operators from kernels to kernels with the names of the code (`deleteProcess`,
`setParentReady`, `checkExited`, ...), and `scheduler` gives the set of kernels
that may follow. A handler up to and including its `int 20h` is one action; what
comes after is a second one (`WaitAgain`, `SleepEnd`, `ReadAgain`, `FaultAgain`),
which is the only thing the process can do when it is picked.

`timers` is the list of `timer.c`. A timer points at a PCB and has a copy of its pid,
and `removeFromList` unlinks the first one with the pid it looks for (`Unlink`; `turn`
is the place of a timer among those with its pid). That is the caller's own as long as
pids are unique; but a sleeper that is lost (woken by a tick while it still runs, at the end
of its quantum) leaves its timer, its pid is handed out again, and the next sleeper
with that pid unlinks the old timer instead of its own. The timer it leaves leads to
a PCB that may be freed. What `allocTimer` does to a list in which a freed timer is
still linked (it may cut it, or close it to a ring) is left out.

`freePCB` only takes the node back: the references of the standard input may still lead to
it (`sysClosePd` keeps the reference of a closed standard input), and `addKey` then
reads and writes the freed PCB, in the code and in the model. Where `getEntry` finds
no parent, `setParentReady`, `checkChilds` and `hasOpenChilds` (`scheduler.c:602-659`)
follow NULL. Address 0 is mapped and holds the interrupt descriptors, which
`idtLoader.c:24` puts there. Of them the code reads a pid (offset 0), the ground (4), the state (8),
the parent and the children (40, 44): no pid in use, no foreground and no state that
means anything, so nothing comes of it, and the model treats NULL as nobody.

Abstracted: time. A quantum may end at any tick, a deadline may have passed at
any tick, and `nextProcess` may take any ready process, so levels, quanta and
aging are left to `ReadyQueues` (an over-approximation: what holds here holds for
every policy). Bytes of the standard input are counted, not looked at.

One call is left out: `nice` on the caller itself. `changePriority` then links
the *running* process into a ready queue, although its comment (lines 571-573)
says that such a process is in no list and only its priority is changed. The
process can end up in two lists that share one `next` pointer and cut others off;
the sets of this module cannot express it. All theorems on `ProcessControl` hold
for systems in which no process does that.

### ReadyQueues

The other half of the scheduler: `sched` holds the six queues and `blockedList` as
sequences, and of each process its state, `agingInterval`, quanta and priority;
what a process is doing is left open, so it may block, yield, die or be woken at
any time. `scheduler` is the whole function: halve the aging and add the interval,
wake sleepers, `checkExited`, charge a quantum, `nextProcess`. The interval between
two calls is in `Elapsed`, at most a quantum because the timer ticks every 55 ms;
a program that has just replaced itself has `counterInit` 0, so its first interval
is the `Uptime` of the machine and sends it to level 5, from where it ages back.
Seen in the model and part of it: a process that only computes converges to level
0 or 1; nice 2 means level 3 and nice 3 to 5 level 5, and the effect fades with
every call; `insertLast` does not give new quanta; the process that `checkExited`
picks is charged a quantum at once; a forked child is queued as RUNNING; nice on
the pid of a process that was lost is refused.

### Pipe, IPCBuffers, ByteStream

`end` holds the two buffers, `pds` the ends in the descriptor table of each
process, `proc` where each process is. Bytes are numbered, so that loss,
doubling and reordering show. `marked` is a running process whose state was set
to READY behind its back (by `closePipe`, by `updateOppositeEnd`, or by something
outside: `SetReady`), `lost` is what becomes of it if its quantum ends then.
A write goes through the write end into the read end in one step, as
`updateOppositeEnd` does. After more than `BUFF_SIZE` bytes the code writes behind
the array (`cursor + dim % BUFF_SIZE`); the model stops there (`Overrun`).

The refinement: `Stream` instantiates `ByteStream` with the bytes in
the read end as the stream and what reads have returned as taken; the stream is shut when the write end is CLOSED and
ended when a read has returned nothing. The run `pipes` checks `Stream!Spec`.

### Semaphores, SyncTest

The list lives in `head`, `tail` and the `nextNode` of the nodes; `used` are the
nodes that are allocated; `opened` remembers what callers have opened. Each call
is one step: it runs with interrupts off, so the spin lock inside is always free.
`semClose` frees the node *after* the one it unlinks, as the code does: when the second
semaphore is closed that is NULL. The free-list manager then writes to a header below
address 0. The page fault is exception 0x0E, for which `loadIDT` installs nothing (it enters the
handler it calls so at 0x0D), so the gate of Pure64 takes it and the machine stops (`hung`).
The buddy manager finds nothing to free, and the caller goes on. `semClose` may do either.
`SyncTest` runs `my_process_inc` between system calls at the granularity of
`slowInc` (load, then store).

### FreeList

Memory is a function from cells to headers or data, a cell having the size of a
header. A header that was merged away stays where it was, with its links, until
an owner writes over it; the owner of a block writes to all of it or to nothing.
`live` are the blocks handed out. When a header is gone that the code would read,
the model stops (`Intact`).

Blocks given back in any order break the list (`free_any`). `MCFreeList` states the
discipline under which it keeps: only the last block is freed or grows, and it grows
only while its `prev` leads to a node in use. A block that has moved leaves a free
node in front of it; when it moves again, the node behind may keep a `prev` into the
middle of a merged node, so growing one block three times is enough.

### BuddyMemory, ProcessHeap

Operators on a memory of cells of `sizeof(MemNode)` bytes: a node is a header and
the cells behind it, and headers are never taken away, so a node made again at an
old place finds old links there, or what an owner wrote. `setDescendants` only
looks at them against the end of the memory, so a node that it makes over the first cell of
a block that was in use has the owner's `allocation` and `next` for links (`Header`, with
`Wild` for a pointer whose target is not followed). The step that makes such a node is
in the model, and is where `TreeSound` says that the tree breaks: malloc of a large block,
free, malloc of a small one. The run ends when a search goes on through such
a link (`halted`). A search that fails can leave a node split whose halves are both empty.

`ProcessHeap` adds the list of allocations that runs through the blocks themselves. Five
facts of the code shape its properties: free, or realloc, of the first allocation leaves
`firstAlloc` pointing at it; fork copies that pointer, so parent and child give back the
same blocks (`mixed` remembers both); `realloc` never frees the old block (`moved`);
`realloc` that fails on the first allocation writes through NULL, to address 8, and
goes on with the list as it was; and `copyBlocks` compares sizes that it reads through two
uninitialised pointers (`buddyMemoryManager.c:254-255`), so a `realloc` that needs another
block, or finds none, may copy something or nothing, end its process, or fault
(`copyBlocksFails`). `halted` is a handler that does not return, works in memory that
somebody else writes, or stops the machine.

### Keyboard, CommandLine

`Keyboard` turns make and break codes into characters; a modifier toggles its flag
with each code, so a repeated make code (typematic) turns its meaning around
(`repeated`). `CommandLine` reads them: `awaitCommand` (letters, backspace, tab, `&`,
`|`, enter), `checkCommand`, `getArguments` with `strtok` as what it
finds in the cells, and `runProgram` with the children, each of which takes three
steps before `execve`: parse into `lastArguments`, copy, set the ground. `typed` is
the line as the user sees it; `meant` is what a program should get of it. Ctrl-D puts a
NUL into the standard input. Alone there, `readBuffer` consumes it and reads nothing,
`getChar` gives -1 and the line stays as it is. With a character behind it it stays at the
front (`bufferManagement.c:72-77`), and the shell reads -1 for ever (`afterRead`): its
keyboard is stuck, and nothing that is typed arrives.

What the code does and the model shows: after the `yield` the shell may go on while
a child has not copied its arguments yet (`overtaken`), and the child then gets
those of the next line; `&` behind a pipeline makes the shell not wait, but the
programs stay in the foreground (`sh.c:241`); backspace does not take back an `&`.
`lastCommand` has 500 cells and no check of its length, `clearLine` clears 250, and
for a line of more than 248 characters the second command can point behind its end;
lines of the model fit. Ctrl-C's kill is in `ProcessControl`.

### BMFS, Image

A disk is a sequence of cells; `job` is what a run of the tool still has to write,
one `fwrite` (or one flush of the stdio buffer) per step, so `Killed` can end it
anywhere. A write that the disk refuses is not modelled: `write()` ignores the result of
`putc` and enters the new size all the same (`bmfs.c:785-793`), and `initialize` does not
look at what `fclose` flushes (577), so nothing is promised then. `Image` packs the kernel with one or two modules, gives it to
`initialize`, and at any time starts the machine from the disk. The master boot record
reads 512 sectors, 256 KiB with the boot loader itself (`bmfs_mbr.asm:31`), whatever the
length of the packed kernel, and Pure64 copies what lies behind itself in them to the kernel's
address (`pure64.asm:587-590`); a packed kernel that is longer arrives cut, and no tool says
so (`LoaderReads`). `loadModules` copies the modules out, `clearBSS` clears the cells over them. `Image`'s properties name what the code needs:

* the check for overflow (`bmfs.c:308`, `:369`) lets a product through that wraps to
  something larger, so the size of the disk is what was asked for only below 2^64;
* `ferror(disk)` is asked instead of the file that was read (`:524`): a system file
  that could not be read goes unnoticed (`built.read`);
* a system larger than block 0 reaches into block 1, where the first file goes;
* in a full directory with a deleted entry, `num_used_entries` stays 0 and the new
  file is put at block 1; and behind a deleted entry an unsigned difference wraps, so
  that room is found where there is none (`careless`: nothing is said after it).

## Runs

| Run | Instance | What it shows |
|---|---|---|
| `process_table` | all actions for one program at a time (init, idle, one node more), or for two programs the calls of shells, kill and readers, or those of sleepers; 4 pids, 2 characters | lists disjoint and without freed nodes, pids unique, nobody dead left, `foreground` sound, timers sound until a sleeper is lost, no reader sleeps on a character, only READY processes get lost |
| `shell_wait` | the shell's loop: fork, yield, wait, programs that end | wait returns |
| `ready_queues` | a shell and two programs, quantum 1, an uptime of four | each process in one list, in the level of its age, nobody put in front of those who wait there; only nice or execve make a program that computes old; nobody starves but behind higher levels, nice and deaths |
| `pipes` | three processes, two buffers, 3 bytes, never full | byte stream, end of file once and last, no lost wake-up, references and tables agree, freed with the last descriptor |
| `pipeline` | `a \| b` as the shell runs it, 4 bytes | it ends with everything copied unless the second program is lost, and nobody else can be |
| `semaphore_list` | three names, three nodes | no listed node is free, a name comes in twice only from the last node, open semaphores are cut off by `semOpen` only |
| `free_stack` | 24 cells, three sizes, blocks grow and go back last-in-first-out | list covers the memory, headers intact, blocks disjoint, all merged at the end |
| `buddy_heap` | 31 cells, two processes and idle, two sizes, two blocks held or left behind | the tree stays a tree, whatever is given back how often, until a split takes over an owner's links; free room is found; no block has two owners until a head of a list is out of date or shared |
| `image` | 30 cells in 5 blocks, three files, three entries, good and bad sizes | files disjoint and kept, room found, system kept, modules found by the kernel when the loader reads them all |
| `terminal` | lines of 7 characters, two commands, two children | each program gets its words, the shell is alone at the keyboard and waits for whom it should, shifts are released |

Two runs show that the code does not do what a text in the repository says:

| Run | Text | What happens |
|---|---|---|
| `sync_mutex` | `sh.c:349` | a wait at zero does not block: two processes in the critical section |
| `free_any` | `test_mm.c:54-58` | two live blocks share memory, after a free merged through a stale `prev` |

Met while modelling, without a run of their own: a current process that was set
READY is linked nowhere when its quantum ends, whatever the comment at
`scheduler.c:268-272` says, and idle runs instead (at boot this is the shell; every
property on losing processes is stated around it); bytes that do not fit into the
read end of a pipe are dropped and the writer is told they were written
(`pipe.c:73`, against `sh.c:337`); the third `semOpen` cuts off the second semaphore
(`sync.c:62`, against `:60`), `semClose` of the second frees NULL (`:102`); a timer is
unlinked by a pid that may have belonged to another sleeper (`timer.c:48`); Ctrl-D and then
a key leave the shell without a keyboard (`bufferManagement.c:72`); a packed kernel
beyond 256 KiB is cut when it is loaded (`bmfs_mbr.asm:31`); the buddy manager follows
links that the owner of an earlier block wrote (`buddyMemoryManager.c:124`); `block` has no effect on a
process in a ready queue (`scheduler.c:740`); `getSemById` compares the names of
the later nodes the wrong way round (`sync.c:113`), and `semOpen` does not compare
the last one (`sync.c:51`), so that one name can have two semaphores; the
allocator compares a size with header with one without (line 83), so a block that
was given back does not fit the request it came from; the second program of a
pipeline is lost if it closes the last write end while it runs (`pipe.c:112`);
growing a single block three times with `realloc` is enough to break the list of
free blocks (the guard of `StackNext` in `MCFreeList`); `openPipe` with fewer than
two free descriptors destroys a buffer that the process still holds (`pipe.c:33`);
the packed kernel with more than two modules overruns `moduleAddresses`
(`kernel.c:52`).

**Bounds.** The interesting cases of the process table need one process that
dies and a node and pid that are used again, and for orphans, adoption and
competing readers a second one; all calls with two programs at once are too many
states, so `process_table` has one of three workloads: `any`, `family`, and
`sleepers`, in which one program can be lost inside sleep and the other get
its pid, sleep and unlink the wrong timer. Four pids let a pid be used again
after a death and still grow. `keys` stops at 2 because only empty, not empty and
full are told apart. `ready_queues` counts time in quanta; an uptime of four makes
level 3 or more reachable, and aging halves it back through all levels.
Three processes around a pipe are the shell and the two programs; three bytes and
reads and writes of one or two make partial reads and an end of file behind data
possible, and in `pipes` and `pipeline` the buffer is larger than everything
written because a full one drops bytes. Three names and three
nodes let the list be cut off, closed and refilled. 24 cells hold six small blocks, or
large ones that do not fit next to them, so memory fills up in every order of sizes;
`BlockSize` 3 leaves rests that are larger than a header and smaller than a block. The 31 cells of `buddy_heap` hold
the three stacks and both sizes, split over several levels, until nothing fits; from
a state with more than `MaxHeld` = 2 blocks that are held or were left behind it does
not go on (`Bounded`), which leaves the first and the last block of a list, and large
blocks that are given back and cut up.
In `image` three files and three entries fill the directory and its room; contents
of one buffer and of two, and sizes of one block and of two, let writes be cut in
every place and gaps be too small; beside two modules, whose image reaches into the
first file, there is one file at most (`Bounded`). In `terminal` seven characters are `c d | d` and
`c d &`; `MAX_ARGS` 2 cuts off the third word; two children are a pipeline, or a program
in the background beside the next. There, keys are taken one by one, words have one
letter, control, the right shift and caps lock are used on the first, empty line
only; nothing is checked after a repeated make code, the next key comes when the standard input is empty or holds only
an end of the input, no line is typed after a child
was overtaken, and beside a program in the background a line has three characters
(`Bounded`). A bar is a word of its own there, with spaces around it: behind a word that
only ends in a bar (`c d| d e`) `getArguments` reads on past the bar, and the second
command loses its words, so `ArgumentsArrive` is claimed for bars between spaces only
(`sh.c:147` asks for the space behind the bar, nothing for the one before it).
`MaxValue`, `MaxLive`, `MaxBytes` and `PidLimit` bound counters only.
In `image` the loader reads exactly as many cells as the larger packed kernel needs, so
reading one less would show.

**Excuses.** Some properties end where the code breaks its own promise; the step that
ends them is in the model and remembered: `overtaken` (the shell goes on before a child has its
arguments: `ArgumentsArrive`, `ShellReadsAlone`, `WaitsForForeground`), `repeated`
(typematic: `ModifiersReleased`), `mixed` (a list of allocations with a stale or a shared
head: `OwnersKnown`), a lost sleeper (`TimersSound`), an inherited link (`TreeSound`),
`careless` (an unsigned difference of `create` that wrapped: the properties of `Image`),
`LoaderReads` (`ModulesLoaded`). Beyond them nothing is claimed.

**Deadlock** is checked in all passing runs but four: the pipe models stop when
everybody has died or blocked for good, `semaphore_list` where the machine does, and
`buddy_heap` where a handler does not return or works on data. Of the others, `SyncTest` stops when all are done, and
`free_any` where undefined behaviour begins.

**Fairness.** `ready_queues` assumes only that the timer ticks (`TickFair`, which is
`WF_vars(TimerTick)` written out, as a tick is always possible: TLC is slow at
deciding ENABLED of a scheduler call). `ProgramServed`
says that a program that is ready runs again, unless again and again others are
queued in higher levels, it is given another priority, or others die: the code
promises no more, as `nextProcess` always takes the highest level.
`shell_wait` assumes that a process that stays ready is picked again
and again (which `ready_queues` shows of programs that compute: their aging stays in
the two highest levels), that kernel code
goes on when it is picked, and that a program that runs again and again exits.
The start is the shell after its first read, because before it the shell is READY
while running and can be lost. `pipeline` assumes weak fairness of
the shell and of each program; nothing is assumed that would save a lost process.

## Proofs

Theorems hold for every set of nodes, every bound, and every behaviour of `Spec`,
under the assumptions named in the modules (`NodesAssumption`: init and idle are
two different nodes and NULL is none; `LimitsAssumption`: the bounds are numbers
and leave room for the pid of idle; `TimeAssumption`: an interval is at most a
quantum; `KeyboardAssumption`: modifiers are no character keys; `ProgramsAssumption`:
shell, writer and reader of a pipeline are three processes; the sizes in `FreeList`;
`DiskAssumption` to `ImageAssumption`: blocks and buffers are not empty, files are
sequences of cells, no name begins like a mark of the directory, `parseSize` returns a
number for every size that is asked for).

`ProcessControlProofs` proves `TypeOK`, `PlacementSound`, `UniqueIds`, `NoneExited`
and `ForegroundSound`. None of these is inductive: unique pids need disjoint lists,
disjoint lists need that nobody dead is linked, and that needs that at most one
process is dead when `checkExited` runs. The invariant is

    Inv == Settled(kernel) /\ cont \in [Nodes -> Conts]

where `Settled` is `Table` (types, disjoint lists, unique pids, init and idle alive,
foreground sound), `CurrentSound` and `Alive`. `Table` alone holds even in the middle of
a scheduler call, where `current` may already be freed. The proof follows the code: a lemma
for each function of the kernel says that it is `Mild` (changes states but no
lists or pids) or how it changes `Table`; `SchedulerSettles` puts them together:
from a settled kernel with at most one process set to EXITED, every result of
`scheduler` is settled; then one step per action. `UnusedIdFresh` is where the pid
of a child is shown to be new: the largest pid exists because the set of pids in
use is a finite set of numbers.

Its second part proves `TimersSound` and `OnlyReadyLost`. Both compare the lists
with the continuation of a process, so the invariant `ListsInv` ranges over `cont`:
`Sleepers` (until a sleeper is lost, each timer has the node and the pid of a placed process inside
`sleep`, and each of these has one) and `LostReady` (who is allocated and neither current nor in a list is READY,
or EXITED in the middle of a call). `Passes` is what every part of a scheduler call may
do to timers and lists; the chain of parts is put together by transitivity. The code
unlinks by pid, so the step from "the first timer with this pid" to "the timer of this
process" has to be shown: `MatchedSingle` says that no pid has two timers, because pids are
unique among the placed processes, `UnlinkFirst` that `Unlink` then takes exactly the timers with the
pids it was given, and `ForkPid` that a child's pid is on no timer.

Its third part proves `FamilyReaderNotStranded`, that no wake-up on the keyboard is lost,
for a family of programs that fork, read, wait, exit and kill, as many as there are
(`block` and `changeState` may set a process that was just woken to BLOCKED again, so
it is false of `Next`). It needs two invariants. `Heard`: a process in the lists that
`references` of the standard input records, and that waits in the foreground, has
nothing to read; a process blocks itself only when there are no keys, and `addKey`
wakes all of them with the first. `Recorded`: every process in the lists that has the
standard input is recorded; fork adds the child, and `closePDs` removes who has the
pid of the dead process, which is nobody else because pids are unique in the lists.
`Serves` is what a scheduler call does to both: it blocks nobody, links nobody and
forgets only the dead. `Recorded` needs `EnoughPlaces`, a place in `references` for
every node, and `Heard` does not: with more than `PD_SIZE` (32) readers fork goes on
without recording the child, and that child, once it waits, is not woken (TLC shows it
at once with `PdSize = 2`).

`SemaphoresProofs` proves `TypeOK`, `ListedAreAllocated` and the action
properties `TwiceFromLast` and `OnlyOpenCutsOff`. The invariant `Shape` is what nobody
intended: the tail stays at the first node, which has at most one successor, and both
are allocated. From it follows that the node that `semClose` frees (the one behind the
one it unlinks) is always NULL, and that an open semaphore can leave the list only
where `semOpen` overwrites the successor of the first node.

`ReadyQueuesProofs` proves `TypeOK` and `HogsStayHigh`: for every number of processes
and every quantum, only nice or the interval after `execve` lets the aging of a process
exceed two quanta. The argument is one inequality, a/2 + q <= 2q for a <= 2q, but it
has to be carried through every function of `scheduler`: one lemma per function says
what it does to the table and the lists (`InsertIs`, `PickNextIs`, `DeleteIs`, ...), one
that nobody's aging grows but through the halving.

Its second part proves `QueuesSound`, `LeveledByAging` and `OrderKept` from those lemmas. The
invariant is `Sound == Housed /\ Placed /\ NoneDead`: the lists are disjoint and
hold nobody twice, each of the upper five holds the processes of its aging (`Apart`);
the lists hold living processes only, without the current one, and who is alive in no
list is READY (`Housed`); the current process is alive or idle (`Placed`); nobody
living is EXITED (`NoneDead`). A handler may break the last part for one process
(`OneDead`), which is all the scheduler needs: `ReapSound` takes it out of its list,
`CheckExitedSound` leaves the processor if it was current, and from there on `Sound`
holds again, through `nextProcess` and the charge of a quantum. `checkBlocked` is a
loop over the list as it was; its recursive function is unfolded once (`LoopOf`), and
what each round keeps is carried over the rounds by `Climb`. For `OrderKept` each
function is shown to let nobody in a level be overtaken (`Ordered`). That
can be put together only while nobody leaves a level who may come back (`Grown`): in a
call without a death only its last function, `PickNext`, takes somebody out. With a
death the process that `checkExited` picks can come back, and the property says so. That
newcomers count too, a forked child among them, is why `Ordered` speaks of everybody who
is in the level afterwards.

`OrderLemmas` stands in for the induction theorems of the library, which take an
operator as a parameter: sets of numbers have a least element (by well-founded
minimality) and a largest one, and a set that holds 0 and with k also k + 1 holds
everything up to N.

`PipeProofs` proves `ReferencesMatch`, `FreedWithLast`, `EofSound`,
`ReaderNotStranded`, that no buffer is overrun, and that `Pipe` implements
`ByteStream`. The invariant `PInv` has six parts, each stated over the buffers and
the table so that it can be carried through the middle of an exit, where one process
closes its ends one after the other: `Recorded` (references are exactly the processes
with a descriptor, and an end is closed with the last of them), `Gone` (the memory is
freed when both are), `Users` (the dead use nothing, a reader holds the read end),
`Contents` (the write end is empty; an end of file is the last byte, and is read once),
`Plenty` (while the buffer cannot fill, an end of file that was put is still there) and
`Awake` (nobody sleeps on data). Two limits of the code are hypotheses, because beyond
them its promises are false:
`EnoughPlaces`, at most `PD_SIZE` (32) processes, because fork looks for a free place
in `references` and goes on without one when there is none (`scheduler.c:473-481`); and, for the last two parts and the theorems that need them,
`NeverFull`, that with the end of file fewer bytes than `BUFF_SIZE` go through the
pipe in its life, because after that bytes are dropped and indices run past the array.
The refinement is shown action by action: a write is `Put`, a read that returns bytes is
`Take`, one that returns nothing is `End`, the close (or exit, or death) of the last
writer is `Shut`, everything else is a stutter. `Bytes`, the content without an end
of file behind it, is what the mapping uses.

For the pipelines of the shell it proves `OnlyReaderLost`. Who is set READY while he
runs, and so can be lost, is a property of the programs: `closePipe` wakes every
process that holds the other end, the caller too. `PipelineInv` says who holds what: the
reader keeps its read end until it was told the end of file, the writer its write
end until it exits, and the shell both until the reader has them, and then gives up
the read end first. So only the reader can close an end while it holds the other one.
Every step of a pipeline is a step of `Pipe` (`PipelineIsPipe`), so `PInv` can be used.

`FreeListProofs` proves `AllocatedDisjoint`, `ListCoversMemory`, `AllMerged` and that no
header is lost, for every size of memory, block and request. The list of the
code is a recursive walk through the memory; the invariant `Sound` names the set of its
headers instead. `Chain`: the nodes lie one behind the other from the root to the end;
`RootKept`; `FreeLinked`: the `prev` of a free node leads to the node in front, which is in
use, so no two free nodes are neighbours; `Owners`: the blocks handed out are the nodes in
use. What the code does not maintain is the `prev` of blocks in use, and `free` uses it.
`Nested` says what is left of it: each block was placed behind the root or an older
block `o`, between the two there are only free nodes and younger blocks, and
its `prev` leads to the first of them, or to `o`. When the last block goes there are no younger
ones, so its `prev` is a neighbour, and merging is right.

`ImageProofs` proves `FilesDisjoint`, `RoomIsFound`, `FilesKept`, `SystemStays` and
`ModulesLoaded` in five steps.

1. `Typed`: the types, with what the running command has in hand.
2. `PartedInv`: the files of the directory have blocks of their own on the disk. The
   code sorts the directory with `qsort` and looks at neighbours only; `Gaps`
   states what it sees, and `FirstGapFree` and its lemmas that the first gap that is
   large enough is free, and that one is found when there is one.
3. `KeptInv`: a name is listed once, a file is within its room, and holds what was written
   to it last, up to where a running write has come; while a disk is
   being made there are no files.
4. `SystemInv`: no file begins in block 0 and no write reaches it; while the system is
   copied, its first k cells are on the disk; and the disk, once made, holds the system.
5. `ModulesLoaded`: the packed kernel is the kernel, the number of modules, and each
   module behind its size (`ImageIs`); `loadModules` finds each of them there, whatever
   their lengths, and `clearBSS` leaves them alone. The hypothesis `LayoutFits` is what the linker script
   and the addresses in `kernel.c` have to grant: the packed kernel and its BSS end before
   the first module's address, and the first module before the second's. `LoaderReads` is what
   the boot loader grants: only a packed kernel that its 512 sectors hold is in memory at all. TLC
   evaluates it for the instance of the run (`MCLayoutFits`).

Steps 2 and 3 hold until a command is given that wraps an unsigned difference
(`careless`), and step 4 without that.

`CommandLineProofs` proves `ModifiersReleased`: the invariant `ShiftInv` says that the
flag is set exactly when an odd number of shifts is held, which every code of a
modifier keeps as long as none repeats, and that the shell and its children leave
alone. It also proves `ShellReadsAlone` and `WaitsForForeground` from `ShellInv`: while no
child was overtaken, a child before `execve` was asked for with the `isBackground` the
shell still has, which it and the programs in front read the same way, and at the prompt
every child alive is a program for which the shell does not have to wait. That the
invariant needs `~overtaken` is the race of the shell and its children named above.

Only model-checked, and why: liveness (`WaitReturns`, `EndsUnlessLost`, `ProgramServed`),
which TLAPS cannot do; `ArgumentsArrive`, which compares what a scan of the cells finds with
what was typed; `SizeAsked`, the first half of `SystemKept`, which is a fold over the digits
of a size and so an induction over data; and `BuddyMemory` with `ProcessHeap`, whose
operators are RECURSIVE as the functions of the code are, which puts them out of reach
of the provers.

## Not modelled

The text of the components in `PROJECT.json` says for each part what is left out and
why. In short: device output and the statistics of the memory managers, which nobody
reads back; formatting and number conversion, which have no state; tron, the history
of the shell and the redrawing of its line; Pure64 and the boot record, but for how
they load the kernel; `nice` on oneself and the
overruns of fixed tables (`childsIds`, `lastCommand`, buffers after `BUFF_SIZE`
bytes), behind which the memory is not modelled.

## Plan

Done: process table, ready queues, pipes, semaphores, both memory managers, process
heap, keyboard and command line, disk image. Left, in this order:

1. Proofs: for `CommandLine`, that each program gets its words; for `ProcessHeap`, with its operators written as functions.
2. A specification of an allocator that both managers are held against.
3. Descriptors at their limit (`openPipe`, `dup2`), and a full pipe with what is
   still promised of it.
4. Linked lists with shared tails, for `nice` on oneself.
