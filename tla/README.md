# CodeOS kernel: TLA+ models and proofs

Specifications of the core of the CodeOS kernel (`src/kernel`), checked with
TLC on small instances and, where stated, proved for every instance with TLAPS.

## What is here

| module | models | checked by | proved in |
|---|---|---|---|
| `FrameAllocator` | what the page allocator promises its callers (abstract) | property of run `pmm` | |
| `Pmm` | `kernel/pmm.c` | run `pmm` (through `MCPmm`) | `PmmProofs` |
| `HeapAllocator` | what malloc and free promise (abstract) | property of run `heap` | |
| `Heap` | `kernel/mm.c` | run `heap` | `HeapProofs` |
| `Sched` | `kernel/sched.c`, the timer path of `idt.c` and `drivers/timer.c`, the `int 0x80` entry of `syscall.c`, `spinlock.h` | the `sched_*` runs | `SchedProofs` |
| `Tcp` | `kernel/tcp.c`, its peers and the network (external) | runs `tcp_*` (through `MCTcp`) | `TcpProofs` |
| `CodeFs` | `kernel/codefs.c`, `kernel/codefs_mkfs.c`, a disk that fails and loses power (external) | run `codefs` | `CodeFsProofs` |
| `Nvme` | `drivers/nvme.c`, its controller (external) | run `nvme` | `NvmeProofs` |
| `FrameQueue` | what one direction of a network interface promises (abstract) | properties of run `e1000` | |
| `E1000` | `drivers/e1000.c` under the lock of `drivers/nic.c`, the card (external) | run `e1000` | `E1000Proofs` |
| `Dns` | `dns_resolve` of `kernel/net.c`, its sockets in `kernel/udp.c`, `arp_wait` of `kernel/ip.c`, servers (external) | run `dns` (through `MCDns`) | `DnsProofs` |

Every detailed module states its type invariant as `TypeOK`. All of them are proved, and the runs
leave them out, except for TCP's, which says that no receive buffer outgrows its array. Every safety invariant
and every refinement the passing runs check is proved too, those of TCP and of the resolver under the hypotheses given there. What TLC alone shows are the
liveness properties (neither fairness nor ENABLED is within TLAPS' reach here).

`PROJECT.json` maps every definition to the lines it translates, and lists the
runs, the hazards and the theorems.

## Inventory of the system

CodeOS is a single-processor x86-64 kernel (an arm64 port has stubs where this
project looks) with its own drivers, file systems, network stack, container and
compatibility layers and graphical session, about 42,000 lines of C under
`kernel/`, plus Rust window managers and the vendored LVGL. The parts that carry
its core logic:

| component | state | operations | hard behaviour | correct when |
|---|---|---|---|---|
| pmm (`pmm.c`) | bitmap, free stack, free count | alloc page, alloc run, free page, free run | the stack holds stale and duplicate entries; partial runs; full stack | a frame has one holder, the count is exact, free frames can be had |
| vmm (`vmm.c`) | page tables | map, unmap, split huge page | shared by fork; copy-on-write fault | a frame is freed once nobody maps it |
| heap (`mm.c`) | chunk list, size-class pages and free lists, one lock | malloc, free, realloc, preseed; defrag has no caller | split and coalesce, growth, double frees, the lock released inside malloc and realloc | chunks tile the heap, no two blocks overlap |
| slabs (`slab.c`) | lists of objects per size | kmalloc, kfree, krealloc | none beyond the page allocator's | |
| scheduler (`sched.c`) | thread table, five linked run queues, current thread, one lock | create, yield, sleep, exit, set priority, tick | timer interrupt anywhere interrupts are on; lost wake-ups; slots reused | ready threads run, zombies are reaped, queues match states |
| processes (`process.c`) | process table, page tables, pipes | create, fork, exec, exit, wait, kill | few that happen: a forked child has no thread and never runs | frames and slots come back |
| signals (`signal.c`) | pending, blocked, ignored sets per pid modulo 64 | send, mask, deliver, suspend | none that can happen: no caller | |
| System V IPC (`ipc.c`), epoll, inotify | semaphore sets, message rings, segments, instance tables | get, op, snd, rcv, at, dt, wait | none that can happen: no caller | |
| CodeFS (`codefs.c`, `codefs_mkfs.c`) | superblock, bitmaps, inodes, blocks | format, mount, read, write, sync; unlink, rename, mkdir have no caller | crash or error between two block writes, a volume that fills up | no block has two owners, files read back |
| NVMe (`drivers/nvme.c`) | two rings with cursors and phase bits, command counter | read, write sectors | completions after a time-out, laps of the rings, refused commands | success is reported only of what was done |
| TCP (`tcp.c`) | socket table, one lock | connect, listen, accept, send, receive, close, segment handler | lost, repeated and reordered segments, the lock released in mid-handling, slot reuse, close crossing data | bytes arrive once and in order, a socket has one owner |
| E1000 (`drivers/e1000.c`, `nic.c`) | two rings of descriptors with cursors, DD bits and tail registers, one lock | send, receive | the card works between any two steps; sends time out and stay in the ring; the link drops | frames come out in order, once and whole; a failure is not for ever |
| resolver (`net.c`, `udp.c`) | cache, query ids, a socket per try | resolve, the tries, receive with a deadline | replies late, repeated, out of order, taken by another thread; slots used again | an answer is the name's; every call returns |
| namespaces, capabilities | tables | create, join, leave, grant | slot exhaustion | counts match members |

How they meet: every part takes frames from pmm, directly or through the heap.
The timer interrupt calls the scheduler, which may call pmm (to free the stacks of
the dead) and switches threads; anything that waits does so by
`sched_sleep_ms` in a loop or by yielding. The heap is the client of pmm that never gives
back; CodeFS allocates its buffers there and reaches the disk through the block layer, under which
NVMe is one of the drivers, which takes its bounce pages from pmm again. Locks are spinlocks that leave the
interrupt flag alone, so what interrupts what, with interrupts on or off, decides
whether they are safe. Segments reach `tcp.c` through `net_poll()`, which the netd
thread runs and every thread inside `tcp_connect`; a slow reader, a closing thread and
the handler meet on one socket, and the handler lets go of the lock whenever it answers.
Frames come from the card by `nic_recv`, which three loops call: `net_poll`, `arp_wait` and
`dns_tcp_query`, each of which keeps what it knows and drops the rest. The other components (drivers, display servers, shell and
script interpreters, loaders, containers, packages, security tables) are in
`PROJECT.json` with the reason they are not modelled.

## The page allocator: `Pmm`

State: `bitmap` is the set of frames whose bit is set, `free_stack` the stack,
`free_page_count` the count; `owned` and `overflowed` are history. Every operation
holds `pmm_lock` from end to end, so each is one action: `pmm_alloc_page`,
`AllocSmall` and `AllocLarge` (the two halves of `pmm_alloc_pages`),
`pmm_free_page`, `pmm_free_pages`. Clients free what they hold, free again what
nobody holds any more, and pass ranges that run past the end of memory. They
never free another client's frame: that would be wrong whatever the allocator did.

Pops are described by the *live* entries of the stack (those the bitmap says are
free), since a pop drops stale ones on its way: `Candidate(k)` is the k-th live entry
from the top, and `Gathers` and `PushBack` say what the gathering loop of a small
request collects and restores.

Run `pmm`: six frames, four of them allocatable, a stack of six (the least the
assumption allows, and small enough for pushes to be dropped), small requests of two
pages, large of three, three frames to a byte of the bitmap, so that runs cross
bytes and the lowest-bit scan misses some. Two clients, symmetric: with more
nothing new can happen, ownership is only told apart pairwise. 241,686 states.

- `NoSharedFrame`: stale and duplicate entries never hand a frame to two owners,
  and the bitmap is exactly what is reserved or held.
- `FreeFramesReachable` (until a push is dropped; after that a
  free frame may be out of `pmm_alloc_page`'s reach, which the code accepts).
- `ImplementsFrameAllocator`: refinement, `available <- free_page_count`; the abstract allocator's count being
  exact, so is the code's (`FreeCountExact`, which is proved on its own too).

`FindFreeReturnsNextFree` states the comment of `bitmap_find_free`, which the code does not
keep: see *Also met*.

**Proved** (`PmmProofs`, for every layout, stack capacity, request size and set of
clients): the three, `TypeOK` and `FreeCountExact`. The inductive invariant `IInv` adds to the checked
ones that entries are allocatable frames and that the stack fits its array; it is
needed because reachability of free frames depends on the stack and type
correctness of the stack on the frames pushed. The argument goes through
`AscendingProperties` (the enumeration of a finite set of numbers is what it should
be), `TopLiveProperties` (the k-th live entry from the top), and one lemma per way an
operation changes the state (`TakeStep`, `GiveBackStep`, `CutStack`,
`PushBackStack`). Assumptions: `LayoutAssumption` (frame 0 is reserved, the kernel
lies above low memory) and `SizesAssumption` (the stack can hold every frame, as
`FREE_STACK_SIZE` is `MAX_PAGES`).

## The scheduler: `Sched`

One processor. A step is what the running thread does between two points where the
timer can strike: `sched_yield` and the interrupt run with interrupts off and are
one step each; `sched_sleep_ms`, `sched_exit` and `sched_create_thread_prio` run
with interrupts on and are cut (`pc` is the label a thread will go on from, saved
with its context). The run queues are the code's linked lists: `ready` has the
heads, the tails and the `ready_next` links, so that a torn or doubled push does
what it does to the real list. `Tick` is the whole path timer_irq,
sched_timer_tick, isr_dispatch_c, sched_yield.

Details that matter:

- The boot thread *is* `idle_thread`, slot 0. It is never preempted, and
  `sched_yield` falls back to it whatever its state.
- `int 0x80` is an interrupt gate (interrupts off) and switches preemption off in a
  flag that all threads share; the `syscall` instruction's entry does neither, and a
  thread there behaves like any other kernel code.
- A thread inside a pmm.c operation is at label `pmm` and holds `pmm_lock`.
  Waiting for a lock with interrupts off never ends: `panic` records it ("spin" for
  `sched_lock`, "pmm_spin" for `pmm_lock`), like null dereferences and switches to a
  thread without a stack.
- Time is relative: `sleep_until` and `wake` count the ticks left.

Constants choose a workload: `Ops` is what threads do besides computing,
`InitialThreads` how many the boot thread created before the first tick.
`THREAD_MAX` bounds the table, `Sleeps` the sleeps; nothing else is unbounded.

Left out: `sched_set_priority` (no caller), the time slice of user processes at the
end of the tick (it touches the process table only), FPU state, CPU accounting, the
circular list of all threads (only the reaper's own unlinking reads it), and
`sched_in_yield`, which is 0 whenever the lock is free.

Runs:

- `sched_compute` (five slots; yield, exit, create, system calls that do not wait;
  with fairness): `QueueIsSound` (the list is exactly the ready threads, each once, its
  tail its last), `ThreadCountExact`, `NoPanic`, and that every ready thread runs
  and every zombie is reaped. Five slots give three threads on the queue while one is
  being created or reaped, which is what pushes, pops and reuse of slots need.
- `sched_full` (three slots, every operation, sleeps of no and of two ticks, stacks that may
  not be had): what holds although the queues can be corrupted and slots can leak: one
  RUNNING thread, no spinning on `sched_lock`, no context on freed stacks, no early end
  of a sleep. 500,324 states.
  `CHECK_DEADLOCK FALSE`: a panic is an end.
- `sched_sleep_race`: see *Findings*. It, too, switches deadlock checking off.

What separates `sched_compute` from the rest is exactly what breaks its properties:
sleeping, and operations of pmm.c that the timer can preempt.

Fairness, in `FairSpec`: the timer keeps ticking and a tick that interrupts-off
delayed is not lost (SF on `Tick`); a thread on the processor inside a kernel service
gets to its end (WF on the steps of sleep, exit, creation and system calls; SF for the
holder of `pmm_lock`, which ticks may interrupt again and again); the boot thread's
waiting loops (the shell's input loop, the waits in main.c) yield again and again (SF
on `Yield(idle_thread)`). Threads owe nothing else: a thread may compute for ever.

**Proved** (`SchedProofs`, for every table size and workload): `RunningIsCurrent`,
`NoSpinWithInterruptsOff`, `ContextHasStacks` and `NoEarlyWake`. The inductive
invariant `SInv` adds `LockInv`, the lock is held just between `sched_sleep_ms`'s lock
and unlock by the thread on the processor, and `SleepInv`, which follows a sleeper:
while it is blocked its deadline is the one it asked for. Both are needed: that the
tick never reads a stale deadline rests on the lock, and that sched_yield finds the
lock free rests on where it is held. Nothing in it mentions the contents of the
queues, so it survives the races. Assumption: `SchedAssumption`, the ranges of the
constants.

The second part of the module goes on to the queues. `CInv` holds for every workload: the queues hold
slots of the table, only the boot thread fills a slot in and nothing takes the processor from it
meanwhile, and the count is one more than the slots that have been given a context. `TypeOK` follows,
and `ThreadCountExact` if stacks can always be had: a slot that got none is in use and has no
context. `QInv` needs `Computing`, the workload of `sched_compute`: nobody sleeps, nobody is
preempted inside pmm.c, stacks can be had. `Calm` says where operations can be
interrupted then, `Places` which thread is where, and `QueueInv` gives the list a
witness: a sequence without repetition whose elements are the ready threads and
whose neighbours are the links. The witness is needed since `QueueIsSound` speaks of the walk along
`next`, which says nothing until it is known to end. That the walk of a linked
list is its witness, and that the tick's pass over the table appends what it wakes, are
inductions over data; the library's induction theorems take an operator as a
parameter, which the provers cannot instantiate, so both argue from a least counterexample
(`LeastNatural`), which the well-foundedness of < gives. `QueuesAreSound` and
`NeverPanics` follow.

Only model-checked: the liveness properties, `ReadyEventuallyRuns` and
`ZombieEventuallyReaped`.

## TCP: `Tcp`

One action per stretch between taking and releasing `tcp_lock`; reads and writes
without the lock (`tcp_connect`'s loop, the waits of `tcp_accept` and `tcp_recv`, all of
`tcp_send_segment`) are actions that do not wait for it. `app` says where a thread is in
its call, `rx` where a handler is in its walk through the table: `Arrive` takes the lock
and a segment, `PassiveOpen`, `Handshake`, `Reset` and `Acknowledge` are the branches for
the next socket that matches, `TakeData`, `SetWindow`, `SeeFin` and `PeerClosed` the
rest of the loop's body, `SendAnswer` and `Relock` what happens around an answer. The
handler's `continue`s are the calls of `Onward`. `AcceptTake` does what `tcp_accept` does under the
lock, without a second look at the count: `overdrawn` is how far the socket's `backlog_count` is then below 0. A count of -1 or -2 makes
`Establish` write in front of `backlog_fds`, over the socket's `in_use` or its `flags`, as the fields lie in `tcp.h:40`;
the next field down is the count itself, and the model stops there (`OVERDRAFT`, a bound of the model in `AcceptTake`). `SetWindow` is a step of its own, since a thread that
sends reads `ack_num` and `recv_window` without the lock.

The peers are external. Byte n of a peer's stream is the number n; its sequence number
is `SeqOf(n)`, modulo `SEQS` (2^32 in the code). `Sent` is all a peer may have sent so
far; any of it can arrive at any time, again, or never. Assumed of peers: one sequence
of numbers per peer, nothing from an earlier connection of the same pair is under way
when a new one is made, and nothing is sent past the window offered (`edge`). Assumed of
threads: they call with sockets they were given, bind before they listen, and only one
of them accepts on a listening socket, as the callers in `src/kernel` do.

`linked`, `edge` and `got` are history: whether and how far a peer was answered, and how
many bytes `tcp_recv` handed out.

Left out: what this end sends (its sequence numbers are compared with nothing), the send
window, checksums, `tcp_pending`, `tcp_poll_recv` and `tcp_get_state` (they only read),
and `tcp_timer_tick` and `tcp_reset` (no caller).

Runs:

- `tcp_stream`: one slot, one thread, a stream of three bytes in segments of one or two,
  a buffer of two, resets. The buffer is smaller than the stream and as large as a
  segment, so segments overlap, come early, come late, and do not fit; the slot is used
  again for the next connection. `StreamInOrder`, `AckCoversBuffered` and the types.
  52,436 states.
- `tcp_sockets`: two slots, two symmetric threads, no data and no resets: listening and connecting
  threads compete for slots, closing crosses handling. `NoSharedSocket`. 1,352,104 states.
- `tcp_truncation`: see *Findings*.

**Proved** (`TcpProofs`, for every table, buffer, segment and stream size, any set of
peers and threads, with resets or without): `TypeOK` and `StreamInOrder`. `TypeOK` bounds `recv_buf` and the entries of a
backlog; it lets a `backlog_count` be negative, as with resets and a listening socket together it can be (*Also met*). That it never is without the one or the other,
and no entry is written outside its array, is `CountsStayUp`: without resets, a thread that has seen a connection finds one when it has the lock
(`Stocked`, in `ShareInv`), since the listening socket is its own and nobody else takes from it. `StreamInOrder`
is not inductive: `StreamFollows` adds that in every state in which data is taken
`recv_next_seq` is the number of the byte after the last in the buffer. `SeqOf` is
one-to-one on a stream that does not wrap (`NoWrap`), so the segment whose number matches is the next
one (`AcceptableNext`), and appending it keeps the order (`TakenInOrder`).
Assumptions: `TcpAssumption`, the ranges of the constants, and `NoWrap`, which is needed:
see *Also met*.

`AckCoversBuffered` is proved under `OneSided`: the threads only call, or only listen, with resets or without. (`tcp_stream`
calls.) `AckInv` says what `ack_num` is rather than what bounds it: the number of the byte after the last taken (`AckExact`),
for a socket that a peer is opening too; it needs `NotOpening`, that no handler has data or a FIN in hand for a socket in
`SYN_RECEIVED`, which does not survive unless a freed slot stays out of a peer's reach (`Sided`). `OneSided` is
not for convenience: without it the property is false (*Also met*, a FIN for the wrong connection), which the proof attempt
brought to light and no run of a size TLC can search completely had.

`NoSharedSocket` is proved under `~Resets`, for any number of threads that call, listen, accept, send, receive and close,
data included, which `tcp_sockets` leaves out. `ShareInv`: a socket a thread has is in use, belongs to no other, is not half
open from the peer's side and not on its way out (`Held`); a backlog names each socket once, no two backlogs name the same, and every one it names is connected and
nobody's yet (`Waiting`). `HandlerInv` adds which segments a handler can have: without it a stray RST or a
bare FIN would do. That the backlog has as many elements as entries is a bijection (`BacklogSize`). With resets the property is
false, as *Also met* says.

No liveness is claimed of TCP: it has no timer, so nothing forces a segment, or a closed
slot, to come back.

## The heap: `Heap`

State: `chunks` is the chunk list as a sequence (the code's links are doubly linked and
only ever walked), `class_pages`, `class_free` and `marked` the size classes with
their bits, `pages` what pmm.c can still give. One action per critical section of
`heap_lock`. `op` says where a thread is between two of them: a malloc goes to its size
class (`PopBlock`, `NewClassPage`, `Fallback`) and then, without the lock in between, to the chunks
(`TakeChunk`, `GrowByPage`, `GrowByRun`, `Fails`); a realloc is a malloc that keeps
the old block until `FreeOld`. `List` is the chunk list as the first malloc finds it,
which is empty: *Also met*. Sizes are in units of 16 bytes, to which every request is rounded.

Assumed of callers: they free a block they hold once, and nothing that was never handed out; of a
size class' block also what they no longer hold, any number of times, which is what the bits are
there for. A second free of a general block is not in the model: the code does not detect it.

Left out: statistics other than the memory in use, the diagnostic rings, `mm_defrag` (no
caller). pmm.c gives pages in any order (`Pmm` says more, but nothing here depends on it).

Run `heap`: two symmetric-in-role threads, three pages of six units, one class of three
units with one page, requests of two units (class, then chunks) and six (a run of two pages).
Three pages are the fewest in which a page of the class, a page of chunks and a
neighbour of it exist together, and in which a run can be appended before or after a page; all three
run out, so every failure path is taken. 233,491 states.

- `ChunksTile`: chunks cover the heap's pages, once, and nothing else.
- `BlocksAreBacked`: each block handed out is in a taken chunk or class block large enough, and
  each of those is handed out to somebody.
- `ClassListsExact`: a list has each free block of its class once.
- `FreeNeighboursMerged`: except where `heap_add_large_chunk` appended next to a free chunk,
  which it does not look at (`seams`).
- `UsedExact`: `heap_used_size` is the number of units in chunks and class blocks that are taken (`Lent`), so that
  the subtraction of a free never goes below zero. As none of them overlap, this is the sum of their sizes.
- `ImplementsHeapAllocator`: with the blocks handed out as the abstract state.

**Proved** (`HeapProofs`, for every number and size of pages, any header, classes and
threads): all of them. The inductive
invariant `IInv` is six conjuncts: `PagesInv` (class pages, free pages and lost pages are apart),
`FreshInv` (before the first malloc nothing is in use), `HeapInv` (the chunk list tiles its pages,
and its chunks do not overlap), `ClassInv` (the lists and the bits), `LiveInv` (blocks
and their backing, one to one) and `OpInv` (what a thread in the middle of a
call knows: the old block of a realloc stays live). Refinement needs all of them: that a new block is
disjoint from the others rests on tiling, on one owner for each page, and on one block for each
chunk. The argument is in three layers: the geometry of pages, runs and blocks;
what `Merge`, `Split`, `AddPage` and `AddRun` do to any list that tiles (`MergeKeeps`,
`FreeKeeps`, `TakenKeeps`, `AppendKeeps`, `AddPageKeeps`, `CarvedShape`); and one lemma per action.
For `UsedExact` each of these also shows `ChargeStep`: nothing is lent or returned, or one more place is and `heap_used_size` moves by its
length. A sum over a list is recursive and out of the provers' reach, the cardinality of a union of
intervals is not: the places do not overlap (`LentSpread`), so one more adds its length (`OneMorePlace`).
Assumption: `HeapAssumption`, the ranges of the constants, with a page larger than a header and no
class larger than a page.

## CodeFS: `CodeFs`

Every block written is a step: the formatter (`Format` to `FormatSuper`), the mount, and
`codefs_write_file` (`EnsureBlock` takes blocks in memory, `WriteData` writes
them, `WriteInode`, then `FinishWrite` writes the bitmap). Between any two the power may go (`Crash`)
and each may fail; the code looks at no result but the formatter's. A mount whose read of the
bitmap fails goes on with any marks at all (`MountBlind`). A block is written whole or not at all.

`store`, `lost`, `exposed` and `window` are history: what each file was last given, the
files a fault fell on, the blocks in use a mount found unmarked, and whether
anything happened that may explain them.

Left out: the journal and the counters of the superblock (nothing reads them), the inode
bitmap (nothing changes it after the format: files are the ones the formatter makes), mkdir, unlink,
rename and the VFS entry points (no caller). Calls come from one thread. `blocks_count` is
the number of bits `alloc_block` looks at; that it counts the blocks before the data area
too, so that the last bits lie past the partition, is *Also met*.

Run `codefs`: two files, five blocks of which two are the directories, at most two
extents, writes of none (inline) to three blocks, three writes, one crash, one failed transfer. Writes can
fail for want of extents and of blocks; three writes are one to expose a block, one to take it again
and one to run over what was left. 1,582,000 states or so.

- `OneOwner`, `UseIsMarked`: only exposed blocks can have two owners.
- `OnlyTheWindowExposes`: and blocks become exposed only by a failed transfer or by a loss of power
  between the inode and the bitmap; not at any other point of a write, nor in a format.
- `IntactFilesReadBack`: what was written is what is read, for every file no fault fell on and
  none of whose blocks was exposed.

**Proved** (`CodeFsProofs`, for every number of files, volume, number of extents, writes, crashes and
errors): all four, and `TypeOK`. The inductive invariant adds where the call in progress stands: the blocks of
its inode (which is not yet on the disk) are marked in memory, apart from those of other files and each there
once; the first `done` of them hold its data; the bitmap on the disk covers what is in use unless
`pc = "bitmap"` or a window was open. Assumption: `BoundsAssumption`.

## NVMe: `Nvme`

The driver is one thread in `nvme_transfer`: a chunk takes a bounce page (`Fill`), is
submitted (`Submit`), polled for (`TakeCompletion` or `GiveUp`) and copied out
(`Finish`). The controller is external and well-behaved: it fetches what the doorbell shows
(`Fetch`), executes in any order or refuses (`Execute`), and keeps one entry of the completion
ring free. What is written is a number, the command's own.

Run `nvme`: rings of two entries, so that every command wraps one of them, four commands (two laps, both
phases twice), two pages, two blocks, one time-out. One is enough for a completion to come late, for
the page of the late command to be reused, and to fill the submission ring of two up. 776,828
states; `CHECK_DEADLOCK FALSE` because the commands of the model, or its time-outs in front of an overrun
ring, get used up.

- `PhaseTellsFresh`, `SuccessIsItsOwn`, `InStepUntilTimeout`, `OverrunNeedsTimeouts`, and the
  liveness property `EveryPollAnswered`.

Fairness: the loop of `nvme_wait_cqe` looks again and again (WF on `TakeCompletion`), and the
controller works off what it has (WF on `Fetch`, `Execute`), which is what an NVMe controller owes.
Nothing is owed by callers. `GiveUp` has no fairness.

**Proved** (`NvmeProofs`, for every depth of the rings, pages, disk, number of commands and time-outs): all but the
liveness. `RingInv` ties the two sides of the completion ring together: the head is `untaken`
entries behind the controller's cursor, and the entries before that cursor carry the controller's
bit, the others the opposite one; `PhaseTellsFresh` alone says nothing of the next head and is not
inductive. `ServedInv`: a completion without error names an executed command. `CountInv`: commands
not fetched, not executed and not taken are at most the polls that gave up and the one in progress.
`StepInv`: until a poll gives up exactly one command is under way, in one of three places
(`UnderWay`), or none is. Assumption: `BoundsAssumption`.

## The network card: `E1000`

State: the driver's cursors, the registers `RDH`, `RDT`, `TDH`, `TDT`, the descriptors whose
DD bit is set (`rx_done`, `tx_done`) and the buffers. `pc` says where the call that holds
`nic_lock` is; the card is external and moves between any two of its steps: `Arrive` fills the buffer at its head if
there is one, `Transmit` sends the one at its head, if the link is up and head and tail differ. A
wait with a deadline ends either way: `SendNoLink`, `SendBusy` and `SendTimeout` are the deadlines. A
frame is one of a set; lengths and the cut at `E1000_BUF_LEN` are left out, and so are
bring-up, the interrupt handler (no interrupt is unmasked) and the trace.

Runs: `e1000`, rings of three descriptors, two frames, which can be told apart so that a swapped, lost
or repeated frame shows. Three is the least with which the cursor, the tail one short of it
and the head can all differ, and both rings are gone round without end. 198,144 states.

- `ReceivesInOrder`, `SendsInOrder`: each direction implements `FrameQueue`. A received frame
  leaves the queue when it is copied out, a frame to send enters it when its status is cleared; the
  refinement mappings `RxQueue` and `TxQueue` read the queue off the ring. The transmit queue
  may fill the whole ring, which head and tail alone cannot tell from an empty one.
- `ReceiveNeverStuck`: between calls there is a frame to receive, or a descriptor for the card.
- `BusyMeansWedged`: a busy descriptor means that the ring is full, and full looks empty to the card; `QueuedIsSent`:
  short of that, what is queued goes out. What a full ring does to the driver is *Also met*.

Fairness, in `FairSpec`: a call goes on until it returns (WF); the link comes up again (WF on
`LinkUp`); the card gets on with what it sees although the link comes and goes (SF on `Transmit`).
Nobody has to call: `Arrive`, `RecvCopy` and `SendStart` from `idle` have no fairness.

**Proved** (`E1000Proofs`, for every ring size of at least two and every set of frames): all but
the liveness, and `SuccessFlushes`: a send that succeeds has seen all frames before it out, those of failed calls too. `RxInv` says that the descriptors done are those from `RxHead` round to `RDH`, fewer than a ring,
and that the tail is one short of the cursor (two while `RecvTail` is due); `TxInv` that those
that wait are the ones from `TDH` round to `tx_cur`, none or all of them when the two are equal. Both are
needed for the refinement, since `Put` must add the frame at the end: that the element after the last is the one the
card fills, or the driver, is arithmetic modulo the ring (`RingPut`, `RingTake`), done once for both directions.
`TxFilled` adds that between `SendFill` and `SendStatus` the buffer holds the message.
Assumption: `RingAssumption`.

## The resolver: `Dns`

`Resolve` starts a call, `Ask` opens the socket of a try and sends (`AskFails`: neither worked),
`Recv` or `Timeout` ends the wait, the `Parse` actions are the outcomes of
`dns_parse_response` and what `dns_resolve` does with each, and `NextTry` the loops.
`Deliver` is netd's `net_poll` down to `udp_recv_packet`, `ArpWait` any other thread emptying the card. The servers are
external: `Answer` puts a reply to anything ever asked in the card's ring, at any time, any number of times.
A reply is an id, a name, a server and a kind; a socket's slot is its buffer. `Timeout` may throw
away a reply: `udp_recv_timeout` sleeps, looks at the clock and returns without looking at the buffer again.

Assumed: one thread resolves at a time (`dns_next_id` and the cache have no lock: two threads could
get one id); servers say of a name always the same thing; all tries get the same port, the worst
case, as the lowest free slot and its port usually are the same again. Cache slots are a function from names from which
anything may go (`Expire`), which covers expiry, eviction and flush. Left out: literals and
blocked names, IPv6 (no caller), the bytes of messages, and the TCP query's connection, of which only the
outcome and the frames it takes from the card remain.

Run `dns`: three names, two servers, two tries with each, two calls, one reply in the card and two in a socket,
all answers but the empty one for the first name (to the resolver an empty one is like a reply to another query); the servers agree that the second name, asked for by the second call or the first, has an address
(`MCDns`: there it is the late reply that matters). A reply is a try, a server or a call late, or comes twice in one try;
longer delays need no room in the card, as any request may be answered at any later time. A third name is `Long`: a label of more than 63
bytes cannot be encoded, and the call returns at once, with its id used up. The ids are as wide as the code's (`IDS` is 65536), so they do not come round in
two calls. 752,540 states.
`CHECK_DEADLOCK FALSE`, since the calls of the model get used up.

- `CachedIsTheNames`: no late reply is taken for the answer to another name. It rests on the id alone, and so on no id being given
  twice while a late reply to the first may still come: *Also met*.
- `RepliesFromPeer`: nothing of an earlier try is left in a slot; it rests on the `memset` of `udp_socket_create`.
- `FailsOnlyUnheard`: a call for a name that can be encoded that returns no answer has made all its tries with each server, but those
  that named an alias, and no try ended with a usable reply (the query's id, and something in it) in its socket. `heard`, a history, is the try
  with such a reply; it is struck off when the reply is used, and in the two ways the code does pass one over: it comes in the sleep in which the time runs
  out (`Timeout`), or lies behind a useless one in the same buffer. Both cost the caller a try, or an answer; the property says that there is no third way.
- `EveryCallReturns`, under WF of the call's own steps: a wait has a deadline.

**Proved** (`DnsProofs`, for one resolver and one socket at a time, every set of names, number of servers, of tries and of calls, size of
the card's ring and of a socket's buffer, and whatever the servers say): `TypeOK` and the three invariants. `Steady` holds however often the ids come
round: `Genuine`, each reply in the card, in the socket or in the resolver's hands is what its server says to a request that was made; `Peered`, a
socket holds replies of the server it is connected to; `Covered`, every try behind the loops' counters was made, and only the try in progress can have a usable
reply. `RepliesFromPeer` and `FailsOnlyUnheard` follow from it. `CachedIsTheNames` needs `Numbered` as well, the query in
progress has the highest id, and no request for another name has it, and that needs the hypothesis `IdsLast`, fewer calls than ids: the id that is
compared stands for the name only as long as no two names share one. In the code that is a reply that is not late by 65,536 queries. Only model-checked: `EveryCallReturns`.

`RepliesReachNetd`, `AliasFollowed` and `NegativeIsCached` say what comments promise: *Also met*.

## Findings

- `sched.c:351`: a tick between the unlock of `sched_sleep_ms` and the first test of the
  state wakes the thread while it runs and queues it; the next sleep queues it twice, and
  a thread behind it is lost.
- `tcp.c:370`: a FIN ends the stream even if bytes before it are missing: `tcp_recv` reports
  the end and `http_get` takes the truncated page for whole.

### Also met

Without a run of its own; where a property is named, put it in the cfg named and TLC
shows the behaviour.

Page allocator: `bitmap_find_free` looks only at the lowest free bit of a byte, where
its comment promises the next free bit from `pos`, so a small request that falls back to
the bitmap can fail although there is a run (`pmm.c:71`; `FindFreeReturnsNextFree` in
`Pmm.cfg`).

Scheduler: creating a thread pushes without the lock, and a thread the tick wakes in the
middle is lost (`sched.c:203`; `ReadyIsOnRunQueue` with sleep and create). The boot
thread's sleeps end at the first interrupt (`sched.c:306`; `BlockedUntilWoken`). The reaper
takes `pmm_lock` with interrupts off: if thread A has exited and thread B is preempted
inside `pmm_alloc_page`, the machine spins for ever (`sched.c:147`; `ZombieEventuallyReaped` with
exit and alloc). Also, a slot whose stacks cannot be allocated is leaked
(`sched.c:187`; set `StackAllocFails` to TRUE in `SchedCompute.cfg` and `ThreadCountExact` fails), and a system call that sleeps leaves
every other thread unpreemptible (`syscall.c:2775`; add "syscall_blocks" to
`sched_compute`).

TCP: a reset frees the slot of a connecting thread before the thread looks; another thread takes
it, and both connect on one socket (`tcp.c:322`; `NoTrampling` in `TcpSockets.cfg` with
`Resets` TRUE). A stream that passes sequence number 0 loses its order check
(`tcp.c:347` takes 0 for "not known"; set `IRS` to 13 in `TcpStream.cfg` and TLC shows
`StreamInOrder` violated); a reset addressed to a listening socket frees it under its
owner (`Resets` TRUE in `TcpSockets.cfg`). If its slot is taken before `tcp_accept`, which has seen a connection, has the lock,
`backlog_count` of the new owner becomes -1 (`tcp.c:136`); when that socket listens in turn the next connection's number is written over its `in_use`
(`tcp.c:331`), and number 0 frees it (`Resets` TRUE and `Ops` listen, close in `TcpSockets.cfg`, with an invariant that `overdrawn` is 0
everywhere and deadlock unchecked, as `OVERDRAFT` stops the model; the count is negative after 19 states, the listening socket freed after 30). A FIN for the wrong connection: a handler that has taken a segment with data and FIN releases
the lock to acknowledge the data (`tcp.c:360`); if the thread closes the socket meanwhile, the peer's ACK frees it, and a new
connection takes the slot, the handler comes back and acknowledges its FIN there, overwriting `ack_num` of the new
connection, which claims bytes it never received (`AckCoversBuffered`, with two threads of which one listens and one calls, three
slots and `Ops` connect, listen, recv, close; the shortest such behaviour known has some 55 steps). Sockets in TIME_WAIT and FIN_WAIT_2 are never
freed, since nothing calls `tcp_timer_tick`.

CodeFS: power lost between a file's inode and the bitmap leaves its new blocks unmarked; after the mount they
go to another file, whose data replace them (`codefs.c:672`; `OtherFilesSurvive` in `CodeFs.cfg` with `MAX_ERRORS` 0).
The header of the file speaks of a "Simple journal for crash recovery" (`codefs.c:9`); nothing writes or reads one. Today
the installer is the only caller of `codefs_write_file`; it is the library that does not keep its word. "Copy-on-Write (CoW) block allocation" (`codefs.c:5`): a file that has blocks is
written in place, and a crash in the middle leaves a mixture. `alloc_block` looks at
`blocks_count` bits although the first of them stand for the data area: the last ones lie past the
partition's end; a volume of more than 32,768 blocks overruns the bitmap's buffer.
A write that is refused for want of blocks keeps the ones it got marked in memory, and the next
write that succeeds puts them on the disk.

NVMe: after one time-out every later command reads its predecessor's completion and fails, until the
driver is loaded again. A timed-out write whose page is freed (line 266) and reused puts another
page's content on its block; a timed-out read lands in the page's next use. Neither the driver nor the block
layer has a lock. The 16-bit command number wraps; the model does not go that far.

E1000: the transmit ring can be filled to its last descriptor by sends that time out while the link is down (it must drop
after each check of it); head and tail then agree, the card sees an empty ring, and each later send waits half a second
for a descriptor nobody works on, and fails, also when the link is back (`e1000.c:252`; `TransmittedOnceLinkUp` in `E1000.cfg`).

Resolver: `dns_send_and_wait` relies on netd to deliver its replies ("whichever thread drained first consumed the
reply", it says of an earlier version); `arp_wait` in another thread still empties the card and throws them away
(`ip.c:63`; `RepliesReachNetd` in `Dns.cfg`). An alias is never followed: the inner `break` of the "CNAME following loop" goes on to
the next server with the old query, and the outer one ends the loop (`net.c:994`; `AliasFollowed`). Negative answers
are stored for `DNS_NEG_TTL` and looked up as if they were not there (`net.c:550`; `NegativeIsCached`).
`DNS_TIMEOUT_MS 2000 /* per-attempt timeout */` (`dns.h:16`) is not what a try waits for, which is 800 ms
(`net.c:825`). `dns_next_id` has 16 bits (`net.c:47`): 65,536 queries later a late reply is taken for the answer to another name
(`CachedIsTheNames` with `IDS` 1 in `Dns.cfg`, which stands for that many calls). A reply that comes in the last sleep of that wait is thrown away (`udp.c:147`), and a stale one that
comes first costs the whole try. Return code 8 is taken for "truncated" (-2 - 8 = -10, `net.c:745`).

Other network code: `arp_purge_expired` reads the clock before it takes the lock, and throws out an entry made in
between, whose age wraps around (`arp.c:75`). `udp_recv_timeout` does not notice that its slot was closed and opened
again (`udp.c:149`). A datagram socket that is bound and then connected leaks a UDP slot (`socket.c:136`).

Heap: `main.c:496` preseeds the heap before anything has called malloc; the first malloc finds `heap_inited`
unset, empties the list, and the pages are lost (`mm.c:481`; `PreseedServes` in `Heap.cfg`). `heap_add_page` does not count the first page in `heap_total_size`; class blocks count
in `heap_used_size` but their pages not in the total, so their difference can wrap. A second free of a
general chunk is not noticed. `heap_add_large_chunk` does not merge. Sizes close to 2^64, for which the rounding of `mm.c:518` comes out
near 0, are not modelled: sizes are small numbers of units.

## What is left

- `Sched`: the abstract first-in first-out queue the linked list implements.
- `Tcp`: a fair peer that repeats what is not acknowledged; slots that come back (the code gives
  nothing that makes them).
- `Tcp`: `AckCoversBuffered` with threads that both call and listen needs a guard the code lacks.
- `Dns`: two threads that resolve at once; the composition with `E1000`, whose `FrameQueue` is the `ring` of `Dns`.
- The composition of `Heap` with `Pmm` and of `CodeFs` with `Nvme`, instead of the assumptions each makes of
  the other.
- Bounds: larger instances add no case the proofs do not cover, except for the liveness properties and
  for TCP and the resolver outside the hypotheses of their theorems.

## Not modelled

- Processes, vmm, the copy-on-write fault: a forked child gets a table entry and page tables but no
  thread, so it never runs, never exits and never faults. A model would show properties of code nothing
  reaches. The same goes for signals, System V IPC, epoll and inotify, which have no caller, and for
  CodeFS's directory operations.
- Namespaces, capabilities, cgroups, security tables: read and written by one thread at a time.
- ext2, VFS, partitions, IP, ICMP: formats and dispatch, sequential. DHCP, the neighbour caches, the legacy TCP of `net.c` and the
  layer of descriptors in `socket.c`: not reached yet; the first is a request and a wait like a try of the resolver.
- The other drivers, display servers, shell, loaders, containers, the arm64 stubs, userspace, and the
  vendored LVGL, which makes up most of the lines of the repository.
