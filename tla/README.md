# A verification project for the system-programming labs

The repository holds six C programs: a malloc package with its driver, a job
control shell, a memory tracer, a cache simulator with a matrix transpose, two
kernel modules and a caching web proxy. This directory models them in TLA+,
checks the models with TLC on small instances and proves most of the safety
properties with TLAPS for every instance.

    tlc -workers 2 -config MDriver.cfg MDriver     # one run
    tlapm HeapBlocksProofs.tla                     # one module of proofs

`PROJECT.json` lists the runs, the theorems, the hazards, and which source
lines each definition models.

## 1. The system

| Component | Source | State | Operations |
|---|---|---|---|
| allocator | `malloclab/src/mm-2017-19651.c` | boundary tags, segregated free lists, all inside the heap | `mm_init`, `mm_malloc`, `mm_free`, `mm_realloc`, `mm_check` |
| memory model | `malloclab/src/memlib.c` | `mem_brk` and the simulated memory | `mem_sbrk`, `mem_reset_brk` |
| malloc driver | `malloclab/src/mdriver.c` | the trace's blocks and sizes, the range list | `eval_mm_valid`, `eval_mm_util`, `eval_mm_speed` |
| shell | `shlab/tsh.c` | job table, `nextjid`, signal mask, main's locals | `eval`, `do_bgfg`, `waitfg`, four signal handlers |
| memory tracer | `linklab/handout/part{1,2,3}`, `utils/memlist.c` | sorted list of blocks, byte counters | interposed `malloc`, `calloc`, `realloc`, `free`; constructor, destructor |
| cache simulator | `cachelab/csim.c` | lines with valid bit, tag and age; three counters | one step per trace record |
| transpose | `cachelab/trans.c`, `tracegen.c`, `test-trans.c`, `cachelab.c` | two matrices, a trace, `results` | `transpose_submit`, `trans`; `validate`, `eval_perf` |
| kernel modules | `kernellab/ptree`, `kernellab/paddr` with `app.c` | the blob `result`, `kernel_buf` and `output_buf`, a file offset | module init and exit, a write that walks along `real_parent`, a read that walks a page table |
| proxy | `proxylab/proxy.c` | global header list, global cache list, `cache_volume` | one thread per connection |
| robust I/O | `proxylab/csapp.c` | a buffer per descriptor | `rio_readnb`, `rio_readlineb`, `rio_writen`, `open_clientfd` |

How they interact. The driver calls the allocator, which calls `mem_sbrk`; the
driver's own bytes lie in the same memory as the allocator's tags. The shell's
main program and its handlers share the job table; the kernel delivers signals
and children change state at any time. The tracer sits between a program and
libc. The transpose functions run under a tracer, and their trace is the input
of the simulator. The proxy's threads share both lists without a lock, and each
reads and writes its sockets through Rio. The kernel modules' handlers run while
the tasks they look at come and go.

What is hard. In the allocator: long sequences of legal requests, in-place
growth in three directions, pointers stored in freed blocks. In the shell:
handlers that interrupt main and each other, signals that do not queue, and two
uninitialised variables. In the tracer: addresses that come back. In the
simulator: counters compared while they are updated. In the transpose: the order
of reads and writes when one matrix is used as scratch space, and an
uninitialised flag. In the proxy: unsynchronised threads, and system calls that
do part of their work, are interrupted or fail. In the kernel modules: a tree
that changes under the walk, early returns, and bytes put together from halves.
`PROJECT.json` lists every such place under `hazards`,
with the properties that would catch it going wrong, or why none does.

## 2. Modules

| Module | Models | Checked by |
|---|---|---|
| `Mm` | allocator and `memlib.c`, one operator per C function or macro, on a memory of 32-bit words | through `MDriver`, proofs |
| `MDriver` | the three passes of `main` over any trace; composes driver, allocator and memory | `mdriver`, proofs |
| `MDriverProofs` | theorems about `Mm` and `MDriver` | TLAPS |
| `HeapBlocks` | the allocator as a tiling by blocks, any choice of fit: what `MDriver` implements | `heap_blocks`, proofs |
| `HeapBlocksProofs` | theorems about `HeapBlocks` | TLAPS |
| `JobList` | the functions on the job table | through `Shell` |
| `Shell` | main, handlers, kernel and children | `shell`, `shell_wait`, `shell_zombies`, `shell_fg`, proofs |
| `ShellProofs` | theorems about `Shell` | TLAPS |
| `MemTrace` | tracers of part 1, 2 and 3 over `memlist.c` and an abstract libc | `memtrace`, proofs |
| `MemTraceProofs` | theorems about `MemTrace` | TLAPS |
| `Csim` | the cache simulator | through `Trans`, proofs |
| `LruCache` | an LRU set-associative cache: what `Csim` implements | `csim`, proofs |
| `Trans`, `MCTrans` | the transpose functions, their trace into `Csim`, and what `test-trans` makes of it | `csim`, proofs |
| `CsimProofs` | theorems about `Csim` on any trace and about `Trans` | TLAPS |
| `Proxy`, `MCProxy` | threads, header list, cache | `proxy`, `proxy_races`, proofs |
| `ProxyProofs` | theorems about `Proxy`, while no two connections overlap | TLAPS |
| `Rio` | the Rio package over sockets that do part of the work, are interrupted or break | through `Relay`, proofs |
| `Relay`, `MCRelay` | one thread of the proxy on a miss, byte by byte; composes the code of `proxy.c` with `Rio` | `relay`, proofs |
| `RelayProofs` | theorems about `Rio`, that `Relay` implements it, and about `Relay` | TLAPS |
| `Tasks` | the kernel that the modules run in (external) | through `KernelLab` |
| `Ptree`, `Paddr` | the two kernel modules | through `KernelLab` |
| `KernelLab`, `MCKernelLab` | both modules and the kernel's tasks | `kernel`, proofs |
| `KernelLabProofs` | theorems about `Ptree` and `Paddr` among the kernel's tasks | TLAPS |

Operators named `X_Something` next to a definition `X` are mutants, plausible
bugs of that definition. The properties are checked to fail on them. No
specification uses them.

### Allocator: `Mm`, `MDriver`, `HeapBlocks`

`Mm` keeps the code's names. A heap is a record of words and `mem_brk`, and
every function maps heaps to heaps. Nothing is erased: `mem_reset_brk` keeps
what is there, a freed block keeps its data, and a tag read at a wrong address
yields what the program would read. The macros of lines 15-59 are operators,
`add_seglist` and `remove_seglist` work on the links inside the free blocks, and
the three growth cases of `mm_realloc` are tried in the code's order, with the
sizes that the code reads before the first. A loop over a list or over the
blocks is a recursive function of the steps left (`List`, `BlocksFrom`), bounded
by `STEPS`, the most blocks the memory can hold: the theorems of section 4 show
that every list ends before that, where the code's loop ends.

`MDriver` takes a request per step: `Alloc`, `Realloc` and `Free` are the cases
of the switch, from the call of the allocator through `add_range` or
`remove_range` and the fill to the tables of the trace. A trace is any sequence
of requests whose frees and reallocs name live indices, as in the trace files,
and is recorded in `ops`. `eval_mm_util` and `eval_mm_speed` run `ops` again, each
in one step, since nothing runs beside them: from `mem_reset_brk` and `mm_init`
on the memory as the pass before left it, to the end of the trace or to
`app_error`.

`HeapBlocks` forgets tags, links and data. Its state says where blocks start,
how long they are, which are allocated and what was asked for; `find_fit` is the
choice of any block that fits. The refinement mapping at the end of `MDriver`
reads the tags out of the memory.

### Shell: `JobList`, `Shell`

`JobList` has the table and its functions. `Shell` has a program counter for
main (`pc`), a stack of handler frames, the kernel's view of each child (`proc`,
`group`, `unseen`), and the pending and blocked signals. Each action of main is
a piece of `eval`, `do_bgfg` or `waitfg` between two points where a signal can
matter: `Fork`, `AddJob`, `Unblock`, `FindJob`, `SendCont`, `SetState`, `WaitFg`,
`WaitOver`. A handler is split at the same kind of points: `ReadFgpid` and
`ForwardSignal`; `WaitPid` and `DeleteJob` or `MarkStopped`. `Signal` installs
handlers with an empty mask, so a handler may interrupt another one of a
different signal.

Two uninitialised variables of `eval` are parameters. `Masks` holds the values
that `mask` may have. `argv` is read before `parseline`, so which command runs is
unrelated to the line; all are possible. `Hoisted` says whether the compiler
moves the read of `job->state` out of `waitfg`'s loop, as -O2 does. As
committed, line 197 of `tsh.c` holds a stray character that does not compile;
the model is of the file without it.

### Tracer: `MemTrace`

The list is the sequence of items after the dummy element. `part` is the
library that is loaded. `blocks` is libc's own view, against which the tracer's
is compared; libc may fail at any call. The client of part 3 frees and reallocs
any address, which is what part 3 is for; that of part 1 or 2 passes allocated
blocks or NULL. Sizes are positive. `MAXBELOW` bounds how often part 2 frees a NULL that
a failed call has put on its list.

### Simulator and transpose: `Csim`, `LruCache`, `Trans`

One action of `Csim` per outcome of a record. The lines are never initialised
by the code; the assumption on `Fresh` says what the counts need of that memory: a
valid field of 0, which the first pages from the kernel have. The run gives the
other fields the worst values.

In `Trans` a function of `trans.c` is the sequence of its accesses, built by the
loops of the code; a step performs one access on the matrices and hands it to
the simulator. `job` is one function on one size, as `tracegen` is started, with
`test-trans`'s cache of 32 lines of 32 bytes; without a job the simulator runs
on any trace, which is where it is compared with `LruCache`. The sizes are the
real ones. What a compiler keeps in memory besides the matrices is not in the
trace: the counts of misses, 284, 1288 and 1928 of the matrices and the
markers, leave room for 12 or more misses from that. The sources hold no
`csim-ref`; `csim` stands for it. `is_diagonal` starts with either value.

### Proxy: `Proxy`

A thread goes through `read`, `insert`, `link`, `init`, `search`, and then `hit`,
or `send`, `store`, `delete`, `subtract`, `linkitem`, `fill` and `add`. Appending
to either list is two steps, the walk to the last element and the assignment,
and so is each change of `cache_volume`, the read and the write, since that is
where threads collide. Linking to an element that has been cut off has no
effect on the list. An item is named by the thread that made it. `clock` is the
processor time that `clock()` gives: it goes on or stands still between two
readings, so that access times may be equal. Requests are GETs with an absolute `http://` URI; for others the code reads an uninitialised
host and path.

### Robust I/O: `Rio`, `Relay`

`Rio` has, for each socket, what the peer sends, how far it has been read, the
`rio_t`, and what has been written; `call` holds the locals of the call in
progress. A step is one system call, or the copy out of the buffer: `Refill`,
`RefillInterrupted`, `RefillAtEnd`, `RefillFails`, `CopyOut`, `WriteSome`,
`WriteInterrupted`, `WriteFails`. How much `read` and `write` take is any number;
a peer may reset its connection at any time. `RioSpec` is the package on its
own: any calls, one at a time, on streams of any bytes.

`Relay` is a thread on a miss: `client_handler`'s lines, `Request_buf`,
`open_clientfd` with several addresses, `send_request`'s loop with `cache_buf`,
and the wrappers that end the process. `Request_buf` starts with what the
uninitialised array holds and has `REQUEST_SIZE` bytes; `strcat` does not look
at its end, and a request that does not fit leads to `"overrun"`, where the
model stops, since what the program does then is not defined. `cache_buf` has
one cell more than the array for the NUL that `safe_strncpy` writes behind it;
`CacheIsExact` says when it does.
Where `Proxy` has a request or a reply as one value, `Relay` has its bytes; it
starts with an empty header list and leaves the other threads to `Proxy`.

### Kernel modules: `Tasks`, `Ptree`, `Paddr`, `KernelLab`

`Tasks` is what the modules use of the kernel: `real_parent`, which `fork` sets
and the parent's `exit` changes, and debugfs directories. There is the idle task
with pid 0, the parent of itself, init and kthreadd, which `find_vpid` does not
find; kthreadd and its children are kernel threads without a page table.

In `Ptree` the write handler is split at every read of the tree: `CopyPid` or
`CopyFails`, `FindTask`, and one `WalkUp` per ancestor. The loop ends at pid 1
only. From a kernel thread it comes to the idle task and stays there, writing
lines until they run past `result`, which has room for `LINES` of them; so does a
branch of more than `LINES` tasks. Nothing keeps a task while `curr` points to
it; when it has ended the next turn reads freed memory. Either is the step
`Breaks`, after which the behaviour ends: nothing can be said of that kernel.

In `Paddr` the read handler is `CopyIn` or `CopyInFails`, `FindPage` and `Answer`;
`user` is the reader's packet, and the file offset is kept between reads. Bytes
are digits to the base `HALF^2` with `HALF = 2` instead of 16, which keeps the
layout, the half byte included. The page table is a function from pages to
frames: the checks at the five levels all end the same way.

Left out, though the code allows it: two calls of one handler share `curr`,
`result`, `kernel_buf` and `output_buf`; a text of more than 512 bytes overruns
`tmp_buffer`; `copy_to_user` may fail. A read of 512 bytes or more writes its
NUL behind `output_buf`; the model has that byte, and no property says anything
of it.

## 3. Runs

Bounds are named constants of the configurations.

| Run | Shows | Bounds |
|---|---|---|
| `mdriver` | the driver accepts the allocator; no byte of a live payload is disturbed; the lists hold exactly the free blocks; `find_fit` misses none; `mm_check` passes; the second and third pass repeat the first; the utilization is at most 1; every request is a step of `HeapBlocks`, and the later passes are none | 4 requests, 3 indices, sizes 5, 24 and 80, memory that is not zeroed |
| `heap_blocks` | the blocks tile the heap, are merged and large enough | 20 double words, unbounded sequences |
| `shell` | the job list names live processes; FG jobs are waited for; ctrl-c and ctrl-z spare background jobs | 2 children, 2 slots, all keys, nested handlers |
| `shell_wait` | `waitfg` returns | same, with and without SIGCHLD blocked, but ctrl-z as the only key |
| `memtrace` | the sorted list is complete; the report and the byte counts are exact until libc fails, and no live byte is uncounted after that; libc is never asked to free what is not allocated | 4 allocating calls, 3 addresses |
| `csim` | the simulator is an LRU cache and its counts add up; the transposes are right, stay inside the matrices and miss no more often than `driver.py` allows for the full score | any trace of 6 records, three shapes of cache; 32x32, 64x64 and 61x67 for the submission |
| `proxy` | limit, byte count, keys and victim of the cache; a hit returns what was relayed before; every connection is closed | 4 connections, one at a time, 3 keys |
| `relay` | the streams are intact; the client gets the response, and the server the headers unless they overrun `Request_buf`; exactly the responses that fit are cached; sockets are closed; only a lost peer ends the process; the thread ends | `RIO_BUFSIZE` 3, `MAXLINE` 5, `MAX_OBJECT_SIZE` 7, `REQUEST_SIZE` 13, `MAXEINTR` 1, any reset |
| `kernel` | the branch is one of the tree, failed writes leave it and leak one buffer each; no write goes on for ever, and one for a task below init returns if its branch fits and the task it has got to does not end; answers are right or leave the packet alone | pids 0 to 5, 3 lines in `result`, 2 calls, 2 packets, reads of 8, 24 and 26 bytes with `MAX_LEN` 26 |

Why the bounds are enough. Four requests on three indices reach every branch
of `mm_realloc`, blocks on several lists, lists of several blocks, and a memory
that runs out; the scaled constants keep the order of the sizes that the code
compares. `HeapBlocks` has no bound on the number of requests. Two children
suffice for a job in the foreground with one in the background, and for the
reuse of a slot; `shell_wait` leaves ctrl-c out, after which the handler does as
when the child ends by itself. Three addresses let an address be reused while its neighbours
on the list are in either state. Six records fill a set, reorder it and evict
twice. Four connections fill the proxy's cache, use an item of it and evict
another. In `relay` the buffers are 3, 5 and 7 bytes long where the program has
8192, 8192 and 102400: none is a multiple of another, so that lines and pieces start and end anywhere in the
buffers; lines of `MAXLINE - 1` and more, responses of 7 and 8 bytes, and some
with a NUL are among the cases, and a request that fits `Request_buf` with
nothing to spare and does not with one byte in front of it. Three tasks besides
init and kthreadd make kernel threads, branches that fit and one that does not
unless a task above ends, and a branch that changes above and below the walk;
the second call meets what the first left. Of the two packets one uses all
digits and the other asks for a page that is not there; task 3, which both ask
for, may be missing or a kernel thread. `PaddrTranslates` holds for every packet.

### Disagreements between code and comments

Each of these runs ends in a counterexample; `findings` quotes the lines.

| Run | Says | Does |
|---|---|---|
| `shell_zombies` | the handler reaps all zombies | only the foreground job: `waitpid(fgpid(jobs), ...)` |
| `shell_fg` | `waitfg` blocks until the process is no longer the foreground process | `fg` on a background job that has ended, but was not reaped, waits for ever |
| `proxy_races` | deletes the victim | two threads delete the same one, or one that is being sent |

More can be seen by changing a constant of a configuration:

- `Masks = {{}}` in `Shell.cfg` violates `JobsAreLive`. This is the case that
  the uninitialised `mask` of `eval` does not hold SIGCHLD: a child is reaped
  before `addjob` adds it.
- `Hoisted = {TRUE}` in `ShellWait.cfg` violates `WaitReturns`: with -O2 the loop
  of `waitfg` keeps the state it has read first.
- `Overlap = 2` in `Proxy.cfg` violates `VolumeIsExact` and `KeysAreDistinct`: a
  lost update of `cache_volume`, and two threads that fetch the same object.
- A packet with `paddr = 0` and a `vaddr` whose lowest byte is not 0 gets an address with that byte missing: line 105 of
  `dbfs_paddr.c` copies `kernel_buf[16]`, not `kernel_buf[8]`. `app.c` asks for
  the start of a page, where it makes no difference, and `AnswerIsRight` asks
  no more.
- Indices from 128 up in `MDriver.cfg` violate `DriverFindsNoFault`: the driver
  compares a signed char with `index & 0xFF`.

Other things that reading and modelling the code has shown:

- `server_handler` takes the host of the cache's key from the first `Host`
  header on a list that is never emptied (`free_req_and_header` has no caller):
  it is the host of the first request ever made. A request for the same path
  at another host is answered with the first host's response. `Proxy` behaves
  so; `RepliesAreRelayed` therefore says of a hit that its path is right and
  that it is what an earlier connection got, and not that the host is right.
- `realloc` of part 3 calls itself with NULL, line 93 of its `memtrace.c`, for a
  block that is not allocated, and recurses for ever, although the log says
  `(ignoring)`; `realloc` of part 2 follows a NULL pointer when it gets one.
  `MemTrace` ends in `ended = "endless recursion"` and `"segfault"`.
- A write of a kernel thread's pid to `ptree/input` runs past `result`: the loop of
  `write_pid_to_input` ends at pid 1 only, and the way up from kthreadd leads to
  pid 0, which is its own parent. `WriteReturns` speaks of the others.
- `fg` may leave the state FG in a free entry of the job list: a child that ends
  before its `setpgid` is in the shell's process group, so that a handler's
  `waitpid(0)` reaps it, and deletes its job between `getjobjid` and the
  assignment. If the entry comes before those in use, `fgpid` returns its pid 0
  from then on, the handler no longer waits for the foreground job, and
  `waitfg` does not return. `WaitReturns` therefore asks that `fgpid` names the job
  when the wait begins.
- A client that closes before the empty line keeps its thread in the loop of
  `client_handler` for ever. `RelayEnds` asks for a complete request.
- Headers of more than about 10000 bytes overrun `Request_buf`. `Relay` ends in
  `"overrun"`, and `HeadersReachServer` says that it does so for no other request.
- The NUL that `safe_strncpy` writes falls one byte behind `cache_buf`, and behind
  the item's data, when the response fills it. `Relay` has the byte behind
  `cache_buf`, and `CacheIsExact` says that no other copy reaches it.
- `addjob` restarts `nextjid` at 1 after `MAXJOBS`, and two jobs may then have
  the same number; the runs of `Shell` have too few children for it.
- `ALIGN(size + DSIZE)` and `nmemb * size` wrap around for sizes that no trace
  and no test of the repository uses; sizes in the models are small.

### Fairness

`Shell`: strong fairness of the steps with which main goes on once it has
taken a command (`MainGoesOn`) and of each signal's handler, weak fairness of the
delivery of SIGCHLD. The kernel schedules a runnable process and delivers an
unblocked signal; that signals arrive at a finite rate makes it strong. The
handlers have a condition each, because otherwise one that is started again and
again could starve another that it interrupts. Nothing is assumed of the user
or the children. `WaitReturns` then says that `waitfg` returns unless the process
keeps running; its premise is that nobody outside the shell continues stopped
children for ever, which could hide every stop from the handler.

`Proxy`: weak fairness of each thread: threads are scheduled, servers answer and
close, clients send what they announce.

`Relay`: weak fairness of the thread, whose steps are the system calls it makes.
Nothing is assumed of peers and signals: `RelayEnds` names what it asks of them,
and `MAXEINTR` bounds the interruptions.

`KernelLab`: weak fairness of the steps of a `ptree` write that has begun: the
kernel schedules the task. Forks are bounded by `MAXPID`.

## 4. Theorems

A theorem holds for every value of the constants that the named assumption of
its module allows; TLC evaluates these assumptions in the runs. What the
assumptions say is that sizes, limits and addresses are numbers, requests and
responses are of the right type, the tracer's set of addresses is finite, and
`NULL` is none of the values it is compared with. Some facts are there because the
provers cannot find them or the model leaves out the parsing: that powers of 2 are positive (`CsimAssumption`)
and double each time (`MmAssumption`),
that a power of `BASE` is `BASE` times the one before (`PaddrAssumption`), that
the words in the code of `proxy.c` are strings (`Text`, which `ProxyAssumption`
takes names from), and that a path is not the empty string, which an item has
before it is filled: lines 378 to 385 of `proxy.c` store at least a `/`.

| Module | Theorem | Property of a run | Condition |
|---|---|---|---|
| `HeapBlocksProofs` | `TypeCorrect`, `HeapStaysTiled`, `HeapStaysCoalesced`, `RequestsHaveRoom` | `TypeOK`, `Tiling`, `Coalesced`, `Capacity` | |
| `MDriverProofs` | `DataStaysIntact`, `ListsStayExact`, `UtilizationIsAFraction`, `PassesRepeat` | `LiveDataIntact`, `FreeListsExact`, `UtilIsAFraction`, `ReplayRepeats` | |
| | `DriverFaultless` | `DriverFindsNoFault` | indices up to 127 |
| | `FitsAreFound` | `FitIsComplete` | `RequestsFit` |
| `ShellProofs` | `ShellTypes`, `OneForeground`, `SignalsSpare` | `TypeOK`, `ForegroundIsWaitedFor`, `SignalsSpareBackground` | |
| | `ListIsLive` | `JobsAreLive` | every mask holds SIGCHLD |
| `MemTraceProofs` | `FindFindsAll`, `ReportsAreExact`, `BytesDoBalance`, `LibcStaysSafe` | `FindIsComplete`, `ReportIsExact`, `BytesBalance`, `LibcIsSafe` | |
| `CsimProofs` | `CountersMatchLines` | `LinesAreAccountedFor` | |
| | `CsimIsLru` | `ImplementsLru` | |
| | `FunctionsTranspose` | `TransposesAreRight` | submissions on 32 or 64 columns are square |
| `ProxyProofs` | `VolumeStaysExact`, `KeysStayDistinct`, `VictimStaysLeastRecent`, `RepliesStayRelayed` | `VolumeIsExact`, `KeysAreDistinct`, `VictimIsLeastRecent`, `RepliesAreRelayed` | `[]OneAtATime` |
| `RelayProofs` | `RioKeepsTheStream`, `RioShortCounts` | the next two, of the package alone | |
| | `RelayKeepsTheStream`, `RelayShortCounts`, `RelayPassesAllOn`, `HeadersAllArrive`, `RelayCachesExactly`, `RelayClosesSockets` | `StreamIsIntact`, `ShortCountMeansEnd`, `RelayIsExact`, `HeadersReachServer`, `CacheIsExact`, `DescriptorsBalance` | |
| | `RelayUsesRio` | a refinement, `Spec => RioSpec` | |
| `KernelLabProofs` | `PtreeShowsTheBranch` | `BranchIsLineage` | |
| | `PaddrTranslates` | `AnswerIsRight` | `AddressesFit` |

Without the conditions on masks, on indices and on `OneAtATime` TLC finds a
counterexample (section 3). The last is not the code's: `main` starts a thread per
connection. The theorems on `Proxy` are about the behaviours, of a proxy with any
`Overlap`, in which each connection is closed before the next is accepted; they
say what the sequential code gets right, and nothing of threads that meet. `RequestsFit` says that no block
asked for has 2^`SEG_SIZE` bytes or more: `find_fit` compares a request with the
list of an index only if that many halvings leave at most 1, and after
`SEG_SIZE` it gives up. With the program's 24 lists that is 16 MB, of a memory of 20; a
larger request extends the heap even if a free block is large enough. `transpose_submit` has a routine each for
32 and 64 columns, which goes by the number of columns alone: the assignment has
no other matrices of these widths than square ones. `AddressesFit` says that
addresses have six bytes and frame numbers six and a half, 48 and 52 bits with
bytes of eight: `read_output` has no room for more.

### Arguments

`HeapBlocksProofs`. None of the four properties is inductive alone. Merging a
block with its neighbours keeps the tiling only if the sizes tile the heap
before it; a split leaves a block of two double words only if the sizes are what
the split computed from; and a free must not touch another block's bit. `IInv`
therefore has all of them, plus `Marks`, that bits are set at block starts only.
The lemmas follow the code: `JoinNext`, `JoinPrev`, `Split`, `coalesce`, `place` and
`trim` each keep a table of blocks well formed; one lemma per action;
`InductiveInvariant` combines them.

`MDriverProofs`, for any memory size, list count, trace and content of fresh
memory: the allocator word by word. `OK(h, g)` says that a table `g` explains the
heap `h`: the blocks of `g` tile it (`Tiled`), the listed ones are free and form
the lists, linked in both directions (`Listed`), and each tag, link and head of
the memory is what the table says (`Tags`, `Links`); what the payloads hold is
left open. `rk` falls along a list, so that a list has an end. `OK` holds
within a call too, whenever the words have a meaning; a block taken off its list
is then free and on none until it is placed. `Full` says that there is no such
block, and holds between calls. The lemmas follow the code from `PUT` through `remove_seglist`,
`add_seglist`, `coalesce`, `extend_heap`, `find_fit` and `place` to `MmMalloc`,
`MmFree`, `MmRealloc` and `MmInit`. Each says which table the next heap has, and
by `Keeps` which allocated blocks it leaves alone, word by word. For the growth
cases of `mm_realloc`, which copy a payload down over free tags and links and
over itself, `Prepared` and `Laid` follow the words.

Every lemma about a function speaks of two heaps with one table and says that
the answers are the same. That is how `PassesRepeat` is proved although the
passes start from memory that the one before has left: `Twins`, a part of
`DriverInv`, says that the trace so far, replayed over any memory, gives the
table, the pointers and the heap size of the first run. `DriverInv` says besides
that the live blocks are allocated blocks filled with their bytes, and that
`ranges` is their ranges. It quantifies over all tables and memories, so TLC
cannot evaluate it; the properties that follow from it are checked by `mdriver`.

`ShellProofs`, for any number of slots, children, keys, masks and either
compilation of the loop. The induction for the foreground job needs the listed
pids to be distinct (`DistinctPids`), so that the job main waits for is one
entry; a forked child to be unlisted until `addjob` (`Forked`); and the slot main
waits at to be that entry (`WaitsAtEntry`). `Typed` adds the types of every
variable and of every frame on the stack. A handler that is about to send a
signal has read the pid some steps earlier; `Kills` says of every such frame
that it names a process, and `SignalsSpareBackground` is kept because main, which
alone puts jobs in the background, does not run before the handler returns.
`Reaping` adds for `JobsAreLive` that between `fork` and `addjob` no SIGCHLD handler is
active and none can start, so that the child is not reaped before it is listed;
this is where SIGCHLD has to be blocked.

`MemTraceProofs`, for any addresses, sizes and number of calls. The list is first
shown to behave as a table, as long as it is sorted: what `alloc` and `dealloc`
do to the item of one address, and that they leave the others alone. `IInv`
relates that table to the blocks of libc: `Vouches`, that an item which counts
as allocated is an allocated block, from which `LibcIsSafe` follows for the frees of
part 3, and `Exact`, that until a call fails they are the same blocks with the
same sizes. For `BytesBalance` the sizes of the blocks are added up; the sum over
a set changes by the size of the block that a step adds or removes.

`CsimProofs`, for any shape of cache and any trace. Only filling an empty line
changes which lines are in use, and by one; that it does takes that the
address falls into a set of the cache (`AddressOK`) and that the loop finds an
empty line where there is one (`FirstEmpty`). The traces of `Trans` are included:
every loop nest of `trans.c` yields accesses with an address, shown loop by loop
from the inside.

For `CsimIsLru`, `LruInv` adds of every set that its valid lines come first, have
different tags, and different ages (`RowOK`), so that the ages put them in an
order. The list of the abstract cache has a block at place k if k - 1 lines are
newer than its own. A hit, a fill and an eviction each change these places as
`LruCache` changes its list.

For `FunctionsTranspose` an access maps the values of B, the registers and
`is_diagonal` to new ones (`Exec`), and `Triple` says that a sequence of accesses
leads from states of P to states of Q and stays inside the matrices. There are
rules for one access, for two sequences one after the other, and for loops. The
assertions say which places of B hold their final value and which registers and
places of B hold which entry of A, which is how B serves as scratch space in the
64 by 64 case. The invariant `RunInv` says that the state is the one that the
accesses made so far lead to. The states in between are under a quantifier; like
`DriverInv` it is an inductive invariant that TLC cannot evaluate.

`ProxyProofs`, for any number of connections as long as they come one after the other, any requests,
replies and sizes. `Inv` says where the thread is in its work and what the
shared state then looks like: `InTurn`, that only the last thread is active;
`ListOK`, that no header is on the list twice, and `HostOK`, that there is a `Host`
header when the key is made; `AnswerOK`, what the thread has got from the server;
`CacheOK`, that the cache holds the filled items of earlier threads, each once,
and in `fill` and `add` that of the thread itself; `VolumeOK`, how far `cache_volume`
is from the sum of the sizes at each step of an eviction and an insertion; and
`TimeOK`, that the access times order the items by their last use, up to ties.
`VictimIsLeastRecent` is inductive only with `TimeOK`, and `KeysAreDistinct` only with
the part of `CacheOK` which says that after a miss no item on the list has the
thread's key, which nobody has changed since the search.

`RelayProofs`, of the package: for any sockets, streams, buffer sizes, calls and interruptions.
`StreamIsIntact` is inductive only with the types of the state, with `rio_bufptr`
and `rio_cnt` staying inside `rio_buf` after a refill, and with the call in
progress having taken no more than it was asked for; `RioInv` has these. The
step that matters is `Refill`, which overwrites the buffer: it is enabled only
when nothing in it is unread. `ShortCountMeansEnd` needs one thing more about
calls that have not ended: no newline in them, and room for more.

`RelayProofs`, of the thread: for any requests, responses, addresses and limits. The variables
of `Rio` are among those of `Relay`, and every step of the thread is one of Rio or
leaves Rio's state alone; with that the theorems on `Rio` carry over. `RelayInv`
adds what the thread makes of the bytes: `ResultOK` and `CallFits`, that a call
which has returned was the one the thread had made, and gave the bytes it says;
`PassedOn`, that the client has what was read from the server but for the piece
in hand; `CacheOK`, that `cache_buf` holds as much of it as fits; and `OpenOK`, which
descriptors are open at each point. For `HeadersAllArrive`, `LinesOK` says that the
thread has read whole lines and kept the headers among them, and `RequestOK` how
much of `Request_buf` is built and sent. The step that matters is `NextLine`: a
line that `rio_readlineb` returns out of a complete request is the next one of
the stream, whole, since it ends in a newline or is cut off, and no line of a
complete request is long enough to be. The theorem gives both directions: the
request is whole when it fits, and `Request_buf` is overrun only when it does not.

`KernelLabProofs`, for any number of tasks and calls. The tree changes between
two steps of the walk, and the branch need not exist at any one time. `WalkOK`
says what there is halfway, unless the walk has got to the idle task: everyone
in it was at some time a child of the one above, and the walk goes on from a
task that is older than all of them. Since a walk that has got to the idle task
stays there, one that ends at init has not. `TasksOK` has that parents are alive
and, but for the idle task, older than their children, which an exit keeps
because init adopts the orphans.

`PaddrTranslates` holds for any base, page tables, packets and lengths of reads.
`ReaderOK` says that the buffer is an untouched packet while the file offset is 0,
and what the locals of `read_output` are at each of its steps. The rest is
arithmetic: the loop of repeated squaring yields the powers of the base for the
six bytes it is run for (`PowersRight`), so that the address it adds up is the
number in the packet (`VaddrIs`); a frame number is the sum of its digits
(`SixDigits`); and frame and offset meet in the middle of a byte
(`FrameAndOffset`, `OffsetIs`).

Facts about recursive functions, that joining sequences (`FlattenSeq`), adding
up over a set or a sequence and the loop of `Power` are well defined and what adding or removing one
element does, are proved with the least number for which they fail.

### Only model-checked

- Liveness, which the prover does not reach: `WaitReturns`, `ConnectionsClose`,
  `RelayEnds`, `WriteReturns`.
- `ImplementsHeapBlocks`, that the driver's requests are steps of `HeapBlocks`. Its
  state functions read tables out of the memory, and each request is one action
  of `HeapBlocks` for several calls of the allocator's functions. What it is there
  for, that blocks tile the heap and live data stay apart, is proved of the words.
- `SubmissionEarnsFullScore`, the number of misses of given matrices in a given
  cache, which comes out of thousands of steps.

## 5. Not modelled

- The timers behind `fsecs` (`fcyc.c`, `clock.c`, `ftimer.c`), which read cycle
  counters and the hardware's overhead, and the scores that `main` computes from
  the passes.
- `mm.c`, the handout's allocator, which is not linked.
- Parsing: command lines, URIs, trace files. Output and its wording.
- In `csapp.c`: `rio_readn`, and the wrappers for processes, signals and
  semaphores, which the proxy does not use; `open_listenfd`, which runs once.
- `sdriver.pl`, `driver.py` and the other test drivers.

## 6. Plan

Done, in this order: allocator and driver with their abstraction and proofs;
shell with its first proof; tracer; simulator; proxy; robust I/O with proofs and
the proxy's use of it; transpose on the simulator; kernel modules; proofs for
shell, tracer, simulator, proxy, relay and `ptree`; the simulator as an LRU cache,
the transposes, the request that the relay sends, and `paddr`; allocator and driver
word by word.

Next:

1. `RangeList`: `add_range`'s overlap test against the real one, for any
   allocator.
2. `KBest`: the loop of `fcyc.c`.
3. Two traces in a row on the same memory in `MDriver`.
4. Two calls of a kernel module's handler at once.

A theorem worth proving next: that the word-level allocator implements
`HeapBlocks` for every heap, from the tables of `MDriverProofs`.
