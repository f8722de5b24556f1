# Rev in TLA+

Rev is a cycle-based model of a RISC-V processor for the SST simulator.  This
directory holds TLA+ modules that model its parts, the TLC configurations that
check them on small instances, and theorems with proofs that TLAPS checks for
every value of the constants.  `PROJECT.json` lists the runs, the mutants that
each property catches, the source lines of every definition, the hazards and the
theorems.

## The system

Everything in Rev runs in one host thread: SST calls one event handler at a time.
What makes it concurrent is that the work of a simulated instruction is spread
over many handlers: the clock tick of the CPU, the clock tick of the memory
controller, and the answers of the memory system, which arrive between ticks, in
an order that nobody controls.

| Part | Source | State | Operations | Talks to |
|---|---|---|---|---|
| Thread scheduler | `src/RevCPU.cc` | `ReadyThreads`, `BlockedThreads`, `CompletedThreads`, enabled cores | `clockTick`, `UpdateThreadAssignments`, `HandleThreadStateChangesForProc`, `CheckBlockedThreads` | cores |
| Core | `src/RevProc.cc` | harts, `IdleHarts`, pipeline, `ThreadsThatChangedState` | `ClockTick`, `AssignThread`, `PopThreadFromHart`, `MarkLoadComplete`, `DependencyCheck` | scheduler, memory, prefetcher, system calls |
| Threads | `src/RevThread.cc` | state, ID, ID of the join | moves between queue, hart and core | scheduler |
| System calls | `src/RevSysCalls.cc` | ECALL state of a hart | `pthread_create`, `pthread_join`, `exit`, `mmap`, `munmap`, `brk`, files | core, memory |
| Memory | `src/RevMem.cc` | segments, free list, page map, TLB, physical memory, reservations, futures | `ReadMem`, `WriteMem`, `AMOMem`, LR/SC, `AllocMem`, `AllocMemAt`, `DeallocMem` | controller |
| Memory controller | `src/RevMemCtrl.cc` | request queue, requests in flight, counters, `AMOTable` | `send...Request`, `clockTick`, `handle...Resp` | memory system of SST |
| Prefetcher | `src/RevPrefetcher.cc` | streams of instruction words | `IsAvail`, `InstFetch`, `Fill` | memory |
| Coprocessor | `src/RevCoProc.cc` | instruction queue | issue, stall and release a hart | core |
| Decoder and instructions | `src/RevProc.cc`, `include/RevInstTable.h`, `include/insns/*.h`, `include/RevInstHelpers.h` | instruction tables, registers | `DecodeInst`, `Execute`, the functions of the instructions | core, memory |
| Features and extensions | `src/RevFeature.cc`, `src/RevExt.cc` | the machine string, the tables it enables | `ParseMachineModel`, `EnableExt` | decoder |
| Options and loader | `src/RevOpts.cc`, `src/RevLoader.cc` | lists of options, segments, contents, arguments | the constructor of `RevCPU` | memory, main thread |
| Tracer, NIC | the files of these names | output only, or unused | | |

What has to be right, and is hard to test:

- a thread is a `unique_ptr` that wanders between two queues, a hart and a
  per-core list; none may be lost, duplicated, run after it has finished, or
  woken from a join too early, and the simulation must not end before them;
- a load completes ticks after it was issued, by a callback that finds its hart
  and register again; the thread must still be there;
- the memory controller splits, delays and reorders; a fence, an AMO with acquire
  or release, and the counters behind them must hold whatever the order of the
  answers; a `RevMemOp` is freed exactly once;
- segments of the heap are split and merged by long sequences of calls;
- pages, a TLB and the end of a page must be invisible to the program;
- reservations are kept in one list for all cores, while the value of the LR is
  still on its way;
- the words of an instruction stream are read into a buffer that may be deleted,
  and an instruction may lie across two of them;
- hundreds of table entries, masks and shifts decide what an instruction does;
- a system call runs again and again until memory has delivered its string.

## Modules

`StdContainers` has the operations of `std::vector` and `std::list` on sequences.

**`RevThreads`** is the scheduler with the harts of all cores.  The variables have
the names of the C++ members.  One `clockTick` of `RevCPU` is a fixed sequence of
steps, and `phase`, `core` and `scan` say where it stands: per core `AssignThread`
or `NothingToAssign`; one step of the decoding hart (`FetchMiss`, `Stall`,
`Execute`, `Return`, `Spin`, `ECALL_pthread_create`, `ECALL_pthread_join`,
`ECALL_exit`) or `NotClocked`; `HandleDone`, `HandleBlocked` or `HandleStart` for
each thread in `ThreadsThatChangedState`; `FinishCore`.  After the last core
`EndTick` or `StartCheck` with the loop `CheckBlockedThreads`.  Answers
(`MarkLoadComplete`, `MarkInstructionLoadComplete`) come between ticks.  A program
is any sequence of at most `MaxInst` of these instructions per thread, so the
model covers every program of that length.

**`ThreadLife`** is what a program may rely on: a thread is created, dispatched,
waits for another one to finish, goes on, finishes; the simulation ends when all
are done or one exits.  `RevThreads` implements it; `Stage` is the refinement
mapping.

**`RevMemCtrl`** is `RevBasicMemCtrl`, with and without a cache.  `Send` stands for
the `send...Request` methods; `StartTick`, `Dispatch`, `Fence` and `EndTick` for
`clockTick` and `processNextRqst` with `buildCacheMemRqst` and `buildRawMemRqst`;
`handleReadResp`, `handleWriteResp` and `handleFlushResp` for the response
handlers.  The memory system behind it is external: it answers every request, in
any order, but serves the requests to one line in the order they were sent.  Data
is abstracted to the number of the request that wrote it last.

**`RevHeap`** is the segment list and the free list of `RevMem` with `mmap`,
`munmap`, `brk` and the stacks of new threads.

**`RevPaging`** is the internal memory of `RevMem`: page map, TLB with its LRU
queue, physical memory, and the loads, stores and AMOs that go through them.  The
translation of an address changes the page map and the TLB, and one access
translates up to two addresses, so `SearchTLB`, `AddToTLB`, `FirstTouch` and
`CalcPhysAddr` are operators on a record of that state; `WriteMem`, `ReadMem` and
`AMOMem` are the actions.  The code never compares `nextPage` with the size of memory;
the model goes on to the first access behind the end (`Overrun`) and stops there, since
what such an access reads or writes is undefined.

**`FlatMem`** is what a program sees of it: an array of bytes.  `RevPaging`
implements it; the mapping reads a byte through the page map.

**`RevPipeline`** is the instruction pipeline of one core with its register files.
A `ClockTick` is one action, `TickExecute`, `TickStall`, `TickMiss` or `TickIdle`
by what happens to the instruction at the head of the decoding hart; each ends
with `Retire` and `Complete`, as the code does.  `MarkLoadComplete` and
`FillComplete` (for instruction fills) come between ticks, and so do
`AssignThread` and the coprocessor's `ExternalStallHart` and
`ExternalReleaseHart`.  An instruction is a record of what it does, the registers
it names, and its cost; what it computes is a parameter (`ALU`).  Loads are
answered late with a memory controller and at once without (`ctrl`).  A register
that waits for data holds junk, as it does in the code, where the load converts
the old contents in place.

**`HartISA`** is what a core promises: instructions of a hart take effect one at a
time and in order.  `RevPipeline` implements it; the mapping (`ArchReg`) lets data
on its way count as arrived.

**`RevReservations`** is the list of reservations of LR and SC and the list of
futures of `RevMem`, with loads that are answered late.  **`LRSCLock`** composes it
with the harts of several cores that run a spin lock, the usual program around
these instructions; the lock is external, and so is the choice to set a future.
What `SCBase` tests reads registers that the instruction does not name, so the test
may come out either way.  A store has an address and a length, and revokes the future at
its address only.

**`RevPrefetcher`** is the stream buffers of a core with the part of `ClockTick`
that fetches, and the simple coprocessor that stalls the first hart.  A stream has an
identity, so that a pointer into a deleted one can be told; addresses count
halfwords, and an instruction is one or two of them.  An instruction may be a data load,
because `MarkLoadComplete` hands its answer to the prefetcher like any other, which takes the first
entry with its address out of `OutstandingFetchQ`.  `clash` records that it took out an
entry, which is always that of a fetch.

**`RevInstTables`**, **`RevDecode`**, **`RevInsns`**, **`RevFloat`** and **`RevISA`** are a
core from the machine string to the function of an instruction.  `RevInstTables` has
the rows of all tables that `EnableExt` can load, and the parser of the string.
`RevDecode` cuts instruction words, which are sets of bit positions, by the fifteen
formats, and then does what the functions of compressed instructions do before they
call the others.  `RevInsns` has the integer functions at the width `W` (the 32 bits
of the code) and twice that; `RevFloat` the ones on floating point numbers, which are
a sign and a magnitude in halves, with infinity and NaNs, in a format of `P`
significant bits.  **`RISCVAsm`** is the other side: the encodings of the RISC-V
formats, immediates and compressed instructions.  It takes opcodes and function codes
from the tables, so a wrong number in a row would not be noticed; a wrong mask, shift,
format, key, register class or expansion is.  `RevISA` assembles, decodes and runs.

**`RevOpts`**, **`CacheLines`**, **`RevLoader`**, **`RevSysCalls`** and **`RevBoot`** are a
simulation from its parameters to the system calls of the program.  `RevBoot` has the
constructor of `RevCPU`, phase by phase (`ReadOptions`, `LoadElfSegments`,
`LoadElfContents`, `LoadElfArgs`, `InitMainThread`, and `Die` for every fatal error),
and then the steps of the harts: `Program` gets to a call, `Ecall` is one execution of
the instruction, `Answer` an answer of memory, `Finish` the end of a thread.  Memory has
the bytes that were written; a byte is told apart by where it comes from.
`CacheLines` has the two ways, one after the other, in which a write is cut into
pieces: the loader, which runs in the constructor and so before `init` tells the controller the size
of a line, takes 64 bytes, the controller the real size.  `RevSysCalls` has the calls that use the host, and one action (`Stub`) for the
ones that only print a notice.  The operating system of the host is external.

`MC...` modules and the `.cfg` files give the constants their values.

## Runs

| Run | Bounds | What it shows |
|---|---|---|
| `threads` | 2 cores of 2 harts, 3 threads, 2 instructions each, join of any ID | the bitsets agree with the harts (`IdleAgrees`, `EnabledAgrees`), a thread is in one place (`OnePlace`), a load finds its thread on its hart (`LoadsOnHart`), and `ThreadLife` is implemented, joins and the end of the simulation included |
| `threads_live` | 1 core of 2 harts, 3 threads, join of own children | every program ends; a blocked joiner resumes |
| `memctrl` | 3 requests of one or two lines of two harts: loads, stores, flushes, fences, AMOs with every flag; 2 operations per cycle, limits of 2, or of 1 for stores; with and without cache | operations are freed once and `AMOTable` is exact (`OpsAlive`), counters are exact and the limits hold with a cache (`CountersExact`), a load is completed once, fences order and a load sees the last store (at limits not below the operations per cycle, `InOrder`), every request is served unless one needs more slots than there are |
| `heap` | a heap of 6 bytes, sizes 1 to 3 | segments and free list partition the heap; stacks are apart |
| `heap_expand` | the same | **violation**: a full heap hands out memory that is in use |
| `paging` | 3 virtual and 2 physical pages of 2 bytes, TLB of 2 entries, accesses of 1 and 2 bytes, segments that come and go | pages never alias, memory is overrun exactly when more pages were touched than it has, TLB and queue agree with the page map, memory is flat |
| `pipeline` | 2 harts, 2 threads of 2 instructions on x0, x1 and f0, costs of 0, 1 and 2, one stall, with and without a controller | the core implements `HartISA`, the scoreboard is exact, no thread leaves before its loads are back, threads of one-cycle instructions end |
| `reservations` | 3 harts of 2 cores, two of them with the same number, a lock and one other word, stores of one and two words | never two harts hold the lock, an address is reserved once, answers go where they are awaited, a future ends only by its revocation or a store that starts at its address, and nothing but a store from below changes its word |
| `prefetch` | 1 hart, streams of 2 words, 4 instructions with jumps to 3 places, data loads of one address that is also code, a stall of 2 cycles | until `clash`: the decoder gets the instruction at the PC, no answer goes to a deleted stream, the queue of fetches is exact, the thread gets on |
| `prefetch_harts` | 2 harts, 4 instructions each | **violation**: a stream is deleted while reads into it are under way |
| `isa` | 7 machine strings (3 of them complete cores), 5 sets of registers, one-bit and one-bit-missing immediates, 6 rounding modes; 17 integers of 4 and 8 bits, 60 floating point numbers of 2 and 6 significant bits | every instruction that was written is the one that runs, with the exceptions of `Misread`; operands are in the scoreboard, with three exceptions; the laws of integer and floating point operations |
| `boot` | 918 setups: 11 files of both classes, no, 16-, 64- and 128-byte lines, with and without a controller, arguments up to one byte more than fit, good and bad options, 4 component numbers; 3 calls of 2 harts | with lines of 64 bytes and more the program is in memory as it is in the file, and the arguments are in place exactly when they fit; every option has the value given for its core; the main thread starts where it should; the host is asked for what the program asked for, calls leave nothing behind and end, a file has one owner |

The bounds are the smallest at which the cases of the code occur: with two cores
of two harts threads meet on one core and migrate between cores; three threads
give a joiner, its child and a bystander, and a join of a join; two lines are a
split request, limits of two are reached by it, and a limit of one is below it and
below the operations per cycle; three requests are a store, a fence and a load; six bytes hold three segments and so every
neighbourhood that a merge distinguishes; a TLB of two entries evicts while
pages and addresses are in use, two-byte accesses cross a page end, and the third page is
one more than memory has; two
instructions are a load and a reader or another writer of its register, x0 and f0
are the two registers with number 0, and the second thread runs beside the first
or after it on the same hart.  Three harts are a holder, a contender
and one that is taken for the holder because it has its number.  Streams of two words
have an instruction across their end at every second halfword.  Words of four bits
keep every case of the templates (the most negative number, all ones, shift counts
beyond a word), and formats of two and six bits one that cannot and one that can hold
the limits of an integer.  In `boot` a page is 256 bytes instead of 4096 (`PAGE`) and
memory 4 MiB, so that segments meet in a page and a run stays small; `MaxCalls` gives the
first hart two calls, so that one can find what the other left.

Deadlock is checked in `threads`, `threads_live` and `memctrl`.  The others stop by
intent: a fatal error ends the simulation (`heap`, `paging`, `isa`, `boot`), a core stops
when its threads have ended (`pipeline`, `prefetch`), and a spin lock whose holder was
refused stays as it is (`reservations`).  `threads` uses the symmetry of the threads other
than the main one; the liveness runs use none.

**Fairness.**  SST calls the clock handlers as long as the simulation runs, so
the tick is weakly fair.  The memory system answers every request; an answer can
only be delivered between ticks, so it is not continuously enabled and strong
fairness is assumed for it (`MarkLoadComplete` and `MarkInstructionLoadComplete`
in `RevThreads`, `Respond` in `RevMemCtrl`).  In `RevPipeline` a tick is one step,
so weak fairness of the answers is enough, and of the releases of a stalled hart; the
same holds for the ticks and answers of `RevPrefetcher`, and for the executions of an
`ecall` and the answers in `RevBoot`, where nothing is assumed of the steps that make or
end a call.
Nothing is assumed of the programs but that they are finite: a hart keeps the core
while it is clear to decode, so a program that never ends starves its neighbour.

## What the violations mean

Each violation run checks what a comment of the code says; `findings` in
`PROJECT.json` quotes it.  A full heap hands out memory that is in use
(`src/RevMem.cc:452`), because the new segment is put at the start of the heap and not
at its end.  With two harts a stream of the prefetcher can be deleted while reads into
it are outstanding (`src/RevPrefetcher.cc:210`), because answers are matched by address
in one list and by hart in the other.  The same stream is lost with one hart after `clash`
(next section).  The passing runs of the same module leave the
case out by a constant (`NumHarts`) or stop at it (`odd` in `RevHeap`), so that they say
what holds otherwise.

## Known behaviours

What the models show, allow or leave out on purpose, and a reader of the properties
should know.  Line numbers are those of `src/`.

*Threads and pipeline.*  A thread ID is a random number (`RevCPU.h:263`); when a draw
repeats, a join can return early, so runs and theorems have `RandomTIDs = FALSE`.  A
thread that is taken back into `ReadyThreads` keeps the state BLOCKED until it is
dispatched.  An instruction whose cost, from a table of the user, is not 1 never retires,
and the core then stops, or reads the register file of a hart whose thread has left
(`RegFilesAlive` says that nothing else leads there).  The table entry of `ecall` names no
registers, so a call can read an argument that is still being loaded; the calls that
read strings, and `write`, wait for a0 (`HostAskedRight`), the others do not, and `RevBoot`
has no late a0 for them.

*Memory controller.*  The answer to a READLOCK, with which LR loads, lowers `num_read`
and leaves `num_readlock` (`RevMemCtrl.cc:1351`), so `memctrl` sends none.  An AMO is a
READ and later a WRITE, and other requests to the address come in between
(`RevMemCtrl.cc:1423`); a fence sent meanwhile may overtake the WRITE; acquire and
release look at the queue only and not at what is in flight.  An AMO across two lines
would never complete (`RevMemCtrl.cc:1467`); RISC-V requires alignment, and the runs
send none (`RequestAssumption`).  Without a cache the limits are not enforced.
`processNextRqst` passes over a request whose kind has used up its share of the cycle
(`RevMemCtrl.cc:1164`).  With `max_loads` or `max_stores` below `ops_per_cycle` it so
takes a fence, or a load of the same line, from behind a load or store; the defaults
are 64 and 2, and `FenceOrders` and `ReadsLatest` are about limits like these
(`InOrder`).  A request of more lines than its limit never gets its slots, and blocks
what is behind it (`Fits`).

*Cache lines.*  `getNumCacheLines` counts a whole line at offset 1 as one, so such a
request lies in two lines (`OneLine`, a part of `LoadExact`, is about the smaller ones); aligned multiples get an
empty request; a request of more than a line at an offset may lose its end.  The loader
makes pieces of up to 64 bytes (`RevLoader.cc:71`; the line size is still 0 when it runs), so with lines
smaller than that bytes of the program and of its arguments are lost; `LinesSuffice` excludes
them from `LoadExact` and `ArgsExact`.  The tests of the repository have lines of 64 bytes.

*Prefetcher.*  The answer to a data load erases the first entry of `OutstandingFetchQ` with its
address (`RevProc.cc:1651`, `RevPrefetcher.cc:77`), which may be the entry of a fetch under way: a program that loads from its
own code.  The last entry then no longer protects the stream, and a read may be answered into a
deleted buffer, with one hart as well.  All properties of the run end at `clash`.

*Memory.*  `mmap` at the front of a larger free segment moves the segment without
shrinking it (`RevMem.cc:495`, against the drawing in line 494); `mmap` refuses a range
that ends where an allocated segment begins; it keeps an address in an `int`
(`RevMem.cc:512`); `munmap` of memory that is not allocated returns 1; `brk` moves
`heapend` but leaves the memory in the free list; an address of a segment that was
removed can be accessed as long as it is in the TLB; the address of a physical page is computed in
32 bits and wraps in a memory of more than 4 GiB (`RevMem.cc:276`), so the modelled ones are smaller; an access longer than a page is not split again (`SizeAssumption`);
with a controller, an access over the end of a page goes partly to the wrong place
(`RevMem.cc:635`, `830`), so pages are modelled without one, and no program of `boot` has a
piece over the end of a page.  A segment that contains
only the top of a new one is moved down without growing (`RevMem.cc:378`); no well-formed
file leads there.

*LR and SC.*  A refused LR leaves its register waiting for good; a successful SC clears
as many 64-bit registers from rd on as the access has bytes (`RevMem.cc:200`).  The
instructions for futures are in no table that a machine string can enable, and they do not
advance the PC.  A store over the address of a future that starts below it changes the word and
leaves the future (`RevMem.cc:603`).

*Decoder* (`Misread`, and the exceptions in `SourcesChecked` and in `CoProcNop`, a part of
`RunsAsWritten`).  32-bit
`ebreak` is not found; `sc.d` loses rs2; `cbo.clean` and `cbo.flush` are exchanged; rounding
mode 4 is fatal, and fused operations ignore the mode; `c.jr` writes its source register as
a link; some offsets of `c.sw` and of `c.fsd` on a 32-bit core are wrong; `c.jal`, `c.flw`,
`c.fsw`, `c.flwsp` and `c.fswsp` run other functions; the address of `fsd` and the data of
`c.fsd` and `sc.d` are not in the scoreboard; a compressed word for the coprocessor also
runs as `c.addi` of its own fields.

*Numbers.*  A conversion of the power of two just above a limit that the format cannot
hold is a cast without a defined result; `fnmadd` gives the other sign of a zero sum.

*Options and loader.*  A list that names core `numCores` passes the test and then either
throws or adds an entry nobody reads; start addresses and symbols are looked up by the
number of the component.  `LoadProgramArgs` does not test for space: arguments that take more
than 964 bytes and the size of the program headers, pointers included, overwrite each other
(`ArgsFit`).  The array of arguments and the copy of the headers lie in the
stack segment of the main thread, although `RevLoader.cc:474` says they are beyond it.

*System calls.*  `openat` ignores the descriptor it was given and opens in the current directory, with the
mode of the program as flags (`RevSysCalls.cc:612`; the note above that line says so), and leaves that directory open; `read` writes as many bytes as it was
asked for, whatever the host returned; `getcwd` copies as many bytes as the buffer has;
files of a finished thread stay open to the end of the simulation.

## Proofs

TLAPS checks these for any number of cores, harts, threads, pages, and so on.  The
`USE` clause at the head of each module names the provers a step is given to, in order, with
time to spare, so that the proofs do not depend on the speed of the machine.

**`RevThreadsProofs`.**  `OnePlace` is not inductive: that
`PopThreadFromHart` makes a hart idle says something about the thread only if the
bitset agrees with the harts, that `HandleThreadStateChangesForProc` finds a thread
in a fitting state depends on one thread changing per core and tick, and that a
core is not skipped depends on `Enabled`.  So the invariants are proved in layers,
each from the ones before: `TypeOK` (`TypeCorrect`); `HartInv`, with `IdleAgrees`
and `LoadsOnHart` (`HartsCorrect`, `LoadsStayOnHart`); `EnabledInv` (`EnabledCorrect`); `PlaceInv`, with
`OnePlace` (`PlacesCorrect`); `JoinInv`, with `JoinSafe` and `NoEarlyEnd`
(`JoinsCorrect`).  The last two assume that thread IDs do not repeat
(`~RandomTIDs`); the mutant of `ImplementsThreadLife` shows what happens otherwise.
`Implements` then maps each action to a step of `ThreadLife` or to a stutter.  The
proofs treat a hart's step by three cases: the thread stays, leaves its hart, or
creates another one (`HartStepCases`).

**`RevPagingProofs`.**  The invariant `Inv` says that the
translation state is `Sound` (pages are mapped one to one to the physical pages
below `nextPage`, there are as many as `nextPage` says, the TLB lists what the queue
lists and agrees with the page map) and that the physical pages from `nextPage` on
hold zeros.  The zeros are why a first touch is
invisible (`ByteStable`).  Translations only add pages (`Grows`), so the two halves
of an access agree (`WalkFacts`).  `nextPage` itself has no bound; what keeps an access
in memory is the count of the touched pages, and `PagesNeverAlias` says that memory is
overrun exactly when they are more than it has (`WalkCounted`, `OverrunExact`).  `MemorySuffices`
concludes that it never is when the addresses a program may use lie on no more pages than
that.  Further theorems: `TypeCorrect`, `TLBCorrect`, and `Implements`: `RevPaging` implements `FlatMem`.  Assumed: no access
is longer than a page (`SizeAssumption`), the TLB has an entry (`TLBAssumption`), and
segments lie in memory (`RegionAssumption`).

**`RevHartProofs`** is about `LRSCLock` and, in its last part, about `RevPrefetcher`.
`MutualExclusion` depends on the reservation: `IInv` says that a
hart about to execute its SC, or with a zero on its way, has the only reservation of
the lock and finds it free, that every load under way is awaited and belongs to a hart
with a reservation, and that a hart past its SC finds the lock taken.  Theorems, for
any number of harts and any numbering of them: `LockExcludes`, `ReservationsApart` and
`LoadsTracked`.  `StoresEndFutures` (`StoreEndsFuture`), for stores of any length, holds because
the one entry that a store erases is the only one of the address it starts at, so `TypeCorrect` is needed first:
`FutureRes` stays increasing.  A number that is not in an increasing sequence has a place in it
(`InsertFacts`), an increasing sequence is as long as its range (`IncreasingFacts`), and so
what `Sorted` chooses exists and has the elements it should (`SortedFacts`, `SetFutureFacts`).

For the prefetcher, `FetchExact` alone is not inductive: it depends on what the streams hold.
A word of a stream is the one at its address or is not there yet (`Exact`); a read under
way is for the address of the word it will fill (`Aimed`); and it still has its buffer
(`Owned`).  The last is the difficult one.  `InstFetch` deletes a stream without looking for
reads into it, and what protects them is `IsAvail`, which looks only at the last entry of
`OutstandingFetchQ`.  So the invariant says that the entries and the reads under way can be paired
off by address (`Paired`, a bijection): an answer erases the first entry with its address,
which may be the entry of another read, and the pairing is repaired (`PairedErase`); and when
the last entry has no read, there are no entries and no reads (`NothingUnderWay`).  Theorems, for
any depth of the streams, program and order of the answers: `FetchCorrect`, `StreamsKept`
(`NoDangling`) and `QueueCorrect` (`QueueExact`), each until `clash`: an answer to a data load
before finds no entry, and leaves the queue as it is.  Assumed: the sizes (`SizeAssumption`), and
one hart, because with two the run `prefetch_harts` shows that a stream is deleted too early.

**`RevMemCtrlProofs`, `RevMemOrderProofs`.**  `OpsAlive` and `LoadsMarkedOnce` need that a
request has one operation at a time, of the first kind or the WRITE of an AMO, and that
an AMO in flight has a single part (`IOps`), since
`handleWriteResp` takes an operation from `AMOTable` with its first answer.  Theorems, for any requests, limits and lines: `OpsCorrect` and
`LoadsCorrect`.  `CountersCorrect` counts the pairs of operation and part in flight; it
assumes that no READLOCK is sent (`NoReadLocks`), because of the answer to one (see above).
`FencesCorrect`, under the same assumption, rests on four more facts: the loop of
`clockTick` runs only when no fence waits (`ITick`), the queue keeps the order in which
requests were sent (`IQueue`), so nothing overtakes a load, store, AMO or fence
(`IStarted`, where `InOrder` is used), and once a fence has been waited for, the loads and
stores before it are done (`IFenced`, where the exact counters are used).
`ReadsCorrect` (`ReadsLatest`) needs neither the counters nor the assumption.  A line is
followed on its own: `On` are the loads, stores and AMOs on it, and `Pending` says that one has
not been answered for it.  Loads, stores and the READs of AMOs are in flight in the order they were sent (`IFlight`,
from `IStarted`), the parts of an operation do not overlap (`IParts`), and the memory below
serves the requests for a line in order, so a request is pending while one before it on the line
is (`IServed`).  Then memory holds the version of a request that has been served (`IWriter`), no older
than any store that has been (`IVersion`), and a load saw the last store before it (`IRead`).
The WRITE of an AMO is queued when its READ is answered and may land behind later stores,
which is why the last two, like the property, are about lines with no AMO sent before.
`TypesCorrect` gives the types of all members, the counters included.

**`RevHeapProofs`.**  `Partition` counts the segments that hold an address, and no step of
the code is about addresses one by one.  The invariant (`Tiles`) says it of whole segments:
within `MemSegs`, within `FreeMemSegs` and between the two no segments overlap, all lie in
the heap but the ones of the program and the stacks, and together they cover it.  One lemma for each
way a list changes (`AddSegment`, `ReplaceSegment`, `EraseSegment`) and one for each way memory
changes hands (`TakeFrontTiles`, `CarveTiles`, `DeallocTiles` with `MergeCases`) show that it is
kept, and `TilesPartition` goes back to the counts.  Like the property, it says
nothing after one of the two calls that `odd` records.  Theorems, for a heap of any size and
any requests: `HeapPartitioned`, and `StacksSeparate` with an invariant of its own (`IStacks`:
where the next stack starts).  Assumed: the layout that `InitHeap` and the loader make
(`HeapAssumption`, `ThreadAssumption`, `LayoutAssumption`).

**`RevPipelineProofs`.**  A register may have at most one load on its way (`ILoads`), or the
answers of two would race for it.  What keeps a second one out is the scoreboard, and what
makes the scoreboard right is a fact about retirement: when a tick ends, the pipeline
queue is empty and no hart waits, or the instruction at its front has a cost other than one
and never retires (`IPipe`; `FrontNeverRetires` states the consequence).  A load without a controller clears its bit while it executes (`HazardFacts`).  So `Retire` clears the bit of the
instruction that was just issued or none (`ExecuteRetires`), and with `IBoard` every bit has a load or
an unretired writer behind it.  Theorems, for any harts, registers, programs, costs and answers:
`ScoreboardCorrect`, `RegFilesKept`, `FrontNeverRetires`, and `CoreImplementsISA`: `RevPipeline`
implements `HartISA`.  For the last, `Seen` is what the program can tell of a register, the data of the load
on its way or else the contents; `ExecuteSeen` shows that an instruction changes it
in the register it writes and nowhere else, and all other steps leave it alone.  Assumed:
a load names a register to write and a store names none (`InstAssumption`).

**`StdContainersProofs`** has the lemmas on sequences without repetitions that most of them
use: what `Append`, `Tail`, `Erase`, `PushFront`, `PopBack`, concatenation and the replacement
of an element do to length, range, order and injectivity.

Only model-checked: liveness (out of reach of the prover under fairness); `RevISA`,
whose properties are about given tables, words and numbers, which TLC enumerates; and
`RevBoot`, where `LoadExact`, `OptionsHonoured` and `HostAskedRight` take inductions
over headers, options and the characters of strings; `FDsOwned`, which takes none, is
left to TLC as well. Only proved: `TypeOK` of `RevThreads`, of `RevPaging` and of
`RevMemCtrl`, `JoinSafe` and `NoEarlyEnd`, which `ImplementsThreadLife` covers in the
run, and `FrontNeverRetires`.

## Not modelled

`components` in `PROJECT.json` gives the status of every part.

- *Network interface*: registered by `RevCPU`, which sends nothing through it.
- *Tracer, statistics, verbose output*: no effect on the simulation.
- *Fault injection*: flips bits at random, off by default; with it no property of the
  values holds, by intent.
- *Single stepping, halt and resume of a core*: nothing calls them.
- *CUSTOM, LOADLINK, STORECOND and WRITEUNLOCK requests of the controller*: `RevMem` never
  sends them.
- *Rounding of floating point numbers and exception flags*: done by the host.
- *Handlers of system calls that only print a notice*: one action, `Stub`.  `perf_stats`
  copies counters that no model has.
- *Headers for target programs*: code of the simulated program.
