# Formal models of light-std (lstd)

This directory holds TLA+ models of the library under `src/lstd/src/`, the TLC
configurations that check them on small instances, and proofs of the most important
facts for every instance. Source paths below are relative to `src/lstd/src/` unless they
start with `src/`; `PROJECT.json` gives, for every definition, the lines it models.

lstd is a C++20 standard library for Windows programs without a C runtime: its own
allocators with a debugging layer, containers, strings, parsing, formatting, paths, threads
and the runtime start-up code that a compiler expects. It is built without exceptions
(`src/premake5.lua`), and `assert` stops a debug build.

## Inventory

| Component | State it keeps | Operations | How it interacts | What is hard |
|---|---|---|---|---|
| Debug heap (`lstd/memory/allocator.cpp`, `.h`) | `DEBUG_memory`: a doubly linked list of headers, a mutex, `AllocationCount`; a header and a no man's land around every block | `general_allocate`, `general_reallocate`, `general_free`, `free_all`, `report_leaks`, heap verification | calls the allocator of the block; every container calls it, from every thread | locked sections alternate with unlocked changes of listed headers; `report_leaks` allocates under its own lock |
| Arena allocator (`arena_allocator.cpp` 1-90) | a list of pools with fill marks, counters | add and remove a pool, allocate, free all | called by the debug heap | the walk over pools, pools removed while blocks are held |
| Temporary allocator (`arena_allocator.cpp` 92-124) | an arena and a starting pool size | the same, growing by itself | one for every thread, in its context | the first allocation, sizes at the boundary, the second try |
| Windows temporary storage (`lstd/os/os.win64.memory.ixx`) | one arena in a storage block, its size, a mutex | conversions of strings between UTF-8 and UTF-16 | every function of the Windows layer, from every thread | replaced or emptied under the users |
| Condition variable (`lstd/thread.h`, `lstd_platform/windows_thread.cpp`) | two events and a count of waiters | wait, notify one, notify all | with the mutex of its user | decisions taken under a lock and carried out after it |
| Threads (`lstd/thread.h`, `lstd_platform/windows_thread.cpp`) | handles, the allocator of each thread's context | launch, wait, end, `PUSH_ALLOC` | a new thread copies its parent's context | the parent goes on meanwhile |
| Thread-safe statics (`lstd_platform/windows_no_crt/thread_safe_statics.cpp`) | a guard per static, a global epoch, an epoch per thread | header, footer, abort, wait, notify | called by code the compiler generates | the guard is read without the lock; lost events |
| Thread-local destructors (`…/tlsdtor.cpp`) | a chain of nodes of functions | register, run all | run at the end of a thread and of the process | destructors that register others or end the process |
| Process exit (`lstd/os/os.win64.common.ixx`) | an array of functions behind a recursive mutex | `exit`, `abort`, `exit_schedule` | calls what was scheduled | functions that schedule others, several threads that exit |
| Console (`lstd/io/console_writer.h`, `lstd/os/os.win64.common.ixx`) | two buffers, handles behind them, a mutex | write, flush | every thread prints | writes larger than a buffer |
| Files (`lstd/path/path.nt.ixx`) | the file system, open handles | query, read, write, copy, move, rename, delete, walk | Windows, other processes | anything may change between two calls |
| Hash table (`lstd/memory/hash_table.h`) | three arrays of slots, `Count`, `SlotsFilled`, `Allocated` | add, set, index, find, reserve, reset, free, clone | allocates its arrays | the rehash re-enters itself |
| Signal (`lstd/memory/signal.h`) | an array of callbacks, a flag, a list of removals | connect, disconnect, emit | calls user code, which calls it | changes to the array under the loop of `emit` |
| Arrays (`lstd/memory/array.h`, `array_like.h`, `stack_array.h`) | `Data`, `Count`, `Allocated`, 0 for a view | insert, remove, replace, set, reserve, reset, free, clone, search, sort | the debug heap; every container holds some | overlapping copies, views that own nothing, what lies behind `Count` |
| Strings (`string.h`, `string.cpp`), string builder, stack dynamic buffer | bytes and a cached `Length`; a chain of buffers; a buffer that spills to the heap | insert, remove, replace, search, trim; append, reset, free, combine | the debug heap | code points of several bytes, chains that are used again |
| Code points, parsing (`string_utils.h`, `parse.h`) | none | conversions, comparisons, `parse_int`, `parse_guid`, … | | boundaries of encodings and of types |
| Formatting (`lstd/fmt/`), big integers | none; digits | `fmt_parse_and_format`, the writing of values, Grisu, arithmetic | calls parsing | the grammar, padding, errors of floats, signs |
| Memory functions, bits, 128 bit integers, hasher, paths | none | pure functions | | boundaries of numbers and of blocks |
| Allocator wrapper, mutexes, runtime start, POSIX layer, mathematics, vendored code | | | | see "Not modelled" |

What makes each component correct, in words: the list of headers holds exactly
the live blocks and no freed one; an allocator never hands out a byte twice and
refuses only when it is full; a thread that waits is woken if what it waits for
is there, and one that is started has the allocator it was started with; a static is
constructed once, before it is used; containers, strings and buffers are the
sequences and maps they promise to be, whatever order the operations come in; a function
without state returns what its name, comment or grammar says. `PROJECT.json` lists every
component with its status, and the hazards of the code, each at its line with the
properties that cover it.

## Modules

| Module | Models | Its part |
|---|---|---|
| `HeaderList` | the links of `debug_memory` | operators for `add_header`, `unlink_header`, `swap_header`, their asserts and the loop over the list |
| `DebugHeap` | `general_*`, `free_all`, `report_leaks` by several threads | composes `HeaderList` with blocks, counters and the mutex; implements `AllocationLedger` |
| `AllocationLedger` | what a header promises about its allocation | abstract specification |
| `BlockAllocator` | what a user of an allocator relies on | abstract specification of `Arena` |
| `ArenaPools` | the pools of an arena | operators shared by `Arena`, `TempAllocator`, `PlatformTemp` |
| `Arena` | `arena_allocator` | implements `BlockAllocator` |
| `TempAllocator` | `default_temp_allocator` | implements `Arena` |
| `PlatformTemp` | `win64_temp_alloc` and its callers by several threads | |
| `ConditionVariable` | `condition_variable` with the client of the test | |
| `ThreadSafeStatics` | `_Init_thread_*` and the guards | |
| `ThreadStart` | `init_and_launch`, the new thread's copy of the context, `wait`, `PUSH_ALLOC` | |
| `ProcessExit`, `TlsDestructors`, `Console` | `exit` and its functions; `__tlregdtor`, `__dyn_tls_dtor`; `cout` and `cerr` | |
| `Files` | the file functions, call by call, with Windows | |
| `HashTable` | `hash_table` | implements `Dictionary`, a map from keys to values |
| `Signal` | `signal` with callbacks that call it | |
| `Array` | `array`, views and the search for a subarray | the buffers against sequences |
| `Strings`, `StringBuilder`, `StackDynamicBuffer` | the containers of those names | each against the sequence it should hold |
| `Utf8`, `Parse` | `string_utils.h`, `parse.h` | operators; used by `Strings` and `Formatting` |
| `TextFunctions` | | what these should return |
| `MemoryCopy` | `copy_memory`, `fill_memory`, `compare_memory`, the hasher | and what they should do |
| `Arithmetic` | bits and ranges of `common.h`, `u128.h` | and what they should return |
| `Searching`, `Paths`, `BigInteger` | `array_like.h` and `quick_sort`; the text of paths; `big_integer.ixx` | and what they should return |
| `Formatting` | format strings; how values are written, down to the digits of Grisu | operators |
| `FormatFunctions` | | the documented grammar and the look of values |
| `Calls` | one call of a function | the state of all modules of functions |
| `MCProcess` | the three routines of `HeaderList` in any order | the pointers against the sequence of the comments, `allocator.h` 244-269; and next to it `Signal`, `ThreadStart`, `ProcessExit`, `Console` and `TlsDestructors` |
| `MCThreads` | | what threads wait for each other in, and what processes share: `ThreadSafeStatics`, `ConditionVariable`, `PlatformTemp` and `Files` side by side |
| `MCSystem` | | `MCProcess` with the data structures; it extends `Array` and instantiates the others |
| `MCTempAllocator`, `MCFunctions` | | instances for TLC |
| `ArenaProofs`, `PlatformTempProofs`, `ConditionVariableProofs`, `DebugHeapProofs` | | theorems of the modules of those names, `ArenaProofs` of `TempAllocator` too |
| `ContainerProofs` | | theorems of `Array`, `StackDynamicBuffer` and `StringBuilder` |
| `HeaderListProofs` | | lemmas about the operators of `HeaderList` |
| `ThreadsProofs`, `SystemProofs` | | theorems of `ThreadSafeStatics`, `Files` and `MCThreads`; of `MCProcess` |

### Correspondence

**Debug heap.** A header stands for its block. `list` is `Head` and the two link
fields; `memory` holds the other fields that matter (`ID`, `RID`, `Size`, `Alloc`,
`MarkedAsLeak`) and one bit, `land`: whether the no man's land is where `Size` says.
A section under `debug_memory::Mutex` is one action and each stretch of code
between two sections that another thread can observe is one or more. So a
call is a chain of actions (`pc[t]`): `Allocate`, `AllocateBlock`,
`EncodeReadsCount`, `EncodeHeader`, `AddToList`; or `Reallocate`, then
`ResizeInPlace` and `Refill`, or `ResizeFails`, `AllocateBlock`, …, `SwapInList`,
`RetireOldBlock` and `Refill`. User code asks a reallocation for more only: what the code does for
less is a divergence (below). `encode_header` is two actions because it reads
`AllocationCount` and increments it in two steps; it does both after the lock was
released. `report_leaks` holds the mutex while it calls `general_allocate` and
`general_free`, which lock it again: `mutex` is the thread inside it. A failed
assert sets `asserted` and stops every thread. The `ID` is 32 bits wide in the
code and counts modulo `IdModulus` in the model. File names, lines, alignment
and the text of the report are left out.

**Arenas.** A pool is `[piece, Size, Used]`: the memory it was made of, what the
pool header leaves of it, and the fill mark. `given` is a history variable, the
blocks handed out since they were last freed. The quirks of the walk are kept: it
stops at the last pool without testing it, the test is `Used + size < Size`, and a
failed allocation still reads the last pool. `TempAllocator` adds the two phases of
a growing allocation: the first try, `Grow` by a pool of the next power of two or
of the starting size, and `Retry`; `NoMemory` is the operating system refusing.
The size a user asks for includes what `general_allocate` adds.

**Windows temporary storage.** `TempAlloc` is `S->TempAlloc.Context`, which lies at the
head of the storage block itself; `data` has one entry for each block that
exists. A conversion reads `S->TempAlloc` without the lock (`Convert`), locks, computes
its result (`Choose`), moves the fill mark (`Fill`), and then returns or empties or
replaces the storage and tries again with the context it was passed. A use of
a storage block that was freed is undefined in the code: the model goes to
`freed_context` and stops that thread there. Emptying and replacing the storage goes through
`win64_temp_alloc` again, which locks the mutex that is held (`CanLock`).

**Condition variable.** The auto-reset and the manual-reset event, the count under its
critical section, and the client of `src/test_suite/src/tests/thread.cpp`
(notifiers increment a counter and notify with the mutex held, waiters wait in
a loop). Between the unlock of the mutex and the wait, between the decision to
reset and the reset, and between the test for waiters and the signal, other threads
can run: each is a step of its own.

**Thread-safe statics.** A section under the lock is one step; the guard is
read without it. `native` is whether the system has condition variables; if not,
the code uses an event that is set and reset at once, which may wake any subset of
the waiting threads, and a timeout of 100 ms. `HalfRange` stands for 2^31: the epoch
counts from its negative towards the special values -1 and 0, and `Footer` stops in front
of them, which bounds the number of statics a program may construct.

**Threads.** `state` is where a thread is: absent, created, with the context copied
(`CopyContext`), running, waiting, ended. The new thread looks at its parent's context
twice, to copy it and to see whether its allocator is the parent's temporary one; in
between the parent can enter and leave a `PUSH_ALLOC` scope, and end. `Stays` says
that a parent does neither until the threads it launched run; without it
`thread_temp` finds what goes wrong.

**Exit, destructors, console.** `ExitFunctions` is an array that grows and may move while the
loop of `exit` goes over it; the loop keeps what it read at its start. `dtor_list` is the
chain of nodes of thread-local destructors and `pnode`, `next` and `phase` where
`__dyn_tls_dtor` is in it. `cells` are both console buffers, one behind the other, and
the handles behind them, so that what a large write overwrites is seen.

**Files.** Windows is external: `files` with their contents, `dirs`, and the open `handles`
with their access and sharing; it refuses a handle that another's sharing does not allow,
and may refuse any call. A function is the sequence of calls the code makes (`calls[p]`),
and the other process acts between any two. Some refusals go unnoticed: of the size of a file, of
moving to its end or cutting there, of `FindFirstFileW` and `FindNextFileW`, and of the look whether an
entry is a directory; `missed` remembers where. Sizes are cut to 32 bits when bytes are read or
written; `SizeLimit` stands for 2^32. A process whose assert fires makes no further call.

**Hash table.** `Slots` stands for the three arrays. `reserve` sets up new arrays
while `Allocated` is still the old number, and adds the items with
`add_prehashed`, which may call `reserve` again: `Reserve` is a recursive function of a
table and a number, and the probe sequence uses `Allocated`, not the
number of slots. `map` is a history variable: what the user has put. `remove` and
`has_prehashed` are templates that no type can instantiate (they name members that
do not exist), so no program contains them. The memory of free slots is uninitialized;
a slot whose hash is 0 is taken for one that does not match.

**Signal.** `loops` is the stack of the loops of running emissions. User code runs
outside emissions and in callbacks, and may connect, disconnect and emit. The array of callbacks
grows and may move when it does (`storage`), also under a loop, which goes on in the block it read
at its start: it then finds `Garbage`, and calling that ends the process (`status`).

**Array.** `arr[x]` is the struct: whose block `Data` points into, at which offset, with
`Count` and `Allocated`. `block[x]` is every cell of the block x owns, the ones behind
`Count` included: what was removed stays there. Operations work on a record of both,
in the order of the code (reserve, move, copy, count), and `value` is a history
variable, the sequence that the names and comments of the operations promise. Copies
follow `const_copy_memory`; that the SSE versions do the same is `MemoryCopy`'s subject. The
user is assumed not to change an array that views look at.

**Strings and buffers.** A string is the sequence of its bytes with the cached `Length`;
`text` is the sequence of code points its operations should have left. The builder is a
graph of buffers with `Next` pointers, and reset and free leave them as the code does; a buffer
that is no longer reachable is lost. The stack dynamic buffer is `Data`, `Count`
and `Reserved`, with the buffer inside it as one of the places `Data` can point to.

**Functions.** A behaviour of a module of functions is one call: `call` holds the name,
the arguments and the result. A module defines the function as the code computes it, and a
reference that says what it should be: an integer is parsed from digits written by a reference,
a copied byte is known by the address it had before, a quotient is that of the
values, the grammar of format strings is read from the documentation's general form and not from
the parser's branches. Widths are scaled down where TLC's integers or the number of
inputs demand it: digits of big integers have 3 bits, words of `u128` 5 and 8, an `int`
of the parser 8, one of its integer types 6, and the significands of Grisu 8 bits behind the point. `MemoryCopy` keeps
the block widths and thresholds of the code, except those of the streaming loops. Where an
index would be taken outside of a string or an assert fails, the result is `Asserts`.

The references say what comments, documentation, tests and names say of a function, never what the
code does. Where the code does otherwise, or two of those sources contradict each other, the
property has an operator that names exactly those inputs (`LastByteUnread`, `LeastUnread`, `MayEscape`, `LosesRoot`,
`SameForEqual`, `OctalPrefix`, …) with the line, and says nothing of the result: a run that passes
neither shows those inputs right nor expects them wrong. Each is listed under the divergences below.
`quick_sort` is given what lies in front of the array (`Fronts`), below, among and above its elements.

## Runs

Every passing run is exhaustive for its constants.

| Run | Question and properties | States | Bounds, and why they are enough |
|---|---|---|---|
| `heap_threads` | Can two threads break the list? `TypeOK`, `ListIsHeap`, `LedgerSpec` | 49 735 (with symmetry) | 2 threads, 3 headers, a single allocator, 2 allocations after which no call starts, 1 reallocation per block: every pair of calls interleaves, the list has a first, a middle and a last header. The heap is verified only when the count is a multiple of 255, the default |
| `heap_one_thread` | Does a thread on its own see asserts, or a call that does not end? `NoAssertFires`, `CallsReturn` | 138 950 | verification at every call, `free_all`, sizes 1 to 3, 3 headers, 3 allocations, 2 reallocations; `IdModulus` 4 is above the number of allocations |
| `heap_verify` | violation of `NoAssertFires` | | verification at every call and two threads |
| `temp` | Is the temporary allocator an arena that keeps its promise? `TempTypeOK`, `GivenDisjoint`, `GrowsOnlyWhenFull`, `ImplementsArena`, `PromiseKept` | 280 241; deadlock not checked: a read through the null list or the bound on used bytes stops it | a starting pool of 8 units, header of 1; sizes 3, 8 and 16 lie below, at and above the starting size; pools of the user, of the start and of growth |
| `temp_first` | violation of `FirstAllocationWorks` | | the same |
| `threads` | Is a waiter left asleep? Is a static constructed once, before its use, and does everybody get it? Do two threads get the same bytes of the storage? Does a file change under a process that has it open? `AllTypesOK`, `UsesConstructed`, `NoWaiterLeftBehind`, `ReturnsFresh`, `NoneChangesUnder`, `StaticsReady`, `WaitersReturn`, `KeptUnlessAllowed` | 487 082; deadlock not checked: it ends when all threads have what they want, a thread that uses freed storage stops, and calls of processes are bounded | 2 waiters for a count of 1, 2 notifiers that call `notify_all`: notifications before, during and after each wait; 3 threads, a static whose initializer uses another, one exception, both kinds of waiting; 2 converting threads, 2 storage blocks, sizes below, at and above the storage's; 2 processes, one call each, a file next to a directory with a file of the same name; sizes of 3 do not fit `SizeLimit`, those of 0 to 2 do |
| `cond_all_lost` | violation of `NoWaiterLeftBehind` | | the condition variable of `threads` with a count of 2, so that waiters wait again; deadlock is not checked, a lost notification is the end |
| `platform_temp_grow` | violation of `NeverUsesFreedStorage` | | the storage of `threads` |
| `components` | Does every other component do what it promises, after every series of its operations? `SystemTypesOK`, `ListIsOrder`, `NoAssertFires`, `FindAgrees`, `ImplementsDictionary`, `CallsWhatIsDue`, `NoneRemovedWhileEmitting`, `ContentsAgree`, `StringIsValue`, `BuffersHold`, `StartsAsLaunched`, `ExitRunsScheduled`, `OutputKept`, `DestroyedInReverse` | 247 129; deadlock not checked: a process exits, calls are bounded | see below |
| `thread_temp` | violation of `NoForeignTemp` | | `MCProcess`, with the threads of `components` but two, whose parents do not stay |
| `functions` | Does every function return what its reference says? `ConversionsAgree`, `ParsedAsWritten`, `BytesAgree`, `NumbersAgree`, `SortedAndFound`, `PathsAgree`, `BigIntegersAgree`, `FormatAgrees` | 734 191; a call is the end | one call each, see below |
| `float_digits` | violation of `DigitsAreWritten` | | the floats of `functions` |

`threads` and `components` put components that share nothing side by side (`MCThreads`,
`MCProcess`, `MCSystem`): `component` is chosen in the initial state and only that one
moves. `functions` does the same with the parts of the library that keep no state.

The bounds of `components`:

* *containers*: 4 headers in the list; 4 keys of which 3 collide in a table of
  4 slots, growing to 16; 2 callbacks connected up to 3 times in an array that begins with 2 cells instead of 8
and so moves at the second, emissions nested once; 2 arrays of
  up to 4 elements of 2 kinds, whose blocks start with 2 cells instead of 8, so that they grow
  twice, and which can be views of each other. `MaxFilled` lets user code
  call `reserve` only when at most one slot is filled: beyond, the table loses slots (see
  below). `ArrayReplaceAll` is not called where its search would find something behind the array.
  Keys have hashes from 2 on: smaller ones are never found. `CallsWhatIsDue` and
  `NoneRemovedWhileEmitting` speak of emissions none of whose callbacks emits the same signal; that a loop
  meets garbage is claimed to need as many callbacks as the array had cells at its start.
* *strings*: up to 4 code points of one, two and four bytes in both cases, with blanks.
  *Builder*: buffers of 2 bytes, texts that fill less than one, exactly one and more than two of
  them. *Stack dynamic buffer*: 4 bytes inside, blocks of at least 8, so that it spills and grows.
* *threads*: 3, each started by any other, scopes nested twice. *Exit*: 3 threads,
  2 functions, of which one schedules the other, up to 4 scheduled, and an array that moves at its
  third element. *Console*: buffers of 2 cells and writes of up to 3. *Destructors*: nodes of 2, 6
  registered.

The bounds of `functions`: the inputs are listed with comments in `MCFunctions` and its
configuration. They are all strings over a small alphabet up to a length, where the length takes every
loop of the code twice (format strings from six beginnings, paths from four, numbers and text
to parse, UTF-8 from the lead and continuation bytes at every boundary), and otherwise both sides of
every threshold in the code (sizes at which another block is copied, numbers of digits,
values at the limits of types). The inputs of which a property says nothing are named in it and
listed below, so that everything else is covered.

### Fairness

`DebugHeap` (`heap_one_thread`), `PlatformTemp`, `ConditionVariable` and
`ThreadSafeStatics` assume weak fairness of each thread's steps: Windows runs every
thread that can run. Weak fairness of a thread that waits for a critical section
promises it nothing while others keep taking it, and the code has no fair
locks; no property needs more. User code need not make a call: only the steps of
a call under way are fair. In `ThreadSafeStatics` the initializers end. A native wait
there is not ended by its timeout (the comment at line 183 says it may be infinite);
the wait for the event is. `components`, `functions` and `Files` have no liveness
properties: their loops are single steps, or bounded by what they go over, and Windows may refuse a call.

### Disagreements with the code's own comments and tests, shown by a run

* `heap_verify`: `general_reallocate` changes `Size` of a listed header without the
  lock and writes the no man's land later (`allocator.cpp` 462, 477); a heap
  verification of another thread asserts in between.
* `temp_first`: with no pool yet `default_temp_allocator` only computes the starting
  size (101-102); the allocation then reads through the null list.
* `platform_temp_grow`: a conversion larger than the storage frees the storage with the
  context in it and allocates with that context (`os.win64.memory.ixx` 137-140).
* `cond_all_lost`: the last waiter resets the event after it left the lock
  (`windows_thread.cpp` 99-100) and can erase a newer `notify_all`.
* `thread_temp`: a thread takes over the temporary allocator of its parent
  (`windows_thread.cpp` 161; the comment at 159-160 says it does not).
* `float_digits`: for a number that ends before the digits asked for, as 392.5 with `{:f}`,
  Grisu gives up (`fmt.format_float.grisu.ixx` 105), its fallback is commented out, and the
  number is written as 0.0 (`src/test_suite/src/tests/fmt.cpp` 171 expects 392.500000).

### Divergences seen while modelling, stated in no run

The models behave as the code does in all of these; each can be seen by giving a
configuration other constants, by reading the operator named after the function, or as
the inputs that a property of `functions` names and says nothing of.

*Allocation.*

* Two threads can be given the same ID (`allocator.cpp` 237; `allocator.h` 151 says unique):
  `EncodeReadsCount` and `EncodeHeader`.
* `free_all` unlinks the headers of every allocator (526; the comment at 524 says those
  made with the allocator): `FreeAll`; with two allocators in `FreesAll` a later
  `general_free` asserts.
* A reallocation that shrinks copies the old `Size` into the smaller block (430) and fills memory behind
  the old one (473; the comment at 472 says "fill the old stuff"): `Reallocate` asks for more.
* A moved block becomes a leak that is not reported, `MarkedAsLeak` being read from
  the filled old header (447): `RetireOldBlock`. `report_leaks` leaks its array when it returns
  early (118, 138).
* `REMOVE_POOL` leaves the pool's bytes in `TotalUsed` (`arena_allocator.cpp` 30-40):
  `RemovePool`. A size within a pool header of 8 KiB gets a pool it does not fit in (116,
  `allocator.h` 508): `PoolSizeFor`; the same with the Windows storage
  (`os.win64.memory.ixx` 131).
* Functions that hold two conversions can have the first one overwritten by the second
  (`os.win64.common.ixx` 444; the comment at `os.win64.memory.ixx` 122), also by another thread
  (143).

*Threads and the process.*

* Two calls of `notify_one` before a waiter runs wake one waiter (`windows_thread.cpp` 111;
  `thread.h` 187): `SetEvent` with `NotifyAll = FALSE` and `Take = 1`. A thread that starts to
  wait after `notify_all` can be woken by it (123; `thread.h` 189).
* The thread-local storage of a parent that ended is gone when the child copies its context:
  `CopyContext` gives `Garbage`. `ExitThread` comes before `FreeLibrary`, which is never
  reached (175-176).
* `exit` does not empty `ExitFunctions` (`os.win64.common.ixx` 355): two threads that exit both run all
  of them, a function that exits starts over, and one scheduled meanwhile is not run.
* A write larger than the console buffer goes over the other buffer and the handles (517);
  what is left in the buffers at the end is not flushed.
* Destructors that destructors register are never called; one that ends the process makes
  those of its node run again (`tlsdtor.cpp` 117-123).

*Containers.*

* A nested `reserve` of the hash table leaves fewer slots than it counts (`hash_table.h` 228; 151
  promises the space). A key whose hash is 0 or 1 is added and never found (276 and 307).
  `Count` counts the items again at every rehash (213; 58 says the number of valid items).
* An emission inside a callback ends the deferral of removals for the outer one
  (`signal.h` 180; the comment at 165). A callback that connects another one can move the array under the
  loop of `emit` (150 and 177), which then calls what it finds in freed memory: `Found`.
* The search for a subarray reads behind the last element (`array_like.h` 108);
  `array_replace_all` then copies a negative number of elements.
* `quick_sort` compares elements where it should compare positions (`stack_array.h` 19):
  [5, 3, 1] becomes [3, 1, 5]. It reads the element in front of the range, whatever lies there, and leaves
  the range when that is not below its elements, or when two of those are equal: `MayEscape`.
* String searches backwards miss offset 0 and step by the wrong size (`string.h` 385-597);
  `compare` of a proper prefix is the last common index (253-270); `trim_start` of blanks leaves the
  last one.
* After `reset` the builder's next full buffer replaces `Next`, and what was behind is lost
  (`string_builder.cpp` 52); after `free`, `Next` dangles. The stack dynamic buffer is written
  through null after `free`; `string_remove_range` computes its end from its begin (158-167).

*Text.*

* `is_valid_utf8` does not look at the fourth byte (`string_utils.h` 387; the comment at 400): `LastByteUnread`;
  `utf16_to_utf8` overwrites a surrogate pair with its second half (450); comparing without case
  compares the raw units where they differ (280).
* `parse_int` reports too many digits next to the least number of a signed type, and divides wrongly for
  types below `int` (`parse.h` 205-206): `LeastUnread`; a number below the least of an unsigned type gives 1
  instead of it. With a base prefix to be looked for, a 0 alone is `EXHAUSTED` and an octal prefix
  without a digit is a number (251, 253), and base 8 without the prefix takes no digit. `parse_bool` that ignores case
  does not for the first letter (403, 411): `OtherFirstLetter`.
* `eat_hex_byte` always advances by two (432); `parse_guid` reads an exhausted
  buffer (549); `eat_bytes_while` skips whole blocks with one match (643); the functions that eat code points leave one byte too few
  at an invalid one (712), and do not end at a continuation byte (693).
* `path_split_drive` of two separators, `path_normalize` of nothing, a drive or a root alone assert
  (`path.nt.ixx` 260, 369): `LooksBehindEnd`; `C:.` becomes `C` (406; the comment at 71): `LosesRoot`; `path_join` to a sharepoint
  drops it (337): `ReplacesUNC`; a drive or a UNC resource without a separator behind it is not absolute
  (291; the comment at 52-58 says it is).
* `path_walk` asserts when a directory vanishes before it is entered (620), and leaves out the rest of a directory
  without a word when Windows refuses to list it (587, 604), and what is below an entry that cannot be
  opened (632). `path_read_entire_file` asserts for files of 4 GiB and more (671-672), and reads nothing, successfully, when
  the size is refused (666). `path_write_to_file` writes at the start when moving to the end is refused (684).
  A hard link needs a directory, which 171 denies; a write that replaces truncates first.

*Formatting.*

* Zero has no digits (`count_digits`, `common.h` 581 says one): `{:5}` of 0 is six wide, with the digit
  in front of the buffer (`fmt.context.ixx` 464). Separators come on top of a numeric width, and
  overflow the buffer of 65: `ZeroUncounted`, `SeparatorsUncounted`. A precision beyond a string's length reads behind it (413;
  `fmt.ixx` 67 says it is a maximum): `BehindString`. `c` pads by bytes
  (481; the comment at 372 and `tests/fmt.cpp` 570 say code points): `BytesCounted`. Infinities go to the left: `InfinityAligned`.
* The documentation and the tests contradict each other. A precision of an integer is ignored (`fmt.ixx` 68) or an error
  (`tests/fmt.cpp` 602): `PrecisionOfInteger`. The prefix of octal numbers is 0o (58) or 0 (482): `OctalPrefix`. Numbers without an alignment go to the left
  (35) or to the right (538), separators are dots (80) or commas (166), floats without a type keep a
  digit behind the point (92) or not (340): here the references take the tests' side, as they give whole results.
* A closing brace without an opening one is dropped; a string that ends behind `:` asserts
  (`fmt.parse_context.ixx` 157; 266 says the caller handles it); a wrong dynamic width is reported and
  used; a fill whose lowest byte is that of an alignment is taken for one (161), and `{:<<5}` is an error:
  `Misread`; `{!t` reads behind the string: `Nameless`.
* `big_integer.ixx`: integers below zero with as many digits are equal (971), so their product is a
  square; comparison ignores signs; the remainder of a smaller negative has the wrong sign (925);
  `k_mul` asserts for two large operands (591); assigning the least value does not end; a long
  division whose digit is one too small asserts (196).

*Numbers and memory.*

* Division of `u128` assigns its divisor (`u128.h` 530), negation lacks the one (295), `s128 >> 64`
  loses the sign (498). `lsb` of a wide zero is 63, `msb` of zero 0. `const_fill_memory`
  writes too much and wrong bytes (`common.h` 401-418).
* The wide copy backwards of 17 to 47 remaining bytes writes in front of the destination
  (`internal.cpp` 342); `fill_memory` stores misaligned (1012); `compare_memory` gives a wrong index
  for the last word and for what follows it (1111, 1194, 1226).
* The hasher reads behind its input from 32 bytes on and overflows its buffer (`hasher.h` 62): `Add`.

## Proofs

TLAPS checks these for every value of the constants that satisfies the named
assumptions. Each rests on an inductive invariant, stated at the head of its section, that
the initial states satisfy and every step keeps, with one lemma per action.

**The debug heap** (`HeaderAssumption`, `HeapAssumption`).

* `HeaderListProofs` is about the operators. For each of `add_header`, `unlink_header` and
  `swap_header` a lemma says that it maps a list that `Represents(L, s)` to one that
  represents the sequence with an element added in front, dropped or replaced, by cases on where
  the header is: alone, first, last or in between, as in the code. Others say the same of a list
  known by the set of its headers only (`IsListOf`), of `UnlinkAll`, and that the loop over the list
  reaches exactly its headers.
* `DebugHeapProofs`. `TypesAreKept` holds for any threads and allocators. Its invariant
  `Inv` says for each place of a call which block it holds and whether that one is listed
  (`CallOK`, `HeldOK`, `HeaderOK`), that no two calls hold the same block (`Apart`), that what was
  given back is `Dead` (`Gone`), that nobody else uses an allocator that is freed at once
  (`FreesAlone`), and how many calls have still to count their allocation (`CountOK`).
  `ListStaysHeap` is `ListIsHeap`: the list is one of exactly those headers that the
  pointers of user code and the places of the calls say should be in it (`ListOK`), and what
  `report_leaks` finds fits the array it sized (`LeaksOf`). It assumes `OneToFree`: `free_all` drops
  the headers of every allocator, so a program that has it may have only that one.
* `AssertsNeedAResize`: when an assert fired, another thread had resized a listed block in place and
  not yet written its no man's land (`AssertOK`, `LandOK`). Therefore a program with one thread sees
  none, `NoAssertInOneThread`, nor does one whose allocators never resize in place,
  `NoAssertWhenBlocksMove`. Neither hypothesis can go: `heap_verify` has two threads and an allocator
  that resizes, and an assert fires.
* `HeapKeepsLedger`: the heap implements `AllocationLedger`. A step leaves the entries of the
  listed headers (`SameEntries`), or adds, retires or renews one.

**Allocators.**

* `ArenaProofs` (`PoolHeaderAssumption`, `ArenaAssumption`). `IInv` adds to the type that pools
  have different pieces, that fill marks stay below sizes (`PoolsOK`), and that every block in use
  lies below the fill mark of its pool (`BlocksOK`). `GivenDisjoint` alone is not inductive:
  nothing in it says that a new block, cut at the fill mark, misses the old ones. Each
  action has a lemma that it keeps `IInv` and is a step of `BlockAllocator`:
  `BlocksNeverOverlap`, `ArenaKeepsPromise`. `ArenaRefusesOnlyWhenFull` rests on
  `ChosenPoolInList`: the walk of `ALLOCATE` ends, and passes no pool with room.
* The same module, for `TempAllocator` (also `TempAssumption`). Every step is a step of
  `Arena` or a stutter, so `TempImplementsArena`, and `BlocksNeverOverlap` carries over:
  `TempBlocksNeverOverlap`. For `TempGrowsOnlyWhenFull` the invariant `GrowthInv` adds what a call
  that waits knows: no pool had room when it went to grow (`GrowsForNeed`), and the pool
  that came is empty and of the size computed for it (`PoolWasAdded`), so that the
  second try can be refused only near the starting size. `TempAssumption` says that the
  starting pool has room for its header, that some power of two reaches twice every size, and
  that powers of two are naturals, which the provers do not know. `TempTypeCorrect` follows too.
* `PlatformTempProofs` (`PlatformAssumption`). `StorageGivenOnce` is `ReturnsFresh` for any
  number of threads: `HolderOK` says that only the holder of the mutex is inside an allocation,
  `ChosenOK` that what it chose is still the fill mark, `ReturnOK` and `GivenOK` that what
  was returned and given lies below it. All four are needed: the mark is read in one step and
  moved in another. The invariant also says that one storage block with one pool exists, the one
  `TempAlloc` points to: `StorageTyped`.

**Threads that wait for each other.**

* `ConditionVariableProofs`. `FirstNotificationReachesAll` is `NoWaiterLeftBehind` for any finite
  number of waiters and any notifiers, under `FirstForAll`: all wait for the first notification,
  nothing is taken back, notifiers call `notify_all`. The invariant says that `WaitersCount` counts
  the waiters between `PreWait` and `CountOut` (`CountOK`), that who holds the mutex is alone in the
  section it guards (`MutexOK`), that `EventAll` is set only when the client's count is there and reset
  only when nobody waits (`EventOK`), and that a waiter that waits although the count is there
  has a notification coming (`WakeOK`). With a count of two the theorem is false: `cond_all_lost`.
  `CountsWaiters` needs none of that, only a finite number of waiters (`Client`): the count is right
  and never below zero whatever is notified.
* `ThreadsProofs` (`StaticsAssumption`). `StaticsConstructedOnce` is `UsesConstructed` for
  any threads, statics and dependencies: a static under initialization has one owner (`OwnersOK`), a
  guard that is an epoch belongs to a constructed static (`ConstructedOK`), and what was used was
  constructed (`UsedOK`). That no guard can be taken for a special value rests on the bound in
  `Footer`; `StaticsTyped` says that epochs are kept.
* The second part of the module shows that a behaviour of `MCThreads` is one of each of
  its components (`IsOfStatics`, `IsOfCondition`, `IsOfStorage`, `DiskSteps`), so that their theorems hold
  in it: `AllWaitersReached`, `StorageReturnsFresh`, `AllStaticsConstructed`, `AllTyped`.
  `MCThreads` assumes of its constants what the theorems assume (`ClientAssumption`,
  `StorageAssumption`, `DiskAssumption`), and TLC evaluates that in every run of the module.

**Processes that use files** (`ThreadsProofs`, `DiskAssumption`: paths are sequences, what is there at first lies
in directories). For any number of processes, paths and calls:

* `OpenFilesStay` is `NoneChangesUnder`, for any `SizeLimit` and whatever call Windows refuses. It is not inductive: that an open file stays rests on the handles.
  `OpenInv` says that the handles are exactly those of the calls that have a file open (`HandlesOK`), that two
  calls have the same file open only to read it (`SharedOK`), and what each has seen (`SeenOK`,
  `PlacesOK`); the assert on the size of what was read fires only for files beyond the limit. Every act of another process then leaves an open file alone (`ActsAlone`).
* Its second half is about walks. `WalkOK` says that walkers are of different directories that were listed, and
  that what waits in a walker lies in its directory and was not listed yet, so nothing is listed twice. `Reaches`
  says that what stayed since the walk began is listed, waits in a walker, lies in a directory that is
  entered next or in which a refused call went unnoticed, or under something not listed yet. At the end no walker is left, and
  if nothing was missed, the shortest path that is not listed would have a shorter one above it (`AllListed`). This needs that everything there is lies in a
  directory (`TreeOK`) and that the directories of what stayed have stayed (`StableOK`).
* `ContentsLostOnlyIfAllowed` is the action property `KeptUnlessAllowed`, one lemma for every call that changes
  files (`ActKeeps`); of the invariant it needs that `rename` never may replace.
* That files hold bytes of what was there at first or is written (`HeldOK`), for `AllTyped`, needs that the pointer
  of a write is inside the file.

**Components side by side** (`SystemProofs`). The theorems are about `ProcessSpec`; a step of `SystemSpec` is
a step of `ProcessNext` or leaves all its variables alone.

* *Headers.* `ListIsOrder` with the list's type and the distinctness of its headers is inductive by
  itself. `ListIsAlwaysOrder` and `AssertsNeverFire` follow from the lemmas of `HeaderListProofs`.
* *Signal.* `SignalInv`: every loop is inside the array, the loops around the innermost one
  are marked as nested, and while the innermost is not marked, removals wait (`CurrentlyEmitting`) and
  its history is right: what is due is what was connected in the slots it goes over, and what was
  called is the part of it up to where the loop is, in order (`CalledSoFar`). A loop whose block is not the
  array's any more saw it outgrow the cells it had room for (`RoomLeft`). So `EmissionsCallWhatIsDue`
  and the action property `CallbacksStayWhileEmitting`, for any depth of emissions and any moves of the array.
* *Threads.* `ThreadsStartAsLaunched` is `StartsAsLaunched` under `Stays`: until a thread
  runs, its parent is as it was at the launch (`LaunchParentOK`), and who does not run has no scopes
  (`LaunchScopesOK`). Without `Stays` the theorem is false: `thread_temp`.
* *Exit.* `ExitRunsWhatWasScheduled`. `ExitInv` says of the loop of the thread that holds the mutex that it
  has run the beginning of the array, that the array still begins with what was due, and that its
  block is the one the loop reads unless a function that schedules others has run (`InLoop`). It assumes that
  `NoThread` and `Garbage` stand for no thread and no function, and that what is scheduled is a function.
* *Console.* `ConsoleKeepsOutput`. `ConsoleInv` says of each writer that what was written is what was shown and,
  behind it, what is in its buffer, as long as no write has gone over the buffer (`Unharmed`, `ShownFirst`), and
  that the buffer is filled from its start (`BufferOK`). It assumes sizes of at most two buffers: the
  model has no memory behind them.
* *Destructors.* `DestructorsRunInReverse`, for nodes of any size. Functions are numbered as they are
  registered, so that none is in the nodes twice (`Once`, `UpTo`, `Numbered`). While the thread ends, the nodes up
  to the place of the loop hold the first functions of those that are due, in order, and what is
  behind is registered meanwhile (`Ends`, `InOrder`). After a destructor ended the process, everything due was
  called or is still ahead (`Covered`), and what is called twice was in the node of that
  destructor (`Repeats`), which bounds it by `FUNCS_PER_NODE`.

**Arrays** (`ContainerProofs`, `ArrayAssumption`). `ArraysHoldTheirValues` is `ContentsAgree` for any arrays,
elements, inserted and searched sequences and any `MaxLength`. It is about `Array!Spec`; a step of `SystemSpec` is one of
`Array!Next` or leaves its variables alone. The assumption is that powers of 2 reach every size that is
reserved, that they are naturals, and that inputs are sequences of elements.

* `ContentsAgree` is not inductive: nothing in it says where an array lies. `ArrayInv` does (`HasAt`): an array with a
  block of its own starts at its first cell and fits it, one without looks at cells inside the block of an array that
  has one, and the cells are the elements of `value`.
* The operations are functions of a memory, so most lemmas are about memories, not about states. `WithBlock` is the memory in which
  an array has a block of its own; every operation makes one of those, from a block whose first cells are
  the right elements (`HoldsFirst`). `ReserveMakes` says so of `array_reserve`, the one place where a view gets a
  block, and `SplicedBlock` of the move and the copy that insertion, removal and one replaced match have in common.
  `WithBlockHas` adds that the other arrays keep their elements, as nobody looks at that block (`Alone`). Setting an
  element is the exception: it changes all arrays that share the cell (`SetKeeps`).
* `array_replace_all` goes over the array from the front and changes it on the way; what should come of it (`AllReplaced`)
  is defined from the back. `Standing` is what connects them: after a turn, the front of the array is the front
  of the result, and the rest are the last k elements of the old one, whose own result is what is still to come.
  A turn makes k smaller (`TurnMakes`), so that as many turns as elements leave no match (`TurnedOnce`,
  `TurnsMake`). Both recursive functions are shown to exist before they are used.

**Buffers** (`ContainerProofs`, `BuilderAssumption`, `BufferAssumption`). `BuffersHoldWritten` is `BuffersHold`, that of
the string builder (`CombinesWritten`) and of the stack dynamic buffer (`HoldsInserted`), for any finite set of
buffers, any sizes of a buffer, of the buffer inside a stack dynamic buffer and of a block, any texts, bytes,
insertions and bounds. It is about `StringBuilder!Spec` and `StackDynamicBuffer!Spec` together; a step of `SystemSpec`
is a step of one of them or leaves both alone. The assumptions are that a buffer holds something, that
texts are sequences, and for the second what is said of powers of 2 above. `MCSystem` assumes them of its constants, so
that TLC evaluates them.

String builder:

* `CombinesWritten` is not inductive: it says nothing of buffers that the builder has gone back from. `BuilderHas` does: the
  first buffers of the chain, up to the current one, are allocated and together hold `written`, each at most
  `BUFFER_SIZE` bytes; and as long as the rest of the chain is allocated, it is empty (`Placed`).
  After a free nothing is claimed of the rest, until an append replaces it.
* The chain is a recursive function, of which nothing is known unless it exists. So the invariant has a rank
  for each buffer, to lower ones of which `Next` leads (`Ranked`, `ChainsExist`, `ChainIs`). A new buffer has no
  `Next`, and what the current one pointed at is forgotten; so there is a rank after each append.
* `string_append` is a buffer at a time (`Pieces`): each turn chains one (`ChainedHas`) and writes what fits
  (`WriteHas`). As many turns as the division gives suffice, no more than there are buffers for, and all
  pieces but the last are full (`PiecesNeeded`); together they are the text (`AppendHas`).

Stack dynamic buffer:

* `BufferInv` says which cells hold `held` (`Buffered`), and that a block is larger than the cells in the buffer. The last
  is why the test in `reserve` that compares the request with `STACK_SIZE` alone does no harm: whatever passes it fits
  in the block also. Without it the step that inserts into a block cannot be proved.
* `reserve` is told how many bytes there will be, and allocates for those and the ones held (`BlockReaches`,
  `ReservedHolds`). The move and the copy are those of an array, so `SplicedBlock` is what insertion rests on here also
  (`EditHolds`).

Only model-checked:

* liveness (`CallsReturn`, `StaticsReady`, `WaitersReturn`): the prover has no fairness. `StaticsReady` is of
  the steps of `ThreadSafeStatics`, whose safety is proved;
* the hash table and strings (`FindAgrees`, `ImplementsDictionary`, `StringIsValue`) and `SystemTypesOK`, the types
  of all components;
* `NoForeignTemp`, which the code violates;
* everything in `functions`: the definitions are recursive over data, where the prover has no induction.

### Not proved

Of the hash table little holds in general: `reserve` calls itself on a table that counts its
old slots, how deep depends on the sizes, and with some it loses slots (above). `FindAgrees` holds for
the sizes that `MaxFilled` and `MaxAllocated` leave, where TLC goes through all of them.

## Not modelled

`PROJECT.json` gives the reason for each component. In short: the wrapper of the TLSF
allocator and the persistent allocator put one lock around third-party code; the start-up code is
a straight line; operating system state, writers and the crash handler are calls to Windows
around small caches; the POSIX layer is not in the build; the bucket array's templates could not be
instantiated; numerical code and the vendored libraries are not the subject of state or of
functions on integers; delegates are dispatch.

Within the modelled components: bytes of blocks other than the no man's land and the
fill with `DEAD_LAND_FILL`; alignment padding; the printed report; the layout of the
arrays of the hash table; arguments that lie in the array they are inserted into;
exceptions, except in the initializers of statics, whose abort function the compiler may call;
`terminate` of a thread; what other threads meet while a process that exits releases its mutexes;
links, times and renamed directories; disconnecting what is not connected; the mixing of
the hasher; the packing of format arguments, custom formatters, tuples and lists; the
shortest digits of Dragonbox, which are taken to be what its name says; and what `k_mul` does behind
the assert that always fires.
