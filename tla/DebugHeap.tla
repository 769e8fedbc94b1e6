----------------------------- MODULE DebugHeap -----------------------------
(***************************************************************************)
(* general_allocate, general_reallocate, general_free, free_all and        *)
(* debug_memory::report_leaks with DEBUG_MEMORY defined, called by several *)
(* threads (lstd/memory/allocator.cpp).                                    *)
(*                                                                         *)
(* A section under debug_memory::Mutex is one action, and so is each piece *)
(* of code between two of them that another thread can observe.  Only      *)
(* report_leaks keeps the mutex over several actions: it allocates and     *)
(* frees while it holds it.  A failed assert stops the program.            *)
(*                                                                         *)
(* A header stands for its block.  Of a block the model keeps the fields   *)
(* that the code writes and one bit, land: the no man's land after the     *)
(* block is where Size says it is.                                         *)
(***************************************************************************)
EXTENDS HeaderList, SequencesExt

CONSTANTS Thread, NoThread,
          Allocator,           \* the allocators user code passes
          InPlace,             \* those whose RESIZE can succeed
          FreesAll,            \* those that implement FREE_ALL
          Persistent,          \* platform_get_persistent_allocator()
          Sizes,               \* sizes user code asks for
          VerifyFrequency,     \* MemoryVerifyHeapFrequency
          IdModulus,           \* ID is cut to 32 bits: the cast to u32
          MaxAllocations,      \* bound: no operation starts above this count
          MaxReallocations     \* bound on RID

ASSUME HeapAssumption ==
    /\ NoThread \notin Thread
    /\ InPlace \subseteq Allocator /\ FreesAll \subseteq Allocator \ {Persistent}
    /\ IsFiniteSet(Thread)
    /\ Sizes \subseteq Nat \ {0}
    /\ VerifyFrequency \in Nat \ {0} /\ IdModulus \in Nat \ {0}
    /\ MaxAllocations \in Nat /\ MaxReallocations \in Nat

VARIABLES list,              \* Head and the links, see HeaderList
          memory,            \* what is stored at each header
          AllocationCount,
          mutex,             \* the thread inside report_leaks, or NoThread
          blocks,            \* headers of blocks the allocators have handed out
          pointers,          \* headers of the pointers user code may use
          pc, local,         \* per thread: what runs next, and its variables
          asserted           \* an assert has fired

vars == <<list, memory, AllocationCount, mutex, blocks, pointers, pc, local, asserted>>

Contents == [ID : 0..(IdModulus - 1), RID : 0..(MaxReallocations + 1),
             Size : Sizes \cup {0}, Alloc : Allocator \cup {Persistent},
             MarkedAsLeak : BOOLEAN, land : BOOLEAN]

\* Memory that is no block: filled with DEAD_LAND_FILL, or given up by FREE_ALL.
Dead == [Size |-> -1]

\* The arguments and variables of the call a thread is in.  caller: user code or
\* report_leaks; ptr: the block being freed or reallocated; block: the new one.
NoLocal == [caller |-> "user", ptr |-> Null, block |-> Null, id |-> 0, Size |-> 0,
            Alloc |-> Persistent, leak |-> FALSE, leaksCount |-> 0, leaks |-> {}]

Init == /\ list = EmptyList
        /\ memory = [h \in Header |-> Dead]
        /\ AllocationCount = 0
        /\ mutex = NoThread
        /\ blocks = {} /\ pointers = {}
        /\ pc = [t \in Thread |-> "idle"]
        /\ local = [t \in Thread |-> NoLocal]
        /\ asserted = FALSE

-----------------------------------------------------------------------------
\* A faulty mutex: its owner cannot lock it again.
CanLockOnce(t) == t \in Thread /\ mutex = NoThread

CanLock(t) == mutex \in {NoThread, t}

\* A failed assert stops every thread.
At(t, label) == ~asserted /\ pc[t] = label
Goto(t, label) == pc' = [pc EXCEPT ![t] = label]
Return(t) == Goto(t, "idle") /\ local' = [local EXCEPT ![t] = NoLocal]

\* verify_header_unlocked.
VerifyHeader(h) == memory[h] # Dead /\ memory[h].land

\* maybe_verify_heap.
HeapVerifies == \/ AllocationCount % VerifyFrequency # 0
                \/ \A h \in Listed(list) : VerifyHeader(h)

\* The locked prologue of the three functions: verify now and then.
Enter(t, label, args) ==
    /\ CanLock(t)
    /\ asserted' = ~HeapVerifies
    /\ Goto(t, label)
    /\ local' = [local EXCEPT ![t] = args]

\* Bounds: the operation count, and a free block for every call that needs one.
NeedsBlock(t) == pc[t] \in {"resize", "block"}
MayStart == /\ AllocationCount < MaxAllocations
            /\ Cardinality(blocks) + Cardinality({t \in Thread : NeedsBlock(t)})
                    < Cardinality(Header)

-----------------------------------------------------------------------------
(* general_allocate *)

\* User code makes no call on an allocator while a thread frees all of it.
FreesAllOf(a) == \E u \in Thread : pc[u] = "free_all" /\ local[u].Alloc = a

Allocate(t) ==
    /\ At(t, "idle") /\ MayStart
    /\ \E s \in Sizes, a \in Allocator, lk \in BOOLEAN :
            /\ ~FreesAllOf(a)
            /\ Enter(t, "block", [NoLocal EXCEPT !.Size = s, !.Alloc = a, !.leak = lk])
    /\ UNCHANGED <<list, memory, AllocationCount, mutex, blocks, pointers>>

\* alloc.Function(ALLOCATE), from general_allocate or general_reallocate.
AllocateBlock(t) ==
    /\ At(t, "block")
    /\ \E b \in Header \ blocks :
            /\ blocks' = blocks \cup {b}
            /\ local' = [local EXCEPT ![t].block = b]
    /\ Goto(t, "count")
    /\ UNCHANGED <<list, memory, AllocationCount, mutex, pointers, asserted>>

\* encode_header up to its read of AllocationCount: no lock is held.
EncodeReadsCount(t) ==
    /\ At(t, "count")
    /\ list' = ClearLinks(list, local[t].block)
    /\ local' = [local EXCEPT ![t].id = AllocationCount % IdModulus]
    /\ Goto(t, "encode")
    /\ UNCHANGED <<memory, AllocationCount, mutex, blocks, pointers, asserted>>

FreshHeader(v) == [ID |-> v.id, RID |-> 0, Size |-> v.Size, Alloc |-> v.Alloc,
                   MarkedAsLeak |-> v.leak, land |-> TRUE]

\* A faulty general_reallocate leaves the RID that encode_header wrote.
MovedHeaderRestarts(v, old) ==
    [ID |-> old.ID, RID |-> 0, Size |-> v.Size, Alloc |-> old.Alloc,
     MarkedAsLeak |-> v.leak, land |-> TRUE]

\* What general_reallocate makes of the header it encoded for the moved block:
\* the old ID and the next RID.
MovedHeader(v, old) == [ID |-> old.ID, RID |-> old.RID + 1, Size |-> v.Size, Alloc |-> old.Alloc,
                        MarkedAsLeak |-> v.leak, land |-> TRUE]

\* A faulty general_reallocate frees the old block while it is in the list.
EncodeThenRetire(t) ==
    LET v == local[t] IN
    /\ At(t, "encode")
    /\ AllocationCount' = AllocationCount + 1
    /\ memory' = [memory EXCEPT ![v.block] = IF v.ptr = Null THEN FreshHeader(v)
                                                             ELSE MovedHeader(v, memory[v.ptr])]
    /\ Goto(t, IF v.ptr = Null THEN "add" ELSE "retire")
    /\ UNCHANGED <<list, mutex, blocks, pointers, local, asserted>>

\* The rest of encode_header, from the atomic increment on.
EncodeHeader(t) ==
    LET v == local[t] IN
    /\ At(t, "encode")
    /\ AllocationCount' = AllocationCount + 1
    /\ memory' = [memory EXCEPT ![v.block] = IF v.ptr = Null THEN FreshHeader(v)
                                                             ELSE MovedHeader(v, memory[v.ptr])]
    /\ Goto(t, IF v.ptr = Null THEN "add" ELSE "swap")
    /\ UNCHANGED <<list, mutex, blocks, pointers, local, asserted>>

\* Locked: add_header.  report_leaks goes on with its array.
AddToList(t) ==
    LET b == local[t].block IN
    /\ At(t, "add") /\ CanLock(t)
    /\ list' = AddHeader(list, b)
    /\ \/ /\ local[t].caller = "user"
          /\ pointers' = pointers \cup {b}
          /\ Return(t)
       \/ /\ local[t].caller = "report"
          /\ Goto(t, "fill")
          /\ UNCHANGED <<pointers, local>>
    /\ UNCHANGED <<memory, AllocationCount, mutex, blocks, asserted>>

-----------------------------------------------------------------------------
(* general_reallocate *)

\* User code asks for more, never for less: then the code copies the old Size into
\* the smaller block (line 430), or fills memory behind the old one (line 473).
Reallocate(t) ==
    /\ At(t, "idle") /\ MayStart
    /\ \E h \in pointers, s \in Sizes, lk \in BOOLEAN :
            /\ memory[h].Size < s
            /\ memory[h].RID < MaxReallocations
            /\ Enter(t, "resize", [NoLocal EXCEPT !.ptr = h, !.Size = s, !.leak = lk,
                                                  !.Alloc = memory[h].Alloc])
            /\ pointers' = pointers \ {h}
    /\ UNCHANGED <<list, memory, AllocationCount, mutex, blocks>>

\* alloc.Function(RESIZE) keeps the block: RID and Size change in the listed
\* header without the lock, and the no man's land is not yet behind the new end.
ResizeInPlace(t) ==
    LET v == local[t] IN
    /\ At(t, "resize") /\ v.Alloc \in InPlace
    /\ memory' = [memory EXCEPT ![v.ptr].RID = @ + 1, ![v.ptr].Size = v.Size, ![v.ptr].land = FALSE]
    /\ local' = [local EXCEPT ![t].block = v.ptr]
    /\ Goto(t, "refill")
    /\ UNCHANGED <<list, AllocationCount, mutex, blocks, pointers, asserted>>

\* RESIZE returns null.
ResizeFails(t) ==
    /\ At(t, "resize")
    /\ Goto(t, "block")
    /\ UNCHANGED <<list, memory, AllocationCount, mutex, blocks, pointers, local, asserted>>

\* Locked: swap_header.
SwapInList(t) ==
    LET v == local[t] IN
    /\ At(t, "swap") /\ CanLock(t)
    /\ asserted' = SwapFails(list)
    /\ list' = IF SwapFails(list) THEN list ELSE SwapHeader(list, v.ptr, v.block)
    /\ Goto(t, "retire")
    /\ UNCHANGED <<memory, AllocationCount, mutex, blocks, pointers, local>>

\* The old block is filled with DEAD_LAND_FILL, then its MarkedAsLeak is read
\* (a nonzero byte of the fill), then the block goes back to its allocator.
RetireOldBlock(t) ==
    LET v == local[t] IN
    /\ At(t, "retire")
    /\ memory' = [memory EXCEPT ![v.ptr] = Dead, ![v.block].MarkedAsLeak = TRUE]
    /\ blocks' = blocks \ {v.ptr}
    /\ Goto(t, "refill")
    /\ UNCHANGED <<list, AllocationCount, mutex, pointers, local, asserted>>

\* A faulty general_reallocate does not write the no man's land again.
RefillWithoutLand(t) ==
    /\ At(t, "refill")
    /\ pointers' = pointers \cup {local[t].block}
    /\ Return(t)
    /\ UNCHANGED <<list, memory, AllocationCount, mutex, blocks, asserted>>

\* The no man's land is written behind the new end and the pointer returned.
Refill(t) ==
    LET b == local[t].block IN
    /\ At(t, "refill")
    /\ memory' = [memory EXCEPT ![b].land = TRUE]
    /\ pointers' = pointers \cup {b}
    /\ Return(t)
    /\ UNCHANGED <<list, AllocationCount, mutex, blocks, asserted>>

-----------------------------------------------------------------------------
(* general_free and free_all *)

Free(t) ==
    /\ At(t, "idle")
    /\ \E h \in pointers :
            /\ Enter(t, "unlink", [NoLocal EXCEPT !.ptr = h, !.Alloc = memory[h].Alloc])
            /\ pointers' = pointers \ {h}
    /\ UNCHANGED <<list, memory, AllocationCount, mutex, blocks>>

\* Locked: unlink_header.
UnlinkFromList(t) ==
    LET h == local[t].ptr IN
    /\ At(t, "unlink") /\ CanLock(t)
    /\ asserted' = UnlinkFails(list, h)
    /\ list' = IF UnlinkFails(list, h) THEN list ELSE UnlinkHeader(list, h)
    /\ Goto(t, "free")
    /\ UNCHANGED <<memory, AllocationCount, mutex, blocks, pointers, local>>

\* A faulty report_leaks returns without unlocking.
FreeBlockKeepsMutex(t) ==
    LET v == local[t] IN
    /\ At(t, "free")
    /\ memory' = [memory EXCEPT ![v.ptr] = Dead]
    /\ blocks' = blocks \ {v.ptr}
    /\ Return(t)
    /\ UNCHANGED <<list, AllocationCount, mutex, pointers, asserted>>

\* DEAD_LAND_FILL and alloc.Function(FREE); report_leaks then returns and its
\* scoped_lock releases the mutex.
FreeBlock(t) ==
    LET v == local[t] IN
    /\ At(t, "free")
    /\ memory' = [memory EXCEPT ![v.ptr] = Dead]
    /\ blocks' = blocks \ {v.ptr}
    /\ mutex' = IF v.caller = "report" THEN NoThread ELSE mutex
    /\ Return(t)
    /\ UNCHANGED <<list, AllocationCount, pointers, asserted>>

\* free_all, locked: every header of the list is unlinked, whoever allocated it.
\* User code has no other call in flight on the allocator and forgets its blocks.
OfAllocator(a) == {h \in blocks : memory[h] # Dead /\ memory[h].Alloc = a}

FreeAll(t) ==
    /\ At(t, "idle") /\ CanLock(t)
    /\ \E a \in FreesAll :
            /\ \A u \in Thread : pc[u] # "idle" => local[u].Alloc # a
            /\ list' = UnlinkAll(list)
            /\ pointers' = pointers \ OfAllocator(a)
            /\ local' = [local EXCEPT ![t] = [NoLocal EXCEPT !.Alloc = a]]
    /\ Goto(t, "free_all")
    /\ UNCHANGED <<memory, AllocationCount, mutex, blocks, asserted>>

FreeAllBlocks(t) ==
    LET freed == OfAllocator(local[t].Alloc) IN
    /\ At(t, "free_all")
    /\ blocks' = blocks \ freed
    /\ memory' = [h \in Header |-> IF h \in freed THEN Dead ELSE memory[h]]
    /\ Return(t)
    /\ UNCHANGED <<list, AllocationCount, mutex, pointers, asserted>>

-----------------------------------------------------------------------------
(* debug_memory::report_leaks *)

\* Lock, verify, count, and call general_allocate for the array of leaks, which
\* locks the same mutex again.
Report(t) ==
    /\ At(t, "idle") /\ MayStart
    /\ Enter(t, "block", [NoLocal EXCEPT !.caller = "report",
                          !.leaksCount = Cardinality({h \in Listed(list) : ~memory[h].MarkedAsLeak})])
    /\ mutex' = t
    /\ UNCHANGED <<list, memory, AllocationCount, blocks, pointers>>

\* A faulty second loop of report_leaks also takes the array it fills.
LeaksFoundWithOwn(own) == {h \in Listed(list) \cup {own} : ~memory[h].MarkedAsLeak}

\* The second loop skips the array's own header by its ID.  Then the array is
\* passed to general_free, which verifies the heap first.
LeaksFound(own) == {h \in Listed(list) : /\ ~memory[h].MarkedAsLeak
                                         /\ memory[h].ID # memory[own].ID}

FillLeaks(t) ==
    LET v == local[t] IN
    /\ At(t, "fill")
    /\ Enter(t, "unlink", [v EXCEPT !.ptr = v.block, !.leaks = LeaksFound(v.block)])
    /\ UNCHANGED <<list, memory, AllocationCount, mutex, blocks, pointers>>

-----------------------------------------------------------------------------
\* Steps of the call a thread is in; it does not stop inside a call.
Continue(t) ==
    \/ AllocateBlock(t) \/ EncodeReadsCount(t) \/ EncodeHeader(t) \/ AddToList(t)
    \/ ResizeInPlace(t) \/ ResizeFails(t) \/ SwapInList(t) \/ RetireOldBlock(t) \/ Refill(t)
    \/ UnlinkFromList(t) \/ FreeBlock(t) \/ FreeAllBlocks(t) \/ FillLeaks(t)

\* Calls user code makes.
Call(t) == Allocate(t) \/ Reallocate(t) \/ Free(t) \/ FreeAll(t) \/ Report(t)

\* Nobody has to call again, and a failed assert ends the program.
Rest == /\ asserted \/ \A t \in Thread : pc[t] = "idle"
        /\ UNCHANGED vars

Next == (\E t \in Thread : Call(t) \/ Continue(t)) \/ Rest

Spec == Init /\ [][Next]_vars
FairSpec == Spec /\ \A t \in Thread : WF_vars(Continue(t))

-----------------------------------------------------------------------------
\* The mutex is held between actions by report_leaks and nobody else, and a
\* pointer user code may use is a block of an allocator.
TypeOK ==
    /\ list \in HeaderLists
    /\ \A h \in Header : memory[h] = Dead \/ memory[h] \in Contents
    /\ AllocationCount \in 0..(MaxAllocations + Cardinality(Thread))
    /\ mutex # NoThread => mutex \in Thread /\ local[mutex].caller = "report"
    /\ pointers \subseteq blocks /\ blocks \subseteq Header
    /\ asserted \in BOOLEAN

\* The headers that should be in the list: those of the usable pointers and of
\* calls between linking a header and unlinking it.
Linked == pointers
    \cup {local[t].ptr : t \in {u \in Thread :
            \/ pc[u] \in {"resize", "swap", "unlink"}
            \/ local[u].ptr # Null /\ pc[u] \in {"block", "count", "encode"}}}
    \cup {local[t].block : t \in {u \in Thread : pc[u] \in {"retire", "refill", "fill"}}}

\* allocator.h, lines 241-288: whatever calls are under way in the other threads, the list is
\* well formed and holds exactly the headers of live allocations; under the lock a loop over it
\* never meets memory that was freed (the comments at lines 209 and 215 of allocator.cpp); and
\* report_leaks never writes past the array it sized by its first loop, although its own
\* allocation is in the list by the time of the second.
ListIsHeap ==
    LET w == Walk(list)
    IN  /\ Represents(list, w) /\ Range(w) = Linked
        /\ \A h \in Listed(list) : h \in blocks /\ memory[h] # Dead
        /\ \A t \in Thread : Cardinality(local[t].leaks) <= local[t].leaksCount

\* allocator.cpp, line 163: a failing assert means that memory was messed up;
\* correct user code never makes one fire.
NoAssertFires == ~asserted

\* Every call to the allocation functions returns, report_leaks included, unless
\* an assert stopped the program.
CallsReturn == \A t \in Thread : pc[t] # "idle" ~> (pc[t] = "idle" \/ asserted)

\* Seen through the list, a header keeps its ID and gets the next RID when its
\* allocation is reallocated, in place or moved.
Ledger == INSTANCE AllocationLedger WITH
    ledger <- [h \in Listed(list) |-> [ID |-> memory[h].ID, RID |-> memory[h].RID]],
    Id <- 0..(IdModulus - 1)
LedgerSpec == Ledger!Spec

\* Threads and headers are interchangeable: the runs without liveness properties use that.
Symmetric == Permutations(Thread) \cup Permutations(Header)
=============================================================================
