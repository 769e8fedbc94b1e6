---------------------------- MODULE PlatformTemp ----------------------------
(***************************************************************************)
(* The temporary storage of the Windows layer (os.win64.memory.ixx, lines  *)
(* 85-159 and 188-231): one arena for all threads, behind a mutex, that    *)
(* empties itself when it is full and is replaced when it is too small.    *)
(* Functions of the layer convert their strings in it, hold the results    *)
(* for a call to Windows and then forget them.                             *)
(***************************************************************************)
EXTENDS ArenaPools, FiniteSets

CONSTANTS Thread, NoThread,
          Storage,              \* bound: the storage blocks that can be made
          StartingSize,         \* PLATFORM_TEMPORARY_STORAGE_STARTING_SIZE, more than PoolHeader
          Sizes,                \* bound: the sizes of conversions, in bytes
          MaxGiven              \* bound: conversions between two emptyings

\* What the code takes for granted: sizes are unsigned, and nobody is not a thread.
PlatformAssumption == /\ Sizes \subseteq Nat /\ StartingSize \in Nat
                      /\ NoThread \notin Thread

VARIABLES TempAlloc,        \* S->TempAlloc.Context, at the head of a storage block
          TempStorageSize,
          data,             \* the arena_allocator_data of every live storage block
          TempAllocMutex,   \* the thread that holds it
          call,             \* of each thread: the allocation under way
          given             \* history: blocks given out since the storage was emptied

vars == <<TempAlloc, TempStorageSize, data, TempAllocMutex, call, given>>

Idle == [at |-> "idle", context |-> NoBlock, size |-> 0, result |-> NoBlock]

NewStorage(st, size) == AddPool(NoPools, st, size)

Init == \E st \in Storage :
            /\ TempAlloc = st /\ TempStorageSize = StartingSize
            /\ data = [s \in {st} |-> NewStorage(st, StartingSize)]
            /\ TempAllocMutex = NoThread
            /\ call = [t \in Thread |-> Idle]
            /\ given = {}

At(t, step) == call[t].at = step

GoTo(t, step) == call' = [call EXCEPT ![t].at = step]

\* The storage a call works on is the one it was passed, if that still exists.
Live(t) == call[t].context \in DOMAIN data

\* platform_utf8_to_utf16 and platform_utf16_to_utf8 read S->TempAlloc without
\* the lock.
Convert(t, n) == /\ At(t, "idle") /\ Cardinality(given) < MaxGiven
                 /\ call' = [call EXCEPT ![t] =
                        [at |-> "lock", context |-> TempAlloc, size |-> n, result |-> NoBlock]]
                 /\ UNCHANGED <<TempAlloc, TempStorageSize, data, TempAllocMutex, given>>

\* A faulty scoped_lock does not wait.
LockAtOnce(t) == /\ At(t, "lock")
                 /\ TempAllocMutex' = t
                 /\ GoTo(t, "allocate")
                 /\ UNCHANGED <<TempAlloc, TempStorageSize, data, given>>

\* A critical section lets the thread that holds it enter again.
CanLock(t) == TempAllocMutex \in {NoThread, t}
\* A faulty mutex does not.
CanLockOnce(t) == TempAllocMutex = NoThread

Lock(t) == /\ At(t, "lock") /\ CanLock(t)
           /\ TempAllocMutex' = t
           /\ GoTo(t, "allocate")
           /\ UNCHANGED <<TempAlloc, TempStorageSize, data, given>>

\* arena_allocator computes the result, then moves the fill mark.  A call to a
\* storage block that was freed has no meaning: the model stops there.
Choose(t, from, then) ==
    /\ At(t, from)
    /\ call' = [call EXCEPT
            ![t].at = IF Live(t) THEN then ELSE "freed_context",
            ![t].result = IF Live(t) THEN AllocatedBlock(data[call[t].context], call[t].size)
                                     ELSE NoBlock]
    /\ UNCHANGED <<TempAlloc, TempStorageSize, data, TempAllocMutex, given>>

Fill(t) == data' = [data EXCEPT ![call[t].context] = AfterAllocate(@, call[t].size)]

Try(t) == Choose(t, "allocate", "fill")

FirstFill(t) == /\ At(t, "fill")
                /\ Fill(t)
                /\ GoTo(t, IF call[t].size > TempStorageSize THEN "grow"
                           ELSE IF call[t].result = NoBlock THEN "empty" ELSE "return")
                /\ UNCHANGED <<TempAlloc, TempStorageSize, TempAllocMutex, given>>

\* free_all(S->TempAlloc) comes to win64_temp_alloc, which locks and unlocks once more: what
\* happens in between happens at once, since the mutex is held before and after.
Empty(t) == /\ At(t, "empty") /\ CanLock(t)
            /\ data' = [data EXCEPT ![TempAlloc] = Emptied(@)]
            /\ given' = {}
            /\ GoTo(t, "retry")
            /\ UNCHANGED <<TempAlloc, TempStorageSize, TempAllocMutex>>

\* A faulty replacement leaves the old context in S->TempAlloc.
GrowKeepsAlloc(t) == /\ At(t, "grow")
                     /\ \E st \in Storage \ DOMAIN data :
                            data' = [s \in (DOMAIN data \ {TempAlloc}) \cup {st} |->
                                IF s = st THEN NewStorage(st, call[t].size * 2) ELSE data[s]]
                     /\ TempStorageSize' = call[t].size * 2
                     /\ given' = {}
                     /\ GoTo(t, "retry")
                     /\ UNCHANGED <<TempAlloc, TempAllocMutex>>

\* The pool is removed, the storage block with its arena_allocator_data is
\* freed, and create_temp_storage_block replaces it.  Removing and adding the
\* pool lock the mutex once more, too.
Grow(t) == /\ At(t, "grow") /\ CanLock(t)
           /\ \E st \in Storage \ DOMAIN data :
                /\ TempAlloc' = st
                /\ data' = [s \in (DOMAIN data \ {TempAlloc}) \cup {st} |->
                                IF s = st THEN NewStorage(st, call[t].size * 2) ELSE data[s]]
           /\ TempStorageSize' = call[t].size * 2
           /\ given' = {}
           /\ GoTo(t, "retry")
           /\ UNCHANGED <<TempAllocMutex>>

\* The second try goes to the context the call was passed.
TryAgain(t) == Choose(t, "retry", "fill_again")

\* A faulty extension empties the storage until the call is served.
FillUntilServed(t) == /\ At(t, "fill_again")
                      /\ Fill(t)
                      /\ GoTo(t, IF call[t].result = NoBlock THEN "empty" ELSE "return")
                      /\ UNCHANGED <<TempAlloc, TempStorageSize, TempAllocMutex, given>>

FillAgain(t) == /\ At(t, "fill_again")
                /\ Fill(t)
                /\ GoTo(t, "return")
                /\ UNCHANGED <<TempAlloc, TempStorageSize, TempAllocMutex, given>>

\* The lock is released and the caller has its result.
Return(t) == /\ At(t, "return")
             /\ TempAllocMutex' = NoThread
             /\ IF call[t].result = NoBlock
                THEN UNCHANGED given
                ELSE given' = given \cup {call[t].result}
             /\ GoTo(t, "idle")
             /\ UNCHANGED <<TempAlloc, TempStorageSize, data>>

Allocating(t) == \/ Lock(t) \/ Try(t) \/ FirstFill(t) \/ Empty(t) \/ Grow(t)
                 \/ TryAgain(t) \/ FillAgain(t) \/ Return(t)

Next == \E t \in Thread : (\E n \in Sizes : Convert(t, n)) \/ Allocating(t)

Spec == Init /\ [][Next]_vars

\* The operating system runs every thread.  A critical section makes no promise
\* to a thread that waits for it, and nobody has to start a conversion.
FairSpec == Spec /\ \A t \in Thread : WF_vars(Allocating(t))

-----------------------------------------------------------------------------
Block == [piece : Storage, start : Nat, size : Nat]
Calls == [at : {"idle", "lock", "allocate", "fill", "empty", "grow", "retry", "fill_again",
                "return", "freed_context"},
          context : Storage \cup {NoBlock}, size : Nat, result : Block \cup {NoBlock}]

TypeOK == /\ TempAlloc \in DOMAIN data /\ DOMAIN data \subseteq Storage
          /\ \A s \in DOMAIN data : data[s].PoolsCount = Len(data[s].pools)
          /\ TempStorageSize \in Nat /\ TempAllocMutex \in Thread \cup {NoThread}
          /\ call \in [Thread -> Calls]
          /\ given \subseteq Block

Promise == INSTANCE BlockAllocator
                WITH Piece <- Storage,
                     owned <- [s \in DOMAIN data |-> data[s].pools[1].Size]

\* The block of a call that returns is not yet among those given out: two calls
\* never return the same bytes between two emptyings.
ReturnsFresh == \A t \in Thread : At(t, "return") /\ call[t].result # NoBlock =>
    /\ Promise!Inside(call[t].result)
    /\ \A b \in given : ~Promise!Overlap(call[t].result, b)

\* The mutex is always released again, free_all's recursive locking included,
\* unless the model stopped at freed storage.
MutexReleased == TempAllocMutex # NoThread ~>
    TempAllocMutex = NoThread \/ \E t \in Thread : At(t, "freed_context")

\* os.win64.memory.ixx, line 132: "If we try to allocate a block with size
\* bigger than the temporary storage block, we make a new, larger temporary
\* storage block".
NeverUsesFreedStorage == \A t \in Thread : ~At(t, "freed_context")
=============================================================================
