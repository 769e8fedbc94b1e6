----------------------------- MODULE MCThreads -----------------------------
(***************************************************************************)
(* What threads share and how they wait for each other: the initialization *)
(* of statics, which comes with its own names, the condition variable and  *)
(* the temporary storage of the Windows layer; and what processes share,   *)
(* the files.  These share nothing with each other: a behaviour is of the  *)
(* one that component names.                                               *)
(***************************************************************************)
EXTENDS ThreadSafeStatics

CONSTANTS outer, inner,         \* the statics: the outer one uses the inner one
          Waiter, Notifier, Nobody, Take, NotifyAll,
          w1, Need1, Need2,     \* what the waiter w1 waits for, and the others
          PoolHeader, NoBlock, Converter, NoThread, Storage, StartingSize, Sizes, MaxGiven,
          Process, Path, Root, Data, InitialFiles, InitialDirs, SizeLimit, MaxContents, MaxCalls,
          Components            \* what a run looks at

VARIABLES component,
          place, mutex, count, EventOne, EventAll, WaitersCount, byAll,
          TempAlloc, TempStorageSize, data, TempAllocMutex, call, given,
          files, dirs, handles, calls, made, stable

MCNeeds == [s \in Static |-> IF s = outer THEN {inner} ELSE {}]

MCNeed == [w \in Waiter |-> IF w = w1 THEN Need1 ELSE Need2]

\* A file next to a directory with a file of the same name, and what they hold.
MCPath == {<<"f">>, <<"d">>, <<"d", "f">>}
MCRoot == <<>>
MCData == <<1>>
MCInitialFiles == [p \in {<<"f">>, <<"d", "f">>} |-> IF p = <<"f">> THEN <<1>> ELSE <<2, 2>>]
MCInitialDirs == {<<>>, <<"d">>}

Condition == INSTANCE ConditionVariable WITH Need <- MCNeed, at <- place
Temporary == INSTANCE PlatformTemp WITH Thread <- Converter
OnDisk == INSTANCE Files

\* What the modules that are instances here assume of their constants.
ASSUME ClientAssumption ==
    /\ IsFiniteSet(Waiter) /\ {Need1, Need2, Take} \subseteq Nat
    /\ Take <= Need1 /\ Take <= Need2
ASSUME StorageAssumption == Temporary!PlatformAssumption /\ PoolHeader \in Nat \ {0}
ASSUME DiskAssumption == OnDisk!FilesAssumption

condition == <<place, mutex, count, EventOne, EventAll, WaitersCount, byAll>>
storage == <<TempAlloc, TempStorageSize, data, TempAllocMutex, call, given>>
disk == <<files, dirs, handles, calls, made, stable>>

all == <<component, vars, condition, storage, disk>>

AllInit == component \in Components /\ Init /\ Condition!Init /\ Temporary!Init /\ OnDisk!Init

Of(name, A) == component = name /\ A /\ UNCHANGED component

OfStatics(A) == Of("statics", A) /\ UNCHANGED <<condition, storage, disk>>
OfCondition(A) == Of("condition", A) /\ UNCHANGED <<vars, storage, disk>>
OfStorage(A) == Of("storage", A) /\ UNCHANGED <<vars, condition, disk>>
OfFiles(A) == Of("files", A) /\ UNCHANGED <<vars, condition, storage>>

AllNext == OfStatics(Next) \/ OfCondition(Condition!Next) \/ OfStorage(Temporary!Next)
           \/ OfFiles(OnDisk!Next)

AllSpec == AllInit /\ [][AllNext]_all

\* The fairness of each.
FairAllSpec == /\ AllSpec
               /\ \A t \in Thread : WF_all(OfStatics(GoesOn(t)))
               /\ \A w \in Waiter : WF_all(OfCondition(Condition!WaiterNext(w)))
               /\ \A n \in Notifier : WF_all(OfCondition(Condition!NotifierNext(n)))
               /\ \A t \in Converter : WF_all(OfStorage(Temporary!Allocating(t)))

-----------------------------------------------------------------------------
\* The types of all of them.
AllTypesOK == TypeOK /\ Condition!TypeOK /\ Temporary!TypeOK /\ OnDisk!TypeOK

\* windows_thread.cpp: nobody sleeps on what is there.
NoWaiterLeftBehind == Condition!NoWaiterLeftBehind

\* windows_thread.cpp, os.win64.memory.ixx: every waiter of the client comes back, and
\* the lock of the storage is always released.
WaitersReturn == /\ component = "condition" => Condition!WaitersReturn
                 /\ Temporary!MutexReleased

\* os.win64.memory.ixx: no byte is given out twice before the storage is emptied.
ReturnsFresh == Temporary!ReturnsFresh

\* os.win64.memory.ixx, line 132: larger storage takes the place of the old one.
NeverUsesFreedStorage == Temporary!NeverUsesFreedStorage

\* path.nt.ixx: an open file stays as it is, and is read as a whole; a walk lists what stays there,
\* where no call was refused.
NoneChangesUnder == OnDisk!NoneChangesUnder

\* path.nt.ixx: contents are lost only where a call may replace them.
KeptUnlessAllowed == OnDisk!KeptUnlessAllowed
=============================================================================
