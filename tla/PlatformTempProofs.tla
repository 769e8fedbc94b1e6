------------------------- MODULE PlatformTempProofs -------------------------
(***************************************************************************)
(* For any threads, sizes and storage: behind the mutex, no byte of the    *)
(* temporary storage is given out twice before the storage is emptied.     *)
(***************************************************************************)
EXTENDS PlatformTemp, TLAPS

Pools == [piece : Storage, Size : Int, Used : Nat]
Arenas == [pools : Seq(Pools), PoolsCount : Nat, TotalUsed : Nat]

\* An arena with one pool, which was made from st.
OnePool(A, st) == /\ A \in Arenas
                  /\ Len(A.pools) = 1 /\ A.PoolsCount = 1
                  /\ A.pools[1].piece = st

Critical == {"allocate", "fill", "empty", "grow", "retry", "fill_again", "return", "freed_context"}
Chosen == {"fill", "fill_again"}

CallsOK == /\ TempStorageSize \in Nat /\ TempAllocMutex \in Thread \cup {NoThread}
           /\ call \in [Thread -> Calls] /\ given \subseteq Block

\* There is one storage block, and one pool in it.
StorageOK == /\ TempAlloc \in Storage /\ DOMAIN data = {TempAlloc}
             /\ OnePool(data[TempAlloc], TempAlloc)

\* Whoever is between Lock and Return holds the mutex.
HolderOK == \A t \in Thread : call[t].at \in Critical => TempAllocMutex = t

Pool == data[TempAlloc].pools[1]

\* What was given out lies below the fill mark.
GivenOK == \A b \in given : b.piece = TempAlloc /\ b.start + b.size <= Pool.Used

\* A block that was chosen begins at the fill mark, and has room.
ChosenOK == \A t \in Thread : call[t].at \in Chosen =>
    /\ call[t].context = TempAlloc
    /\ call[t].result # NoBlock =>
           /\ call[t].result = [piece |-> TempAlloc, start |-> Pool.Used, size |-> call[t].size]
           /\ HasRoom(Pool, call[t].size)

\* One that is about to be returned lies below the mark, behind all that was given out.
ReturnOK == \A t \in Thread : call[t].at = "return" /\ call[t].result # NoBlock =>
    LET r == call[t].result
    IN  /\ r.piece = TempAlloc /\ r.start + r.size <= Pool.Used /\ r.start + r.size <= Pool.Size
        /\ \A b \in given : b.start + b.size <= r.start

\* ReturnsFresh looks only at the end of a call; this follows it from the choice on.
IInv == CallsOK /\ StorageOK /\ HolderOK /\ GivenOK /\ ChosenOK /\ ReturnOK

-----------------------------------------------------------------------------
(* What the routines do to an arena with one pool. *)

LEMMA FirstPool ==
    ASSUME NEW A, NEW st, OnePool(A, st)
    PROVE  A.pools[1].Used \in Nat /\ A.pools[1].Size \in Int
  <1>1. A.pools \in Seq(Pools) /\ 1 \in 1..Len(A.pools)
    BY DEF OnePool, Arenas
  <1>2. A.pools[1] \in Pools
    BY <1>1
  <1> QED
    BY <1>2 DEF Pools

LEMMA OneIsChosen ==
    ASSUME NEW A, NEW st, OnePool(A, st), NEW n PROVE ChosenPool(A, n) = 1
  <1>1. Len(A.pools) = 1 /\ 1..Len(A.pools) = {1} /\ 1..(1 - 1) = {}
    BY DEF OnePool
  <1> QED
    BY <1>1 DEF ChosenPool

LEMMA NewOne ==
    ASSUME NEW st \in Storage, NEW size \in Nat PROVE OnePool(NewStorage(st, size), st)
  <1> DEFINE p == [piece |-> st, Size |-> size - PoolHeader, Used |-> 0]
  <1>1. p \in Pools /\ p.piece = st
    BY PoolHeaderAssumption DEF Pools
  <1> DEFINE A == NewStorage(st, size)
  <1>2. A = [NoPools EXCEPT !.pools = Append(<<>>, p), !.PoolsCount = 1]
    BY DEF NewStorage, AddPool, NoPools
  <1> HIDE DEF p, A
  <1>3. Append(<<>>, p) \in Seq(Pools) /\ Len(Append(<<>>, p)) = 1 /\ Append(<<>>, p)[1] = p
    BY <1>1
  <1>4. NoPools \in Arenas
    BY DEF NoPools, Arenas
  <1>5. A \in Arenas /\ A.pools = Append(<<>>, p) /\ A.PoolsCount = 1
    BY <1>2, <1>3, <1>4 DEF Arenas
  <1>6. OnePool(A, st)
    BY <1>1, <1>3, <1>5 DEF OnePool
  <1> QED
    BY <1>6 DEF A

LEMMA EmptiedOne ==
    ASSUME NEW A, NEW st, OnePool(A, st) PROVE OnePool(Emptied(A), st)
  <1> DEFINE p == [A.pools[1] EXCEPT !.Used = 0]
             ps == [i \in 1..Len(A.pools) |-> [A.pools[i] EXCEPT !.Used = 0]]
  <1>1. Len(A.pools) = 1 /\ A.pools[1] \in Pools /\ A.pools[1].piece = st /\ A \in Arenas /\ A.PoolsCount = 1
    BY DEF OnePool, Arenas
  <1>2. p \in Pools /\ p.piece = st
    BY <1>1 DEF Pools
  <1>3. ps \in Seq(Pools) /\ Len(ps) = 1 /\ ps[1] = p
    <2>1. ps = [i \in 1..1 |-> p]
      BY <1>1
    <2> HIDE DEF ps, p
    <2> QED
      BY <1>2, <2>1
  <1> DEFINE B == Emptied(A)
  <1>4. B = [A EXCEPT !.pools = ps, !.TotalUsed = 0]
    BY DEF Emptied
  <1> HIDE DEF ps, p, B
  <1>5. B \in Arenas /\ B.pools = ps /\ B.PoolsCount = 1
    BY <1>1, <1>3, <1>4 DEF Arenas
  <1>6. OnePool(B, st)
    BY <1>2, <1>3, <1>5 DEF OnePool
  <1> QED
    BY <1>6 DEF B

LEMMA FilledOne ==
    ASSUME NEW A, NEW st, OnePool(A, st), NEW n \in Nat
    PROVE  /\ OnePool(AfterAllocate(A, n), st)
           /\ AfterAllocate(A, n).pools[1].Size = A.pools[1].Size
           /\ AfterAllocate(A, n).pools[1].Used =
                  IF HasRoom(A.pools[1], n) THEN A.pools[1].Used + n ELSE A.pools[1].Used
  <1>1. ChosenPool(A, n) = 1
    BY OneIsChosen
  <1>2. Len(A.pools) = 1 /\ A.pools[1] \in Pools /\ A.pools[1].piece = st /\ A \in Arenas /\ A.PoolsCount = 1
    BY DEF OnePool, Arenas
  <1>3. CASE ~HasRoom(A.pools[1], n)
    BY <1>1, <1>3 DEF AfterAllocate, Fits
  <1>4. CASE HasRoom(A.pools[1], n)
    <2> DEFINE p == [A.pools[1] EXCEPT !.Used = @ + n]
               ps == [A.pools EXCEPT ![1] = p]
    <2>1. p \in Pools /\ p.piece = st /\ p.Size = A.pools[1].Size /\ p.Used = A.pools[1].Used + n
      BY <1>2 DEF Pools
    <2>2. AfterAllocate(A, n) = [A EXCEPT !.pools = ps, !.TotalUsed = @ + n]
      BY <1>1, <1>2, <1>4 DEF AfterAllocate, Fits, Arenas
    <2>3. A.pools \in Seq(Pools)
      BY <1>2 DEF Arenas
    <2> HIDE DEF p
    <2>4. ps \in Seq(Pools) /\ Len(ps) = 1 /\ ps[1] = p
      BY <1>2, <2>1, <2>3
    <2> HIDE DEF ps
    <2>5. A.TotalUsed + n \in Nat
      BY <1>2 DEF Arenas
    <2> DEFINE B == AfterAllocate(A, n)
    <2>6. B = [A EXCEPT !.pools = ps, !.TotalUsed = A.TotalUsed + n]
      BY <2>2
    <2> HIDE DEF B
    <2>7. B \in Arenas /\ B.pools = ps /\ B.PoolsCount = 1
      BY <1>2, <2>4, <2>5, <2>6 DEF Arenas
    <2>8. OnePool(B, st) /\ B.pools[1] = p
      BY <2>1, <2>4, <2>7 DEF OnePool
    <2> QED
      BY <1>4, <2>1, <2>8 DEF B
  <1> QED
    BY <1>3, <1>4

LEMMA BlockOfOne ==
    ASSUME NEW A, NEW st, OnePool(A, st), NEW n \in Nat, AllocatedBlock(A, n) # NoBlock
    PROVE  /\ AllocatedBlock(A, n) = [piece |-> st, start |-> A.pools[1].Used, size |-> n]
           /\ HasRoom(A.pools[1], n)
  <1>1. ChosenPool(A, n) = 1
    BY OneIsChosen
  <1> QED
    BY <1>1 DEF AllocatedBlock, Fits, OnePool

-----------------------------------------------------------------------------
LEMMA InitOK == PlatformAssumption /\ Init => IInv
  <1> SUFFICES ASSUME PlatformAssumption, Init PROVE IInv
    OBVIOUS
  <1>1. PICK st \in Storage : TempAlloc = st /\ data = [s \in {st} |-> NewStorage(st, StartingSize)]
    BY DEF Init
  <1>2. /\ TempStorageSize = StartingSize /\ TempAllocMutex = NoThread
        /\ call = [t \in Thread |-> Idle] /\ given = {}
    BY DEF Init
  <1>3. StorageOK
    <2>1. OnePool(NewStorage(st, StartingSize), st)
      BY NewOne DEF PlatformAssumption
    <2> QED
      BY <1>1, <2>1 DEF StorageOK
  <1>4. CallsOK
    <2>1. Idle \in Calls
      BY DEF Idle, Calls
    <2> QED
      BY <1>2, <2>1 DEF CallsOK, PlatformAssumption
  <1>5. HolderOK /\ GivenOK /\ ChosenOK /\ ReturnOK
    BY <1>2 DEF HolderOK, GivenOK, ChosenOK, ReturnOK, Critical, Chosen, Idle
  <1> QED
    BY <1>3, <1>4, <1>5 DEF IInv

\* A step that takes one thread to a place where no block is chosen, and leaves the storage alone.
LEMMA OneGoes ==
    ASSUME IInv, NEW t \in Thread, NEW c \in Calls,
           call' = [call EXCEPT ![t] = c],
           c.at \notin Chosen \cup {"return"},
           c.at \in Critical => TempAllocMutex' = t,
           \A u \in Thread \ {t} : call[u].at \in Critical => TempAllocMutex' = u,
           TempAllocMutex' \in Thread \cup {NoThread},
           UNCHANGED <<TempAlloc, TempStorageSize, data, given>>
    PROVE  IInv'
  <1>1. \A u \in Thread : call'[u] = IF u = t THEN c ELSE call[u]
    BY DEF IInv, CallsOK
  <1>2. CallsOK' /\ StorageOK'
    BY DEF IInv, CallsOK, StorageOK
  <1>3. HolderOK'
    BY <1>1 DEF IInv, HolderOK
  <1>4. GivenOK' /\ ChosenOK' /\ ReturnOK'
    BY <1>1 DEF IInv, GivenOK, ChosenOK, ReturnOK, Pool
  <1> QED
    BY <1>2, <1>3, <1>4 DEF IInv

\* Two threads are never inside at once.
LEMMA OthersOutside ==
    ASSUME IInv, NEW t \in Thread, call[t].at \in Critical
    PROVE  TempAllocMutex = t /\ \A u \in Thread \ {t} : call[u].at \notin Critical
  BY DEF IInv, HolderOK

LEMMA ConvertKeeps ==
    ASSUME PlatformAssumption, IInv, NEW t \in Thread, NEW n \in Sizes, Convert(t, n) PROVE IInv'
  <1> DEFINE c == [at |-> "lock", context |-> TempAlloc, size |-> n, result |-> NoBlock]
  <1>1. c \in Calls
    BY DEF PlatformAssumption, IInv, StorageOK, Calls
  <1>2. c.at \notin Chosen \cup {"return"} /\ c.at \notin Critical
    BY DEF Chosen, Critical
  <1>3. /\ call' = [call EXCEPT ![t] = c]
        /\ UNCHANGED <<TempAlloc, TempStorageSize, data, TempAllocMutex, given>>
    BY DEF Convert
  <1>4. TempAllocMutex' \in Thread \cup {NoThread}
    BY <1>3 DEF IInv, CallsOK
  <1>5. \A u \in Thread \ {t} : call[u].at \in Critical => TempAllocMutex' = u
    BY <1>3 DEF IInv, HolderOK
  <1> HIDE DEF c
  <1> QED
    BY <1>1, <1>2, <1>3, <1>4, <1>5, OneGoes

LEMMA LockKeeps ==
    ASSUME PlatformAssumption, IInv, NEW t \in Thread, Lock(t) PROVE IInv'
  <1> DEFINE c == [call[t] EXCEPT !.at = "allocate"]
  <1>1. c \in Calls /\ c.at = "allocate"
    BY DEF IInv, CallsOK, Calls
  <1>2. c.at \notin Chosen \cup {"return"}
    BY <1>1 DEF Chosen
  <1>3. /\ call' = [call EXCEPT ![t] = c]
        /\ TempAllocMutex' = t
        /\ UNCHANGED <<TempAlloc, TempStorageSize, data, given>>
    BY DEF Lock, GoTo, IInv, CallsOK
  <1>4. \A u \in Thread : u # t => call[u].at \notin Critical
    BY DEF Lock, CanLock, IInv, HolderOK, PlatformAssumption
  <1> HIDE DEF c
  <1> QED
    BY <1>1, <1>2, <1>3, <1>4, OneGoes

\* Try and TryAgain.
LEMMA ChooseKeeps ==
    ASSUME IInv, NEW t \in Thread, NEW from \in Critical, NEW then \in Chosen, Choose(t, from, then)
    PROVE  IInv'
  <1>1. /\ call[t].at = from /\ call[t] \in Calls
        /\ UNCHANGED <<TempAlloc, TempStorageSize, data, TempAllocMutex, given>>
    BY DEF Choose, At, IInv, CallsOK
  <1>2. TempAllocMutex = t /\ \A u \in Thread \ {t} : call[u].at \notin Critical
    BY <1>1, OthersOutside
  <1>3. CASE ~Live(t)
    <2> DEFINE c == [call[t] EXCEPT !.at = "freed_context", !.result = NoBlock]
    <2>1. c \in Calls /\ c.at = "freed_context"
      BY <1>1 DEF Calls
    <2>2. call' = [call EXCEPT ![t] = c]
      BY <1>3 DEF Choose, IInv, CallsOK
    <2>3. c.at \notin Chosen \cup {"return"}
      BY <2>1 DEF Chosen
    <2> HIDE DEF c
    <2> QED
      BY <1>1, <1>2, <2>1, <2>2, <2>3, OneGoes
  <1>4. CASE Live(t)
    <2> DEFINE block == AllocatedBlock(data[TempAlloc], call[t].size)
               c == [call[t] EXCEPT !.at = then, !.result = block]
    <2>1. call[t].context = TempAlloc /\ call[t].size \in Nat /\ OnePool(data[TempAlloc], TempAlloc)
      BY <1>1, <1>4 DEF Live, IInv, StorageOK, Calls
    <2>2. block # NoBlock => /\ block = [piece |-> TempAlloc, start |-> Pool.Used, size |-> call[t].size]
                             /\ HasRoom(Pool, call[t].size)
      BY <2>1, BlockOfOne DEF Pool
    <2>3. Pool.Used \in Nat /\ TempAlloc \in Storage
      BY <2>1, FirstPool DEF Pool, IInv, StorageOK
    <2> HIDE DEF block
    <2>4. block \in Block \cup {NoBlock}
      BY <2>1, <2>2, <2>3 DEF Block
    <2>5. c \in Calls /\ c.at = then /\ c.context = TempAlloc /\ c.size = call[t].size /\ c.result = block
      BY <1>1, <2>1, <2>4 DEF Calls, Chosen
    <2>6. \A u \in Thread : call'[u] = IF u = t THEN c ELSE call[u]
      BY <1>4, <2>1 DEF Choose, IInv, CallsOK, block
    <2>7. call' \in [Thread -> Calls]
      BY <1>4, <2>1, <2>5 DEF Choose, IInv, CallsOK, block
    <2> HIDE DEF c
    <2>8. CallsOK' /\ StorageOK' /\ GivenOK'
      BY <1>1, <2>7 DEF IInv, CallsOK, StorageOK, GivenOK, Pool
    <2>9. HolderOK'
      BY <1>1, <1>2, <2>6 DEF HolderOK
    <2>10. Pool' = Pool
      BY <1>1 DEF Pool
    <2>11. ChosenOK'
      <3> SUFFICES ASSUME NEW u \in Thread, call'[u].at \in Chosen
                   PROVE  /\ call'[u].context = TempAlloc
                          /\ call'[u].result # NoBlock =>
                               /\ call'[u].result = [piece |-> TempAlloc, start |-> Pool.Used, size |-> call'[u].size]
                               /\ HasRoom(Pool, call'[u].size)
        BY <1>1, <2>10 DEF ChosenOK
      <3>1. u = t
        BY <1>2, <2>6 DEF Chosen, Critical
      <3> QED
        BY <2>2, <2>5, <2>6, <3>1
    <2>12. ReturnOK'
      BY <1>2, <2>5, <2>6 DEF ReturnOK, Chosen, Critical
    <2> QED
      BY <2>8, <2>9, <2>11, <2>12 DEF IInv
  <1> QED
    BY <1>3, <1>4

\* FirstFill and FillAgain: the mark is moved behind the block that was chosen.
LEMMA FillKeeps ==
    ASSUME IInv, NEW t \in Thread, call[t].at \in Chosen, Fill(t),
           NEW then \in {"grow", "empty", "return"}, GoTo(t, then),
           UNCHANGED <<TempAlloc, TempStorageSize, TempAllocMutex, given>>
    PROVE  IInv'
  <1> DEFINE c == [call[t] EXCEPT !.at = then]
             A == AfterAllocate(data[TempAlloc], call[t].size)
  <1>1. /\ call[t] \in Calls /\ call[t].size \in Nat /\ call[t].context = TempAlloc
        /\ OnePool(data[TempAlloc], TempAlloc) /\ DOMAIN data = {TempAlloc} /\ TempAlloc \in Storage
    BY DEF IInv, CallsOK, ChosenOK, StorageOK, Calls
  <1>2. TempAllocMutex = t /\ \A u \in Thread \ {t} : call[u].at \notin Critical
    BY OthersOutside DEF Chosen, Critical
  <1>3. OnePool(A, TempAlloc) /\ A.pools[1].Size = Pool.Size
        /\ A.pools[1].Used = IF HasRoom(Pool, call[t].size) THEN Pool.Used + call[t].size ELSE Pool.Used
    BY <1>1, FilledOne DEF Pool
  <1>4. Pool.Used \in Nat /\ Pool.Size \in Int
    BY <1>1, FirstPool DEF Pool
  <1>5. data' = [data EXCEPT ![TempAlloc] = A]
    BY <1>1 DEF Fill
  <1> HIDE DEF A
  <1>6. DOMAIN data' = {TempAlloc} /\ data'[TempAlloc] = A
    BY <1>1, <1>5
  <1>7. StorageOK'
    BY <1>1, <1>3, <1>6 DEF StorageOK
  <1>8. Pool' = A.pools[1]
    BY <1>6 DEF Pool
  <1>9. c \in Calls /\ c.at = then /\ c.size = call[t].size /\ c.result = call[t].result
    BY <1>1 DEF Calls
  <1>10. call' = [call EXCEPT ![t] = c]
    BY DEF GoTo, IInv, CallsOK
  <1> HIDE DEF c
  <1>11. call' \in [Thread -> Calls] /\ \A u \in Thread : call'[u] = IF u = t THEN c ELSE call[u]
    BY <1>9, <1>10 DEF IInv, CallsOK
  <1>12. CallsOK'
    BY <1>11 DEF IInv, CallsOK
  <1>13. HolderOK'
    BY <1>2, <1>11 DEF HolderOK
  <1>14. \A b \in given : b.piece = TempAlloc /\ b.start \in Nat /\ b.size \in Nat /\ b.start + b.size <= Pool.Used
    BY DEF IInv, GivenOK, CallsOK, Block
  <1>15. GivenOK'
    BY <1>1, <1>3, <1>4, <1>8, <1>14 DEF GivenOK
  <1>16. ChosenOK'
    BY <1>2, <1>9, <1>11 DEF ChosenOK, Chosen, Critical
  <1>17. ReturnOK'
    <2> SUFFICES ASSUME call[t].result # NoBlock
                 PROVE  LET r == call[t].result
                        IN  /\ r.piece = TempAlloc /\ r.start + r.size <= A.pools[1].Used
                            /\ r.start + r.size <= A.pools[1].Size
                            /\ \A b \in given : b.start + b.size <= r.start
      BY <1>2, <1>8, <1>9, <1>11 DEF ReturnOK, Chosen, Critical
    <2>1. /\ call[t].result = [piece |-> TempAlloc, start |-> Pool.Used, size |-> call[t].size]
          /\ HasRoom(Pool, call[t].size)
      BY DEF IInv, ChosenOK
    <2>2. Pool.Used + call[t].size < Pool.Size
      BY <2>1 DEF HasRoom
    <2> QED
      BY <1>1, <1>3, <1>4, <1>14, <2>1, <2>2
  <1> QED
    BY <1>7, <1>12, <1>13, <1>15, <1>16, <1>17 DEF IInv

\* Empty and Grow: nothing that was given out is left.
LEMMA RenewKeeps ==
    ASSUME IInv, NEW t \in Thread, call[t].at \in {"empty", "grow"}, GoTo(t, "retry"),
           StorageOK', given' = {}, TempStorageSize' \in Nat, UNCHANGED TempAllocMutex
    PROVE  IInv'
  <1> DEFINE c == [call[t] EXCEPT !.at = "retry"]
  <1>1. TempAllocMutex = t /\ \A u \in Thread \ {t} : call[u].at \notin Critical
    BY OthersOutside DEF Critical
  <1>2. c \in Calls /\ c.at = "retry"
    BY DEF IInv, CallsOK, Calls
  <1>3. call' = [call EXCEPT ![t] = c]
    BY DEF GoTo, IInv, CallsOK
  <1> HIDE DEF c
  <1>4. call' \in [Thread -> Calls] /\ \A u \in Thread : call'[u] = IF u = t THEN c ELSE call[u]
    BY <1>2, <1>3 DEF IInv, CallsOK
  <1>5. CallsOK' /\ HolderOK' /\ GivenOK'
    BY <1>1, <1>4 DEF IInv, CallsOK, HolderOK, GivenOK
  <1>6. ChosenOK' /\ ReturnOK'
    BY <1>1, <1>2, <1>4 DEF ChosenOK, ReturnOK, Chosen, Critical
  <1> QED
    BY <1>5, <1>6 DEF IInv

LEMMA EmptyKeeps == ASSUME IInv, NEW t \in Thread, Empty(t) PROVE IInv'
  <1>1. /\ call[t].at = "empty" /\ GoTo(t, "retry") /\ given' = {}
        /\ data' = [data EXCEPT ![TempAlloc] = Emptied(data[TempAlloc])]
        /\ UNCHANGED <<TempAlloc, TempStorageSize, TempAllocMutex>>
    BY DEF Empty, At
  <1>2. OnePool(Emptied(data[TempAlloc]), TempAlloc)
    BY EmptiedOne DEF IInv, StorageOK
  <1>3. StorageOK'
    BY <1>1, <1>2 DEF IInv, StorageOK
  <1>4. TempStorageSize' \in Nat
    BY <1>1 DEF IInv, CallsOK
  <1> QED
    BY <1>1, <1>3, <1>4, RenewKeeps

LEMMA GrowKeeps == ASSUME IInv, NEW t \in Thread, Grow(t) PROVE IInv'
  <1> DEFINE size == call[t].size * 2
  <1>1. /\ call[t].at = "grow" /\ GoTo(t, "retry") /\ given' = {}
        /\ TempStorageSize' = size /\ UNCHANGED TempAllocMutex
    BY DEF Grow, At
  <1>2. call[t].size \in Nat
    BY DEF IInv, CallsOK, Calls
  <1>3. size \in Nat
    BY <1>2
  <1>4. PICK st \in Storage \ DOMAIN data :
            /\ TempAlloc' = st
            /\ data' = [s \in (DOMAIN data \ {TempAlloc}) \cup {st} |->
                            IF s = st THEN NewStorage(st, size) ELSE data[s]]
    BY DEF Grow
  <1> HIDE DEF size
  <1>5. (DOMAIN data \ {TempAlloc}) \cup {st} = {st}
    BY DEF IInv, StorageOK
  <1>6. DOMAIN data' = {st} /\ data'[st] = NewStorage(st, size)
    BY <1>4, <1>5
  <1>7. OnePool(NewStorage(st, size), st)
    BY <1>3, <1>4, NewOne
  <1>8. StorageOK'
    BY <1>4, <1>6, <1>7 DEF StorageOK
  <1> QED
    BY <1>1, <1>3, <1>8, RenewKeeps

\* What is returned joins what was given out.
LEMMA ReturnKeeps == ASSUME PlatformAssumption, IInv, NEW t \in Thread, Return(t) PROVE IInv'
  <1> DEFINE c == [call[t] EXCEPT !.at = "idle"]
  <1>1. /\ call[t].at = "return" /\ GoTo(t, "idle") /\ TempAllocMutex' = NoThread
        /\ given' = IF call[t].result = NoBlock THEN given ELSE given \cup {call[t].result}
        /\ UNCHANGED <<TempAlloc, TempStorageSize, data>>
    BY DEF Return, At
  <1>2. \A u \in Thread \ {t} : call[u].at \notin Critical
    BY <1>1, OthersOutside DEF Critical
  <1>3. c \in Calls /\ c.at = "idle" /\ call[t].result \in Block \cup {NoBlock}
    BY DEF IInv, CallsOK, Calls
  <1>4. call' = [call EXCEPT ![t] = c]
    BY <1>1 DEF GoTo, IInv, CallsOK
  <1> HIDE DEF c
  <1>5. call' \in [Thread -> Calls] /\ \A u \in Thread : call'[u] = IF u = t THEN c ELSE call[u]
    BY <1>3, <1>4 DEF IInv, CallsOK
  <1>6. CallsOK' /\ StorageOK'
    BY <1>1, <1>3, <1>5 DEF IInv, CallsOK, StorageOK
  <1>7. \A u \in Thread : call'[u].at \notin Critical
    BY <1>2, <1>3, <1>5 DEF Critical
  <1>8. HolderOK' /\ ChosenOK' /\ ReturnOK'
    BY <1>7 DEF HolderOK, ChosenOK, ReturnOK, Critical, Chosen
  <1>9. GivenOK'
    BY <1>1 DEF IInv, GivenOK, ReturnOK, Pool
  <1> QED
    BY <1>6, <1>8, <1>9 DEF IInv

LEMMA NextKeeps == PlatformAssumption /\ IInv /\ [Next]_vars => IInv'
  <1> SUFFICES ASSUME PlatformAssumption, IInv, [Next]_vars PROVE IInv'
    OBVIOUS
  <1>1. CASE UNCHANGED vars
    BY <1>1 DEF vars, IInv, CallsOK, StorageOK, HolderOK, GivenOK, ChosenOK, ReturnOK, Pool
  <1>2. ASSUME NEW t \in Thread, NEW n \in Sizes, Convert(t, n) PROVE IInv'
    BY <1>2, ConvertKeeps
  <1>3. ASSUME NEW t \in Thread, Allocating(t) PROVE IInv'
    <2>1. CASE Try(t)
      BY <2>1, ChooseKeeps DEF Try, Critical, Chosen
    <2>2. CASE TryAgain(t)
      BY <2>2, ChooseKeeps DEF TryAgain, Critical, Chosen
    <2>3. CASE FirstFill(t)
      <3> DEFINE then == IF call[t].size > TempStorageSize THEN "grow"
                         ELSE IF call[t].result = NoBlock THEN "empty" ELSE "return"
      <3>1. /\ call[t].at \in Chosen /\ Fill(t) /\ GoTo(t, then) /\ then \in {"grow", "empty", "return"}
            /\ UNCHANGED <<TempAlloc, TempStorageSize, TempAllocMutex, given>>
        BY <2>3 DEF FirstFill, At, Chosen
      <3> HIDE DEF then
      <3> QED
        BY <3>1, FillKeeps
    <2>4. CASE FillAgain(t)
      <3>1. /\ call[t].at \in Chosen /\ Fill(t) /\ GoTo(t, "return")
            /\ UNCHANGED <<TempAlloc, TempStorageSize, TempAllocMutex, given>>
        BY <2>4 DEF FillAgain, At, Chosen
      <3> QED
        BY <3>1, FillKeeps
    <2> QED
      BY <1>3, <2>1, <2>2, <2>3, <2>4, LockKeeps, EmptyKeeps, GrowKeeps, ReturnKeeps DEF Allocating
  <1> QED
    BY <1>1, <1>2, <1>3 DEF Next

LEMMA IInvHolds ==
    ASSUME PlatformAssumption PROVE Spec => []IInv
  <1>1. Init => IInv
    BY InitOK
  <1>2. IInv /\ [Next]_vars => IInv'
    BY NextKeeps
  <1> QED
    BY <1>1, <1>2, PTL DEF Spec

-----------------------------------------------------------------------------
\* os.win64.memory.ixx, lines 85-159: the block that a call is about to return lies inside the
\* storage and shares no byte with any that was given out since the storage was emptied, whatever
\* the threads do between the steps of the call, the emptying and the replacement included.
THEOREM StorageGivenOnce ==
    ASSUME PlatformAssumption PROVE Spec => []ReturnsFresh
  <1>1. IInv => ReturnsFresh
    <2> SUFFICES ASSUME IInv, NEW t \in Thread, call[t].at = "return", call[t].result # NoBlock
                 PROVE  /\ Promise!Inside(call[t].result)
                        /\ \A b \in given : ~Promise!Overlap(call[t].result, b)
      BY DEF ReturnsFresh, At
    <2> DEFINE r == call[t].result
    <2>1. /\ r.piece = TempAlloc /\ r.start + r.size <= Pool.Size
          /\ \A b \in given : b.start + b.size <= r.start
      BY DEF IInv, ReturnOK
    <2>2. r \in Block /\ given \subseteq Block
      BY DEF IInv, CallsOK, Calls
    <2> HIDE DEF r
    <2>3. Promise!Inside(r)
      BY <2>1, <2>2 DEF Promise!Inside, Block, Pool, IInv, StorageOK
    <2>4. \A b \in given : ~Promise!Overlap(r, b)
      BY <2>1, <2>2 DEF Promise!Overlap, Block
    <2> QED
      BY <2>3, <2>4 DEF r
  <1> QED
    BY <1>1, IInvHolds, PTL

\* os.win64.memory.ixx, lines 85-159: there is always exactly one storage block with one pool in it,
\* S->TempAlloc is the context of that one, and calls and results are well formed.
THEOREM StorageTyped ==
    ASSUME PlatformAssumption PROVE Spec => []TypeOK
  <1>1. IInv => TypeOK
    BY DEF IInv, TypeOK, CallsOK, StorageOK, OnePool
  <1> QED
    BY <1>1, IInvHolds, PTL
=============================================================================
