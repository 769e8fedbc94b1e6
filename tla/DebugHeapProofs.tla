-------------------------- MODULE DebugHeapProofs --------------------------
(***************************************************************************)
(* The debug heap for any number of threads, headers, allocators and       *)
(* sizes.                                                                  *)
(***************************************************************************)
EXTENDS DebugHeap, HeaderListProofs

-----------------------------------------------------------------------------
(* The inductive invariant *)

Labels == {"idle", "block", "count", "encode", "add", "resize", "swap", "retire",
           "refill", "unlink", "free", "free_all", "fill"}

Locals == [caller : {"user", "report"}, ptr : Pointer, block : Pointer,
           id : 0..(IdModulus - 1), Size : Sizes \cup {0}, Alloc : Allocator \cup {Persistent},
           leak : BOOLEAN, leaksCount : Nat, leaks : SUBSET Header]

TypesOK == /\ list \in HeaderLists
           /\ memory \in [Header -> Contents \cup {Dead}]
           /\ AllocationCount \in Nat
           /\ mutex \in Thread \cup {NoThread}
           /\ blocks \subseteq Header /\ pointers \subseteq blocks
           /\ pc \in [Thread -> Labels]
           /\ local \in [Thread -> Locals]
           /\ asserted \in BOOLEAN

\* The call of t has a block that was in use when it began; one it allocated.
HasOld(t) == \/ pc[t] \in {"resize", "swap", "retire", "unlink", "free"}
             \/ pc[t] \in {"block", "count", "encode"} /\ local[t].ptr # Null

HasNew(t) == pc[t] \in {"count", "encode", "add", "swap", "retire", "refill", "fill"}

\* h is for t alone to work on.
Holds(t, h) == \/ HasOld(t) /\ h = local[t].ptr
               \/ HasNew(t) /\ h = local[t].block

\* h is a header t holds that is in the list.
Links(t, h) == \/ HasOld(t) /\ pc[t] \notin {"retire", "free"} /\ h = local[t].ptr
               \/ pc[t] \in {"retire", "refill", "fill"} /\ h = local[t].block

\* Which calls can be where.
CallOK(t) == LET v == local[t] IN
    /\ pc[t] = "idle" => v = NoLocal
    /\ v.caller = "report" <=> mutex = t
    /\ v.caller = "report" =>
            /\ pc[t] \in {"block", "count", "encode", "add", "fill", "unlink", "free"}
            /\ v.Alloc = Persistent
            /\ pc[t] \in {"block", "count", "encode"} => v.ptr = Null
    /\ v.caller = "user" /\ pc[t] # "idle" => v.Alloc \in Allocator
    /\ pc[t] = "add" => v.ptr = Null
    /\ pc[t] = "fill" => v.caller = "report"
    /\ pc[t] = "free_all" => v.Alloc \in FreesAll

\* The blocks a call holds.
HeldOK(t) == LET v == local[t] IN
    /\ HasOld(t) => v.ptr \in Header
    /\ HasNew(t) => v.block \in Header
    /\ HasOld(t) /\ HasNew(t) => v.ptr # v.block
    /\ \A h \in Header : Holds(t, h) => /\ h \in blocks /\ h \notin pointers
                                        /\ memory[h] # Dead => memory[h].Alloc = v.Alloc
    /\ \A h \in Header : Links(t, h) => memory[h] # Dead

\* What the headers of those blocks say.
HeaderOK(t) == LET v == local[t] IN
    /\ HasOld(t) /\ pc[t] \in {"block", "count", "encode", "resize"} =>
            memory[v.ptr].RID < MaxReallocations
    /\ pc[t] = "swap" => /\ memory[v.block] # Dead
                         /\ memory[v.block].ID = memory[v.ptr].ID
                         /\ memory[v.block].RID = memory[v.ptr].RID + 1
                         /\ memory[v.block].land
    /\ pc[t] = "add" => /\ memory[v.block] # Dead
                        /\ memory[v.block].RID = 0 /\ memory[v.block].land

ThreadOK(t) == CallOK(t) /\ HeldOK(t) /\ HeaderOK(t)

\* No two calls hold the same block.
Apart == \A t, u \in Thread : \A h \in Header : Holds(t, h) /\ Holds(u, h) => t = u

PointersOK == \A h \in pointers : memory[h] # Dead /\ memory[h].Alloc \in Allocator

Gone == \A h \in Header \ blocks : memory[h] = Dead

\* While a thread frees all of an allocator nothing else uses it.
FreesAlone == \A t \in Thread : pc[t] = "free_all" =>
    /\ \A u \in Thread : u # t /\ pc[u] # "idle" => local[u].Alloc # local[t].Alloc
    /\ \A h \in pointers : memory[h].Alloc # local[t].Alloc

\* The calls that have still to count their allocation.
Pending == {t \in Thread : pc[t] \in {"block", "count", "encode", "resize"}}

CountOK == AllocationCount + Cardinality(Pending) <= MaxAllocations + Cardinality(Thread)

\* Inductive whatever allocators there are.
Inv == /\ TypesOK
       /\ \A t \in Thread : ThreadOK(t)
       /\ Apart /\ PointersOK /\ Gone /\ FreesAlone /\ CountOK

-----------------------------------------------------------------------------
(* Facts about constants, and the start *)

LEMMA DeadIsNoHeader == \A x \in Contents : x # Dead
  <1>0. Sizes \cup {0} \subseteq Nat
    BY HeapAssumption
  <1>1. \A x \in Contents : x.Size \in Nat
    BY <1>0 DEF Contents
  <1>2. Dead.Size \notin Nat
    BY DEF Dead
  <1>3. QED
    BY <1>1, <1>2

LEMMA NoLocalIsLocal == NoLocal \in Locals
  BY HeapAssumption DEF NoLocal, Locals, Pointer

LEMMA InitInv == Init => Inv
  <1> SUFFICES ASSUME Init
               PROVE  Inv
    OBVIOUS
  <1>1. TypesOK
    BY EmptyIsList, NoLocalIsLocal, HeapAssumption DEF Init, TypesOK, Labels
  <1>2. \A t \in Thread : pc[t] = "idle" /\ local[t] = NoLocal /\ mutex # t
    BY HeapAssumption DEF Init
  <1>3. \A t \in Thread : /\ ~HasOld(t) /\ ~HasNew(t)
                          /\ \A h \in Header : ~Holds(t, h) /\ ~Links(t, h)
    BY <1>2 DEF HasOld, HasNew, Holds, Links
  <1>4. \A t \in Thread : ThreadOK(t)
    <2> SUFFICES ASSUME NEW t \in Thread
                 PROVE  ThreadOK(t)
      OBVIOUS
    <2>1. local[t].caller = "user"
      BY <1>2 DEF NoLocal
    <2>2. CallOK(t)
      BY <1>2, <2>1 DEF CallOK
    <2>3. HeldOK(t) /\ HeaderOK(t)
      BY <1>2, <1>3 DEF HeldOK, HeaderOK
    <2>4. QED
      BY <2>2, <2>3 DEF ThreadOK
  <1>5. Apart /\ PointersOK /\ Gone /\ FreesAlone
    BY <1>2, <1>3 DEF Init, Apart, PointersOK, Gone, FreesAlone
  <1>6. CountOK
    <2>1. Pending = {}
      BY <1>2 DEF Pending
    <2>2. Cardinality(Pending) = 0 /\ Cardinality(Thread) \in Nat
      BY <2>1, HeapAssumption, FS_EmptySet, FS_CardinalityType
    <2>3. QED
      BY <2>2, HeapAssumption DEF Init, CountOK
  <1>7. QED
    BY <1>1, <1>4, <1>5, <1>6 DEF Inv

-----------------------------------------------------------------------------
(* What a step of one thread leaves alone *)

Others(t) == Thread \ {t}

\* The other threads stay where they are.
StepOf(t) == /\ \A u \in Others(t) : pc'[u] = pc[u] /\ local'[u] = local[u]
             /\ \A u \in Others(t) : mutex' = u <=> mutex = u

\* Their blocks too.
Quiet(t) == \A u \in Others(t), h \in Header :
                Holds(u, h) => memory'[h] = memory[h] /\ h \in blocks' /\ h \notin pointers'

\* The same headers of t and of user code are in the list after the step.
SameLinks(t) == \A h \in Header : (Links(t, h)' \/ h \in pointers') <=> (Links(t, h) \/ h \in pointers)

LEMMA OthersKeep ==
    ASSUME Inv, NEW t \in Thread, StepOf(t), Quiet(t)
    PROVE  \A u \in Others(t) : /\ ThreadOK(u)'
                                /\ \A h \in Header : Holds(u, h)' <=> Holds(u, h)
  <1> SUFFICES ASSUME NEW u \in Others(t)
               PROVE  ThreadOK(u)' /\ \A h \in Header : Holds(u, h)' <=> Holds(u, h)
    OBVIOUS
  <1>1. pc'[u] = pc[u] /\ local'[u] = local[u] /\ (mutex' = u <=> mutex = u)
    BY DEF StepOf
  <1>2. (HasOld(u)' <=> HasOld(u)) /\ (HasNew(u)' <=> HasNew(u))
    BY <1>1 DEF HasOld, HasNew
  <1>3. \A h \in Header : (Holds(u, h)' <=> Holds(u, h)) /\ (Links(u, h)' <=> Links(u, h))
    BY <1>1, <1>2 DEF Holds, Links
  <1>4. \A h \in Header : Holds(u, h) => memory'[h] = memory[h] /\ h \in blocks' /\ h \notin pointers'
    BY DEF Quiet
  <1>5. \A h \in Header : Links(u, h) => Holds(u, h)
    BY DEF Links, Holds, HasNew
  <1>6. CallOK(u) /\ HeldOK(u) /\ HeaderOK(u)
    BY DEF Inv, ThreadOK, Others
  <1>7. CallOK(u)'
    BY <1>1, <1>6 DEF CallOK
  <1>8. HeldOK(u)'
    BY <1>1, <1>2, <1>3, <1>4, <1>5, <1>6 DEF HeldOK
  <1>9. HasOld(u) => local[u].ptr \in Header /\ memory'[local[u].ptr] = memory[local[u].ptr]
    BY <1>4, <1>6 DEF HeldOK, Holds
  <1>10. HasNew(u) => local[u].block \in Header /\ memory'[local[u].block] = memory[local[u].block]
    BY <1>4, <1>6 DEF HeldOK, Holds
  <1>11. HeaderOK(u)'
    BY <1>1, <1>2, <1>6, <1>9, <1>10 DEF HeaderOK, HasOld, HasNew
  <1>12. QED
    BY <1>3, <1>7, <1>8, <1>11 DEF ThreadOK

\* A block t takes hold of was free or in the hands of user code.
LEMMA ApartKeeps ==
    ASSUME Inv, NEW t \in Thread, StepOf(t), Quiet(t),
           \A h \in Header : Holds(t, h)' => Holds(t, h) \/ h \in pointers \/ h \notin blocks
    PROVE  Apart'
  <1>1. \A u \in Others(t), h \in Header : Holds(u, h)' <=> Holds(u, h)
    BY OthersKeep
  <1>2. \A u \in Thread, h \in Header : Holds(u, h) => h \in blocks /\ h \notin pointers
    BY DEF Inv, ThreadOK, HeldOK
  <1>3. \A u \in Others(t), h \in Header : ~(Holds(t, h)' /\ Holds(u, h)')
    BY <1>1, <1>2 DEF Inv, Apart, Others
  <1>4. \A u, w \in Others(t), h \in Header : Holds(u, h)' /\ Holds(w, h)' => u = w
    BY <1>1 DEF Inv, Apart, Others
  <1>5. QED
    BY <1>3, <1>4, Zenon DEF Apart, Others

LEMMA FreesAloneKeeps ==
    ASSUME Inv, NEW t \in Thread, StepOf(t), pc'[t] # "free_all",
           \A u \in Others(t) : pc[u] = "free_all" =>
                /\ pc'[t] # "idle" => local'[t].Alloc # local[u].Alloc
                /\ \A h \in pointers' : memory'[h].Alloc # local[u].Alloc
    PROVE  FreesAlone'
  <1> SUFFICES ASSUME NEW w \in Thread, pc'[w] = "free_all"
               PROVE  /\ \A u \in Thread : u # w /\ pc'[u] # "idle" => local'[u].Alloc # local'[w].Alloc
                      /\ \A h \in pointers' : memory'[h].Alloc # local'[w].Alloc
    BY DEF FreesAlone
  <1>1. w \in Others(t) /\ pc[w] = "free_all" /\ local'[w] = local[w]
    BY DEF Others, StepOf
  <1>2. \A u \in Others(t) : u # w /\ pc[u] # "idle" => local[u].Alloc # local[w].Alloc
    BY <1>1 DEF Inv, FreesAlone, Others
  <1>3. QED
    BY <1>1, <1>2 DEF Others, StepOf

\* A call that goes on, on the same allocator.
LEMMA FreesAloneGoesOn ==
    ASSUME Inv, NEW t \in Thread, StepOf(t), pc[t] # "idle", pc'[t] # "free_all",
           pc'[t] # "idle" => local'[t].Alloc = local[t].Alloc,
           \A h \in pointers' : \/ memory'[h].Alloc = local[t].Alloc
                                \/ h \in pointers /\ memory'[h].Alloc = memory[h].Alloc
    PROVE  FreesAlone'
  <1>1. \A u \in Others(t) : pc[u] = "free_all" =>
             /\ local[t].Alloc # local[u].Alloc
             /\ \A h \in pointers : memory[h].Alloc # local[u].Alloc
    BY DEF Inv, FreesAlone, Others
  <1>2. QED
    BY <1>1, FreesAloneKeeps

\* An operation begins only below the bound on the count.
LEMMA CountBegins ==
    ASSUME Inv, AllocationCount < MaxAllocations, AllocationCount' = AllocationCount
    PROVE  CountOK'
  <1>1. IsFiniteSet(Thread) /\ Pending' \subseteq Thread
    BY HeapAssumption DEF Pending
  <1>2. Cardinality(Pending') <= Cardinality(Thread) /\ Cardinality(Pending') \in Nat /\ Cardinality(Thread) \in Nat
    BY <1>1, FS_Subset, FS_CardinalityType
  <1>3. QED
    BY <1>2, HeapAssumption DEF CountOK, Inv, TypesOK

\* It is counted once.
LEMMA CountKeeps ==
    ASSUME Inv, NEW t \in Thread, StepOf(t),
           \/ AllocationCount' = AllocationCount /\ (pc'[t] \in {"block", "count", "encode", "resize"} => t \in Pending)
           \/ AllocationCount' = AllocationCount + 1 /\ t \in Pending /\ pc'[t] \notin {"block", "count", "encode", "resize"}
    PROVE  CountOK'
  <1>1. IsFiniteSet(Thread) /\ Pending \subseteq Thread /\ Pending' \subseteq Thread
    BY HeapAssumption DEF Pending
  <1>2. IsFiniteSet(Pending) /\ Cardinality(Pending) \in Nat /\ Cardinality(Thread) \in Nat
        /\ Cardinality(Pending') \in Nat
    BY <1>1, FS_Subset, FS_CardinalityType
  <1>3. \A u \in Others(t) : u \in Pending' <=> u \in Pending
    BY DEF StepOf, Pending, Others
  <1>4. CASE AllocationCount' = AllocationCount /\ (pc'[t] \in {"block", "count", "encode", "resize"} => t \in Pending)
    <2>1. Pending' \subseteq Pending
      BY <1>3, <1>4 DEF Pending, Others
    <2>2. Cardinality(Pending') <= Cardinality(Pending)
      BY <1>2, <2>1, FS_Subset
    <2>3. QED
      BY <1>2, <1>4, <2>2, HeapAssumption DEF CountOK, Inv, TypesOK
  <1>5. CASE AllocationCount' = AllocationCount + 1 /\ t \in Pending /\ pc'[t] \notin {"block", "count", "encode", "resize"}
    <2>1. Pending' = Pending \ {t}
      BY <1>3, <1>5 DEF Pending, Others
    <2>2. Cardinality(Pending') = Cardinality(Pending) - 1
      BY <1>2, <1>5, <2>1, FS_RemoveElement
    <2>3. QED
      BY <1>2, <1>5, <2>2, HeapAssumption DEF CountOK, Inv, TypesOK
  <1>6. QED
    BY <1>4, <1>5

\* The parts of the invariant together.
LEMMA StepKeeps ==
    ASSUME Inv, NEW t \in Thread, StepOf(t), Quiet(t), TypesOK', ThreadOK(t)',
           \A h \in Header : Holds(t, h)' => Holds(t, h) \/ h \in pointers \/ h \notin blocks,
           PointersOK', Gone', FreesAlone', CountOK'
    PROVE  Inv'
  <1>1. \A u \in Others(t) : ThreadOK(u)'
    BY OthersKeep
  <1>2. \A u \in Thread : ThreadOK(u)'
    BY <1>1, Zenon DEF Others
  <1>3. Apart'
    BY ApartKeeps
  <1>4. QED
    BY <1>2, <1>3, Zenon DEF Inv

\* The invariant for one thread, and what it says of the others' blocks.
LEMMA InvParts ==
    ASSUME Inv, NEW t \in Thread
    PROVE  /\ TypesOK /\ CallOK(t) /\ HeldOK(t) /\ HeaderOK(t) /\ PointersOK /\ Gone
           /\ \A u \in Others(t), h \in Header :
                    Holds(u, h) => h \in blocks /\ h \notin pointers /\ ~Holds(t, h)
  <1>1. \A u \in Thread : CallOK(u) /\ HeldOK(u) /\ HeaderOK(u)
    BY DEF Inv, ThreadOK
  <1>2. \A u \in Others(t), h \in Header :
            Holds(u, h) => h \in blocks /\ h \notin pointers /\ ~Holds(t, h)
    BY <1>1 DEF Inv, HeldOK, Apart, Others
  <1>3. QED
    BY <1>1, <1>2 DEF Inv

-----------------------------------------------------------------------------
(* general_allocate *)

LEMMA AllocateStep ==
    ASSUME Inv, NEW t \in Thread, Allocate(t)
    PROVE  Inv' /\ StepOf(t) /\ SameLinks(t)
  <1>1. PICK s \in Sizes, a \in Allocator, lk \in BOOLEAN :
            /\ ~FreesAllOf(a)
            /\ Enter(t, "block", [NoLocal EXCEPT !.Size = s, !.Alloc = a, !.leak = lk])
    BY DEF Allocate
  <1>2. /\ pc[t] = "idle" /\ AllocationCount < MaxAllocations
        /\ UNCHANGED <<list, memory, AllocationCount, mutex, blocks, pointers>>
    BY DEF Allocate, At, MayStart
  <1> DEFINE v == [NoLocal EXCEPT !.Size = s, !.Alloc = a, !.leak = lk]
  <1>3. /\ v.caller = "user" /\ v.ptr = Null /\ v.Alloc = a
        /\ v \in Locals
    BY NoLocalIsLocal DEF NoLocal, Locals
  <1>4. /\ pc' = [pc EXCEPT ![t] = "block"] /\ local' = [local EXCEPT ![t] = v]
        /\ asserted' \in BOOLEAN
    BY <1>1 DEF Enter, Goto
  <1> HIDE DEF v
  <1>5. TypesOK /\ CallOK(t) /\ PointersOK /\ Gone
    BY InvParts
  <1>6. TypesOK'
    BY <1>2, <1>3, <1>4, <1>5 DEF TypesOK, Labels
  <1>7. pc'[t] = "block" /\ local'[t] = v
    BY <1>4, <1>5 DEF TypesOK
  <1>8. StepOf(t)
    BY <1>2, <1>4, <1>5 DEF TypesOK, StepOf, Others
  <1>9. Quiet(t)
    BY <1>2, InvParts DEF Quiet
  <1>10. ~HasOld(t)' /\ ~HasNew(t)' /\ \A h \in Header : ~Holds(t, h)' /\ ~Links(t, h)'
    BY <1>3, <1>7 DEF HasOld, HasNew, Holds, Links
  <1>11. ThreadOK(t)'
    <2>1. mutex' # t
      BY <1>2, <1>5 DEF CallOK, NoLocal
    <2>2. CallOK(t)'
      BY <1>3, <1>7, <2>1 DEF CallOK
    <2>3. HeldOK(t)' /\ HeaderOK(t)'
      BY <1>3, <1>7, <1>10 DEF HeldOK, HeaderOK
    <2>4. QED
      BY <2>2, <2>3 DEF ThreadOK
  <1>12. PointersOK' /\ Gone'
    BY <1>2, <1>5 DEF PointersOK, Gone
  <1>13. FreesAlone'
    <2>1. \A u \in Others(t) : pc[u] = "free_all" => local[u].Alloc # a
      BY <1>1 DEF FreesAllOf, Others
    <2>2. \A u \in Others(t) : pc[u] = "free_all" => \A h \in pointers' : memory'[h].Alloc # local[u].Alloc
      BY <1>2 DEF Inv, FreesAlone, Others
    <2>3. QED
      BY <1>3, <1>7, <1>8, <2>1, <2>2, FreesAloneKeeps
  <1>14. CountOK'
    BY <1>2, CountBegins
  <1>15. SameLinks(t)
    BY <1>1, <1>2, <1>10 DEF Links, HasOld, SameLinks
  <1>16. QED
    BY <1>6, <1>8, <1>9, <1>10, <1>11, <1>12, <1>13, <1>14, <1>15, StepKeeps

LEMMA AllocateBlockStep ==
    ASSUME Inv, NEW t \in Thread, AllocateBlock(t)
    PROVE  Inv' /\ StepOf(t) /\ SameLinks(t)
  <1>1. PICK b \in Header \ blocks : /\ blocks' = blocks \cup {b}
                                     /\ local' = [local EXCEPT ![t].block = b]
    BY DEF AllocateBlock
  <1>2. /\ pc[t] = "block" /\ pc' = [pc EXCEPT ![t] = "count"]
        /\ UNCHANGED <<list, memory, AllocationCount, mutex, pointers, asserted>>
    BY DEF AllocateBlock, At, Goto
  <1>3. TypesOK /\ CallOK(t) /\ HeldOK(t) /\ HeaderOK(t) /\ PointersOK /\ Gone
    BY InvParts
  <1>4. local[t] \in Locals
    BY <1>3 DEF TypesOK
  <1>5. /\ pc'[t] = "count" /\ local'[t] = [local[t] EXCEPT !.block = b]
        /\ local'[t].block = b /\ local'[t].ptr = local[t].ptr
        /\ local'[t].caller = local[t].caller /\ local'[t].Alloc = local[t].Alloc
        /\ local'[t] \in Locals
    BY <1>1, <1>2, <1>3, <1>4 DEF TypesOK, Locals, Pointer
  <1>6. TypesOK'
    BY <1>1, <1>2, <1>3, <1>5 DEF TypesOK, Labels
  <1>7. StepOf(t)
    BY <1>1, <1>2, <1>3 DEF TypesOK, StepOf, Others
  <1>8. Quiet(t)
    BY <1>1, <1>2, InvParts DEF Quiet
  <1>9. (HasOld(t)' <=> HasOld(t)) /\ HasNew(t)'
    BY <1>2, <1>5 DEF HasOld, HasNew
  <1>10. \A h \in Header : /\ Holds(t, h)' => Holds(t, h) \/ h = b
                           /\ Links(t, h)' => Links(t, h) /\ Holds(t, h)
    BY <1>2, <1>5, <1>9 DEF Holds, Links
  <1>11. ThreadOK(t)'
    <2>1. CallOK(t)'
      BY <1>2, <1>3, <1>5 DEF CallOK
    <2>2. HasOld(t) => local[t].ptr # b /\ local[t].ptr \in Header
      BY <1>3 DEF HeldOK, Holds
    <2>3. memory[b] = Dead /\ b \notin pointers /\ b \in blocks'
      BY <1>1, <1>3 DEF Gone, TypesOK
    <2>4. HeldOK(t)'
      BY <1>1, <1>2, <1>3, <1>5, <1>9, <1>10, <2>2, <2>3 DEF HeldOK
    <2>5. HeaderOK(t)'
      BY <1>2, <1>3, <1>5, <1>9 DEF HeaderOK
    <2>6. QED
      BY <2>1, <2>4, <2>5 DEF ThreadOK
  <1>12. PointersOK' /\ Gone'
    BY <1>1, <1>2, <1>3 DEF PointersOK, Gone
  <1>13. FreesAlone'
    BY <1>2, <1>5, <1>7, FreesAloneGoesOn
  <1>14. CountOK'
    BY <1>2, <1>5, <1>7, CountKeeps DEF Pending
  <1>15. SameLinks(t)
    BY <1>1, <1>2, <1>5, <1>9 DEF Links, SameLinks
  <1>16. QED
    BY <1>1, <1>6, <1>7, <1>8, <1>10, <1>11, <1>12, <1>13, <1>14, <1>15, StepKeeps

\* The ID encode_header takes from the count.
LEMMA CutToModulus == \A n \in Nat : n % IdModulus \in 0..(IdModulus - 1)
  <1>1. IdModulus \in Nat /\ IdModulus > 0
    BY HeapAssumption
  <1>2. QED
    BY <1>1

LEMMA EncodeReadsCountStep ==
    ASSUME Inv, NEW t \in Thread, EncodeReadsCount(t)
    PROVE  Inv' /\ StepOf(t) /\ SameLinks(t)
  <1> DEFINE i == AllocationCount % IdModulus
  <1>1. /\ pc[t] = "count" /\ pc' = [pc EXCEPT ![t] = "encode"]
        /\ list' = ClearLinks(list, local[t].block)
        /\ local' = [local EXCEPT ![t].id = i]
        /\ UNCHANGED <<memory, AllocationCount, mutex, blocks, pointers, asserted>>
    BY DEF EncodeReadsCount, At, Goto
  <1>2. TypesOK /\ CallOK(t) /\ HeldOK(t) /\ HeaderOK(t) /\ PointersOK /\ Gone
    BY InvParts
  <1>3. i \in 0..(IdModulus - 1)
    BY <1>2, CutToModulus DEF TypesOK
  <1> HIDE DEF i
  <1>4. local[t] \in Locals
    BY <1>2 DEF TypesOK
  <1>5. /\ pc'[t] = "encode" /\ local'[t] = [local[t] EXCEPT !.id = i]
        /\ local'[t].block = local[t].block /\ local'[t].ptr = local[t].ptr
        /\ local'[t].caller = local[t].caller /\ local'[t].Alloc = local[t].Alloc
        /\ local'[t] \in Locals
    BY <1>1, <1>2, <1>3, <1>4 DEF TypesOK, Locals
  <1>6. TypesOK'
    <2>1. local[t].block \in Header
      BY <1>1, <1>2 DEF HeldOK, HasNew
    <2>2. list' \in HeaderLists
      BY <1>1, <1>2, <2>1, ListTypes DEF TypesOK
    <2>3. QED
      BY <1>1, <1>2, <1>5, <2>2 DEF TypesOK, Labels
  <1>7. StepOf(t)
    BY <1>1, <1>2 DEF TypesOK, StepOf, Others
  <1>8. Quiet(t)
    BY <1>1, InvParts DEF Quiet
  <1>9. (HasOld(t)' <=> HasOld(t)) /\ HasNew(t)' /\ HasNew(t)
    BY <1>1, <1>5 DEF HasOld, HasNew
  <1>10. \A h \in Header : (Holds(t, h)' <=> Holds(t, h)) /\ (Links(t, h)' <=> Links(t, h))
    BY <1>1, <1>5, <1>9 DEF Holds, Links
  <1>11. ThreadOK(t)'
    <2>1. CallOK(t)'
      BY <1>1, <1>2, <1>5 DEF CallOK
    <2>2. HeldOK(t)'
      BY <1>1, <1>2, <1>5, <1>9, <1>10 DEF HeldOK
    <2>3. HeaderOK(t)'
      BY <1>1, <1>2, <1>5, <1>9 DEF HeaderOK
    <2>4. QED
      BY <2>1, <2>2, <2>3 DEF ThreadOK
  <1>12. PointersOK' /\ Gone'
    BY <1>1, <1>2 DEF PointersOK, Gone
  <1>13. FreesAlone'
    BY <1>1, <1>5, <1>7, FreesAloneGoesOn
  <1>14. CountOK'
    BY <1>1, <1>5, <1>7, CountKeeps DEF Pending
  <1>15. SameLinks(t)
    BY <1>1, <1>10 DEF SameLinks
  <1>16. QED
    BY <1>6, <1>7, <1>8, <1>10, <1>11, <1>12, <1>13, <1>14, <1>15, StepKeeps

\* The two headers encode_header and general_reallocate write.
LEMMA HeaderTypes ==
    ASSUME NEW v \in Locals
    PROVE  /\ FreshHeader(v) \in Contents
           /\ \A old \in Contents : old.RID < MaxReallocations => MovedHeader(v, old) \in Contents
  <1>0. MaxReallocations \in Nat /\ 0 \in 0..(MaxReallocations + 1)
    BY HeapAssumption
  <1>1. FreshHeader(v) \in Contents
    BY <1>0 DEF FreshHeader, Contents, Locals
  <1>2. ASSUME NEW old \in Contents, old.RID < MaxReallocations
        PROVE  MovedHeader(v, old) \in Contents
    <2>1. old.RID + 1 \in 0..(MaxReallocations + 1)
      BY <1>0, <1>2 DEF Contents
    <2>2. QED
      BY <2>1 DEF MovedHeader, Contents, Locals
  <1>3. QED
    BY <1>1, <1>2

LEMMA EncodeHeaderStep ==
    ASSUME Inv, NEW t \in Thread, EncodeHeader(t)
    PROVE  Inv' /\ StepOf(t) /\ SameLinks(t)
  <1> DEFINE v == local[t]
             x == IF v.ptr = Null THEN FreshHeader(v) ELSE MovedHeader(v, memory[v.ptr])
             next == IF v.ptr = Null THEN "add" ELSE "swap"
  <1>1. /\ pc[t] = "encode" /\ pc' = [pc EXCEPT ![t] = next]
        /\ memory' = [memory EXCEPT ![v.block] = x]
        /\ AllocationCount' = AllocationCount + 1
        /\ UNCHANGED <<list, mutex, blocks, pointers, local, asserted>>
    BY DEF EncodeHeader, At, Goto
  <1>2. TypesOK /\ CallOK(t) /\ HeldOK(t) /\ HeaderOK(t) /\ PointersOK /\ Gone
    BY InvParts
  <1>3. HasNew(t) /\ v.block \in Header /\ v \in Locals /\ (HasOld(t) <=> v.ptr # Null)
    BY <1>1, <1>2 DEF HeldOK, HasNew, HasOld, TypesOK
  <1>4. v.ptr # Null => /\ v.ptr \in Header /\ v.ptr # v.block
                        /\ memory[v.ptr] # Dead /\ memory[v.ptr] \in Contents
                        /\ memory[v.ptr].RID < MaxReallocations
                        /\ memory[v.ptr].Alloc = v.Alloc
    <2> SUFFICES ASSUME v.ptr # Null
                 PROVE  /\ v.ptr \in Header /\ v.ptr # v.block
                        /\ memory[v.ptr] # Dead /\ memory[v.ptr] \in Contents
                        /\ memory[v.ptr].RID < MaxReallocations
                        /\ memory[v.ptr].Alloc = v.Alloc
      OBVIOUS
    <2>1. HasOld(t) /\ v.ptr \in Header /\ v.ptr # v.block
      BY <1>2, <1>3 DEF HeldOK
    <2>2. Holds(t, v.ptr) /\ Links(t, v.ptr)
      BY <1>1, <2>1 DEF Holds, Links
    <2>3. memory[v.ptr] # Dead /\ memory[v.ptr].Alloc = v.Alloc
      BY <1>2, <2>1, <2>2 DEF HeldOK
    <2>4. QED
      BY <1>1, <1>2, <2>1, <2>3 DEF TypesOK, HeaderOK
  <1>5. x \in Contents /\ x # Dead
    BY <1>3, <1>4, HeaderTypes, DeadIsNoHeader
  <1>6. /\ x.Alloc = v.Alloc
        /\ x.land /\ (v.ptr = Null => x.RID = 0)
        /\ v.ptr # Null => x.ID = memory[v.ptr].ID /\ x.RID = memory[v.ptr].RID + 1
    BY <1>4 DEF FreshHeader, MovedHeader
  <1> HIDE DEF x
  <1>7. /\ memory'[v.block] = x /\ \A h \in Header : h # v.block => memory'[h] = memory[h]
        /\ memory' \in [Header -> Contents \cup {Dead}]
        /\ pc'[t] = next /\ pc' \in [Thread -> Labels]
    BY <1>1, <1>2, <1>3, <1>5 DEF TypesOK, Labels
  <1>8. TypesOK'
    BY <1>1, <1>2, <1>7 DEF TypesOK
  <1>9. StepOf(t)
    BY <1>1, <1>2 DEF TypesOK, StepOf, Others
  <1>10. Holds(t, v.block)
    BY <1>3 DEF Holds
  <1>11. Quiet(t)
    <2>1. \A u \in Others(t), h \in Header : Holds(u, h) => h # v.block
      BY <1>3, <1>10, InvParts
    <2>2. QED
      BY <1>1, <1>7, <2>1, InvParts DEF Quiet
  <1>12. (HasOld(t)' <=> HasOld(t)) /\ HasNew(t)'
    BY <1>1, <1>3, <1>7 DEF HasOld, HasNew
  <1>13. \A h \in Header : (Holds(t, h)' <=> Holds(t, h)) /\ (Links(t, h)' <=> Links(t, h))
    BY <1>1, <1>3, <1>7, <1>12 DEF Holds, Links
  <1>14. ThreadOK(t)'
    <2>1. CallOK(t)'
      BY <1>1, <1>2, <1>7 DEF CallOK
    <2>2. HeldOK(t)'
      <3>1. \A h \in Header : Holds(t, h)' => /\ h \in blocks /\ h \notin pointers
                                              /\ memory'[h] # Dead => memory'[h].Alloc = v.Alloc
        BY <1>2, <1>6, <1>7, <1>13 DEF HeldOK
      <3>2. \A h \in Header : Links(t, h)' => memory'[h] # Dead
        BY <1>2, <1>5, <1>7, <1>13 DEF HeldOK
      <3>3. QED
        BY <1>1, <1>2, <1>12, <1>3, <3>1, <3>2 DEF HeldOK
    <2>3. HeaderOK(t)'
      <3>1. pc'[t] = "swap" => memory'[v.ptr] = memory[v.ptr]
        BY <1>4, <1>7
      <3>2. QED
        BY <1>1, <1>4, <1>5, <1>6, <1>7, <3>1 DEF HeaderOK
    <2>4. QED
      BY <2>1, <2>2, <2>3 DEF ThreadOK
  <1>15. PointersOK' /\ Gone'
    <2>1. v.block \in blocks /\ v.block \notin pointers
      BY <1>2, <1>3, <1>10 DEF HeldOK
    <2>2. QED
      BY <1>1, <1>2, <1>7, <2>1 DEF PointersOK, Gone, TypesOK
  <1>16. FreesAlone'
    <2>1. \A h \in pointers : memory'[h] = memory[h]
      BY <1>2, <1>3, <1>7, <1>10 DEF HeldOK, TypesOK
    <2>2. QED
      BY <1>1, <1>7, <1>9, <2>1, FreesAloneGoesOn
  <1>17. CountOK'
    BY <1>1, <1>7, <1>9, CountKeeps DEF Pending
  <1>18. SameLinks(t)
    BY <1>1, <1>13 DEF SameLinks
  <1>19. QED
    BY <1>8, <1>9, <1>11, <1>13, <1>14, <1>15, <1>16, <1>17, <1>18, StepKeeps

\* A call that has returned.
LEMMA IdleIsOK ==
    ASSUME NEW t \in Thread, pc'[t] = "idle", local'[t] = NoLocal, mutex' # t
    PROVE  ThreadOK(t)' /\ \A h \in Header : ~Holds(t, h)' /\ ~Links(t, h)'
  <1>1. ~HasOld(t)' /\ ~HasNew(t)' /\ \A h \in Header : ~Holds(t, h)' /\ ~Links(t, h)'
    BY DEF HasOld, HasNew, Holds, Links
  <1>2. local'[t].caller = "user"
    BY DEF NoLocal
  <1>3. CallOK(t)' /\ HeldOK(t)' /\ HeaderOK(t)'
    BY <1>1, <1>2 DEF CallOK, HeldOK, HeaderOK
  <1>4. QED
    BY <1>1, <1>3 DEF ThreadOK

LEMMA AddToListStep ==
    ASSUME Inv, NEW t \in Thread, AddToList(t)
    PROVE  Inv' /\ StepOf(t)
  <1> DEFINE b == local[t].block
  <1>1. /\ pc[t] = "add" /\ list' = AddHeader(list, b)
        /\ UNCHANGED <<memory, AllocationCount, mutex, blocks, asserted>>
    BY DEF AddToList, At
  <1>2. TypesOK /\ CallOK(t) /\ HeldOK(t) /\ HeaderOK(t) /\ PointersOK /\ Gone
    BY InvParts
  <1>3. HasNew(t) /\ ~HasOld(t) /\ b \in Header /\ Holds(t, b)
    BY <1>1, <1>2 DEF HeldOK, HasNew, HasOld, Holds
  <1>4. /\ memory[b] # Dead /\ memory[b].Alloc = local[t].Alloc
        /\ b \in blocks /\ b \notin pointers
    BY <1>1, <1>2, <1>3 DEF HeldOK, HeaderOK
  <1>5. list' \in HeaderLists
    BY <1>1, <1>2, <1>3, ListTypes DEF TypesOK
  <1>6. CASE /\ local[t].caller = "user"
             /\ pointers' = pointers \cup {b}
             /\ Return(t)
    <2>1. pc' = [pc EXCEPT ![t] = "idle"] /\ local' = [local EXCEPT ![t] = NoLocal]
      BY <1>6 DEF Return, Goto
    <2>2. pc'[t] = "idle" /\ local'[t] = NoLocal /\ mutex' # t
      BY <1>1, <1>2, <1>6, <2>1 DEF TypesOK, CallOK
    <2>3. TypesOK'
      BY <1>1, <1>2, <1>4, <1>5, <1>6, <2>1, NoLocalIsLocal DEF TypesOK, Labels
    <2>4. StepOf(t)
      BY <1>1, <1>2, <2>1 DEF TypesOK, StepOf, Others
    <2>5. Quiet(t)
      BY <1>1, <1>3, <1>6, InvParts DEF Quiet
    <2>6. ThreadOK(t)' /\ \A h \in Header : ~Holds(t, h)' /\ ~Links(t, h)'
      BY <2>2, IdleIsOK
    <2>7. PointersOK' /\ Gone'
      BY <1>1, <1>2, <1>4, <1>6 DEF PointersOK, Gone, CallOK
    <2>8. FreesAlone'
      BY <1>1, <1>4, <1>6, <2>2, <2>4, FreesAloneGoesOn
    <2>9. CountOK'
      BY <1>1, <2>2, <2>4, CountKeeps DEF Pending
    <2>10. QED
      BY <2>3, <2>4, <2>5, <2>6, <2>7, <2>8, <2>9, StepKeeps
  <1>7. CASE /\ local[t].caller = "report"
             /\ Goto(t, "fill")
             /\ UNCHANGED <<pointers, local>>
    <2>1. pc' = [pc EXCEPT ![t] = "fill"] /\ pc'[t] = "fill"
      BY <1>2, <1>7 DEF Goto, TypesOK
    <2>2. TypesOK'
      BY <1>1, <1>2, <1>5, <1>7, <2>1 DEF TypesOK, Labels
    <2>3. StepOf(t)
      BY <1>1, <1>2, <1>7, <2>1 DEF TypesOK, StepOf, Others
    <2>4. Quiet(t)
      BY <1>1, <1>7, InvParts DEF Quiet
    <2>5. HasNew(t)' /\ ~HasOld(t)' /\ \A h \in Header : (Holds(t, h)' <=> h = b) /\ (Links(t, h)' <=> h = b)
      BY <1>7, <2>1 DEF HasNew, HasOld, Holds, Links
    <2>6. ThreadOK(t)'
      <3>1. CallOK(t)'
        BY <1>1, <1>2, <1>7, <2>1 DEF CallOK
      <3>2. HeldOK(t)'
        BY <1>1, <1>3, <1>4, <1>7, <2>5 DEF HeldOK
      <3>3. HeaderOK(t)'
        BY <2>1 DEF HeaderOK
      <3>4. QED
        BY <3>1, <3>2, <3>3 DEF ThreadOK
    <2>7. PointersOK' /\ Gone'
      BY <1>1, <1>2, <1>7 DEF PointersOK, Gone
    <2>8. FreesAlone'
      BY <1>1, <1>7, <2>1, <2>3, FreesAloneGoesOn
    <2>9. CountOK'
      BY <1>1, <2>1, <2>3, CountKeeps DEF Pending
    <2>10. QED
      BY <1>3, <2>2, <2>3, <2>4, <2>5, <2>6, <2>7, <2>8, <2>9, StepKeeps
  <1>8. QED
    BY <1>6, <1>7 DEF AddToList

-----------------------------------------------------------------------------
(* general_reallocate *)

LEMMA ReallocateStep ==
    ASSUME Inv, NEW t \in Thread, Reallocate(t)
    PROVE  Inv' /\ StepOf(t) /\ SameLinks(t)
  <1>1. PICK h \in pointers, s \in Sizes, lk \in BOOLEAN :
            /\ memory[h].RID < MaxReallocations
            /\ Enter(t, "resize", [NoLocal EXCEPT !.ptr = h, !.Size = s, !.leak = lk,
                                                  !.Alloc = memory[h].Alloc])
            /\ pointers' = pointers \ {h}
    BY DEF Reallocate
  <1>2. /\ pc[t] = "idle" /\ AllocationCount < MaxAllocations
        /\ UNCHANGED <<list, memory, AllocationCount, mutex, blocks>>
    BY DEF Reallocate, At, MayStart
  <1>3. TypesOK /\ CallOK(t) /\ PointersOK /\ Gone
    BY InvParts
  <1>4. h \in Header /\ h \in blocks /\ memory[h] # Dead /\ memory[h].Alloc \in Allocator
    BY <1>3 DEF PointersOK, TypesOK
  <1> DEFINE v == [NoLocal EXCEPT !.ptr = h, !.Size = s, !.leak = lk, !.Alloc = memory[h].Alloc]
  <1>5. /\ v.caller = "user" /\ v.ptr = h /\ v.Alloc = memory[h].Alloc /\ v \in Locals
    BY <1>4, NoLocalIsLocal DEF NoLocal, Locals, Pointer
  <1>6. /\ pc' = [pc EXCEPT ![t] = "resize"] /\ local' = [local EXCEPT ![t] = v]
        /\ asserted' \in BOOLEAN
    BY <1>1 DEF Enter, Goto
  <1> HIDE DEF v
  <1>7. TypesOK'
    BY <1>1, <1>2, <1>3, <1>5, <1>6 DEF TypesOK, Labels
  <1>8. pc'[t] = "resize" /\ local'[t] = v
    BY <1>3, <1>6 DEF TypesOK
  <1>9. StepOf(t)
    BY <1>2, <1>3, <1>6 DEF TypesOK, StepOf, Others
  <1>10. Quiet(t)
    BY <1>1, <1>2, InvParts DEF Quiet
  <1>11. HasOld(t)' /\ ~HasNew(t)' /\ \A g \in Header : (Holds(t, g)' <=> g = h) /\ (Links(t, g)' <=> g = h)
    BY <1>5, <1>8 DEF HasOld, HasNew, Holds, Links
  <1>12. ThreadOK(t)'
    <2>1. mutex' # t
      BY <1>2, <1>3 DEF CallOK, NoLocal
    <2>2. CallOK(t)'
      BY <1>4, <1>5, <1>8, <2>1 DEF CallOK
    <2>3. HeldOK(t)'
      BY <1>1, <1>2, <1>4, <1>5, <1>8, <1>11 DEF HeldOK
    <2>4. HeaderOK(t)'
      BY <1>1, <1>2, <1>5, <1>8 DEF HeaderOK
    <2>5. QED
      BY <2>2, <2>3, <2>4 DEF ThreadOK
  <1>13. PointersOK' /\ Gone'
    BY <1>1, <1>2, <1>3 DEF PointersOK, Gone
  <1>14. FreesAlone'
    <2>1. \A u \in Others(t) : pc[u] = "free_all" => \A g \in pointers : memory[g].Alloc # local[u].Alloc
      BY DEF Inv, FreesAlone, Others
    <2>2. QED
      BY <1>1, <1>2, <1>5, <1>8, <1>9, <2>1, FreesAloneKeeps
  <1>15. CountOK'
    BY <1>2, CountBegins
  <1>16. SameLinks(t)
    BY <1>1, <1>2, <1>4, <1>11 DEF Links, HasOld, SameLinks
  <1>17. QED
    BY <1>7, <1>9, <1>10, <1>11, <1>12, <1>13, <1>14, <1>15, <1>16, StepKeeps

LEMMA ResizeInPlaceStep ==
    ASSUME Inv, NEW t \in Thread, ResizeInPlace(t)
    PROVE  Inv' /\ StepOf(t) /\ SameLinks(t)
  <1> DEFINE v == local[t]
             old == memory[v.ptr]
             x == [old EXCEPT !.RID = @ + 1, !.Size = v.Size, !.land = FALSE]
  <1>1. /\ pc[t] = "resize" /\ pc' = [pc EXCEPT ![t] = "refill"]
        /\ memory' = [memory EXCEPT ![v.ptr] = x]
        /\ local' = [local EXCEPT ![t].block = v.ptr]
        /\ UNCHANGED <<list, AllocationCount, mutex, blocks, pointers, asserted>>
    BY DEF ResizeInPlace, At, Goto
  <1>2. TypesOK /\ CallOK(t) /\ HeldOK(t) /\ HeaderOK(t) /\ PointersOK /\ Gone
    BY InvParts
  <1>3. HasOld(t) /\ v.ptr \in Header /\ v \in Locals /\ Holds(t, v.ptr) /\ Links(t, v.ptr)
    BY <1>1, <1>2 DEF HeldOK, HasOld, TypesOK, Holds, Links
  <1>4. /\ old # Dead /\ old \in Contents /\ old.RID < MaxReallocations /\ old.Alloc = v.Alloc
        /\ v.ptr \in blocks /\ v.ptr \notin pointers
    BY <1>1, <1>2, <1>3 DEF HeldOK, HeaderOK, TypesOK
  <1>5. x \in Contents /\ x # Dead /\ x.Alloc = v.Alloc
    <2>1. old.RID + 1 \in 0..(MaxReallocations + 1)
      BY <1>4, HeapAssumption DEF Contents
    <2>2. x \in Contents /\ x.Alloc = old.Alloc
      BY <1>3, <1>4, <2>1 DEF Contents, Locals
    <2>3. QED
      BY <1>4, <2>2, DeadIsNoHeader
  <1> HIDE DEF x
  <1>6. /\ memory'[v.ptr] = x /\ \A h \in Header : h # v.ptr => memory'[h] = memory[h]
        /\ memory' \in [Header -> Contents \cup {Dead}]
        /\ pc'[t] = "refill" /\ pc' \in [Thread -> Labels]
    BY <1>1, <1>2, <1>3, <1>5 DEF TypesOK, Labels
  <1>7. /\ local'[t].block = v.ptr /\ local'[t].ptr = v.ptr
        /\ local'[t].caller = v.caller /\ local'[t].Alloc = v.Alloc
        /\ local' \in [Thread -> Locals]
    BY <1>1, <1>2, <1>3 DEF TypesOK, Locals, Pointer
  <1>8. TypesOK'
    BY <1>1, <1>2, <1>6, <1>7 DEF TypesOK
  <1>9. StepOf(t)
    BY <1>1, <1>2 DEF TypesOK, StepOf, Others
  <1>10. Quiet(t)
    <2>1. \A u \in Others(t), h \in Header : Holds(u, h) => h # v.ptr
      BY <1>3, InvParts
    <2>2. QED
      BY <1>1, <1>6, <2>1, InvParts DEF Quiet
  <1>11. /\ ~HasOld(t)' /\ HasNew(t)'
         /\ \A h \in Header : (Holds(t, h)' <=> h = v.ptr) /\ (Links(t, h)' <=> h = v.ptr)
    BY <1>6, <1>7 DEF HasOld, HasNew, Holds, Links
  <1>12. ThreadOK(t)'
    <2>1. CallOK(t)'
      BY <1>1, <1>2, <1>6, <1>7 DEF CallOK
    <2>2. HeldOK(t)'
      BY <1>1, <1>3, <1>4, <1>5, <1>6, <1>7, <1>11 DEF HeldOK
    <2>3. HeaderOK(t)'
      BY <1>6 DEF HeaderOK, HasOld
    <2>4. QED
      BY <2>1, <2>2, <2>3 DEF ThreadOK
  <1>13. PointersOK' /\ Gone'
    BY <1>1, <1>2, <1>4, <1>6 DEF PointersOK, Gone, TypesOK
  <1>14. FreesAlone'
    <2>1. \A h \in pointers : memory'[h] = memory[h]
      BY <1>2, <1>4, <1>6 DEF TypesOK
    <2>2. QED
      BY <1>1, <1>6, <1>7, <1>9, <2>1, FreesAloneGoesOn
  <1>15. CountOK'
    BY <1>1, <1>6, <1>9, CountKeeps DEF Pending
  <1>16. SameLinks(t)
    BY <1>1, <1>3, <1>11 DEF Links, SameLinks
  <1>17. QED
    BY <1>3, <1>8, <1>9, <1>10, <1>11, <1>12, <1>13, <1>14, <1>15, <1>16, StepKeeps

LEMMA ResizeFailsStep ==
    ASSUME Inv, NEW t \in Thread, ResizeFails(t)
    PROVE  Inv' /\ StepOf(t) /\ SameLinks(t)
  <1>1. /\ pc[t] = "resize" /\ pc' = [pc EXCEPT ![t] = "block"]
        /\ UNCHANGED <<list, memory, AllocationCount, mutex, blocks, pointers, local, asserted>>
    BY DEF ResizeFails, At, Goto
  <1>2. TypesOK /\ CallOK(t) /\ HeldOK(t) /\ HeaderOK(t) /\ PointersOK /\ Gone
    BY InvParts
  <1>3. HasOld(t) /\ local[t].ptr \in Header /\ local[t].ptr # Null
    BY <1>1, <1>2, HeaderAssumption DEF HeldOK, HasOld
  <1>4. pc'[t] = "block" /\ TypesOK'
    BY <1>1, <1>2 DEF TypesOK, Labels
  <1>5. StepOf(t)
    BY <1>1, <1>2 DEF TypesOK, StepOf, Others
  <1>6. Quiet(t)
    BY <1>1, InvParts DEF Quiet
  <1>7. HasOld(t)' /\ ~HasNew(t)' /\ ~HasNew(t)
    BY <1>1, <1>3, <1>4 DEF HasOld, HasNew
  <1>8. \A h \in Header : (Holds(t, h)' <=> Holds(t, h)) /\ (Links(t, h)' <=> Links(t, h))
    BY <1>1, <1>3, <1>4, <1>7 DEF Holds, Links
  <1>9. ThreadOK(t)'
    <2>1. CallOK(t)'
      BY <1>1, <1>2, <1>4 DEF CallOK
    <2>2. HeldOK(t)'
      BY <1>1, <1>2, <1>3, <1>7, <1>8 DEF HeldOK
    <2>3. HeaderOK(t)'
      BY <1>1, <1>2, <1>3, <1>4 DEF HeaderOK
    <2>4. QED
      BY <2>1, <2>2, <2>3 DEF ThreadOK
  <1>10. PointersOK' /\ Gone'
    BY <1>1, <1>2 DEF PointersOK, Gone
  <1>11. FreesAlone'
    BY <1>1, <1>4, <1>5, FreesAloneGoesOn
  <1>12. CountOK'
    BY <1>1, <1>4, <1>5, CountKeeps DEF Pending
  <1>13. SameLinks(t)
    BY <1>1, <1>8 DEF SameLinks
  <1>14. QED
    BY <1>4, <1>5, <1>6, <1>8, <1>9, <1>10, <1>11, <1>12, <1>13, StepKeeps

LEMMA SwapInListStep ==
    ASSUME Inv, NEW t \in Thread, SwapInList(t)
    PROVE  Inv' /\ StepOf(t)
  <1>1. /\ pc[t] = "swap" /\ pc' = [pc EXCEPT ![t] = "retire"]
        /\ asserted' = SwapFails(list)
        /\ list' = IF SwapFails(list) THEN list ELSE SwapHeader(list, local[t].ptr, local[t].block)
        /\ UNCHANGED <<memory, AllocationCount, mutex, blocks, pointers, local>>
    BY DEF SwapInList, At, Goto
  <1>2. TypesOK /\ CallOK(t) /\ HeldOK(t) /\ HeaderOK(t) /\ PointersOK /\ Gone
    BY InvParts
  <1>3. HasOld(t) /\ HasNew(t) /\ local[t].ptr \in Header /\ local[t].block \in Header
    BY <1>1, <1>2 DEF HeldOK, HasOld, HasNew
  <1>4. list' \in HeaderLists /\ asserted' \in BOOLEAN
    BY <1>1, <1>2, <1>3, ListTypes DEF TypesOK, SwapFails
  <1>5. pc'[t] = "retire" /\ TypesOK'
    BY <1>1, <1>2, <1>4 DEF TypesOK, Labels
  <1>6. StepOf(t)
    BY <1>1, <1>2 DEF TypesOK, StepOf, Others
  <1>7. Quiet(t)
    BY <1>1, InvParts DEF Quiet
  <1>8. HasOld(t)' /\ HasNew(t)'
    BY <1>5 DEF HasOld, HasNew
  <1>9. \A h \in Header : (Holds(t, h)' <=> Holds(t, h)) /\ (Links(t, h)' <=> h = local[t].block)
    BY <1>1, <1>3, <1>5, <1>8 DEF Holds, Links
  <1>10. ThreadOK(t)'
    <2>1. CallOK(t)'
      BY <1>1, <1>2, <1>5 DEF CallOK
    <2>2. HeldOK(t)'
      BY <1>1, <1>2, <1>3, <1>8, <1>9 DEF HeldOK, HeaderOK
    <2>3. HeaderOK(t)'
      BY <1>5 DEF HeaderOK
    <2>4. QED
      BY <2>1, <2>2, <2>3 DEF ThreadOK
  <1>11. PointersOK' /\ Gone'
    BY <1>1, <1>2 DEF PointersOK, Gone
  <1>12. FreesAlone'
    BY <1>1, <1>5, <1>6, FreesAloneGoesOn
  <1>13. CountOK'
    BY <1>1, <1>5, <1>6, CountKeeps DEF Pending
  <1>14. QED
    BY <1>5, <1>6, <1>7, <1>9, <1>10, <1>11, <1>12, <1>13, StepKeeps

LEMMA RetireOldBlockStep ==
    ASSUME Inv, NEW t \in Thread, RetireOldBlock(t)
    PROVE  Inv' /\ StepOf(t) /\ SameLinks(t)
  <1> DEFINE v == local[t]
             x == [memory[v.block] EXCEPT !.MarkedAsLeak = TRUE]
  <1>1. /\ pc[t] = "retire" /\ pc' = [pc EXCEPT ![t] = "refill"]
        /\ memory' = [memory EXCEPT ![v.ptr] = Dead, ![v.block].MarkedAsLeak = TRUE]
        /\ blocks' = blocks \ {v.ptr}
        /\ UNCHANGED <<list, AllocationCount, mutex, pointers, local, asserted>>
    BY DEF RetireOldBlock, At, Goto
  <1>2. TypesOK /\ CallOK(t) /\ HeldOK(t) /\ HeaderOK(t) /\ PointersOK /\ Gone
    BY InvParts
  <1>3. /\ HasOld(t) /\ HasNew(t) /\ v.ptr \in Header /\ v.block \in Header /\ v.ptr # v.block
        /\ Holds(t, v.ptr) /\ Holds(t, v.block) /\ Links(t, v.block)
    BY <1>1, <1>2 DEF HeldOK, HasOld, HasNew, Holds, Links
  <1>4. /\ memory[v.block] # Dead /\ memory[v.block] \in Contents /\ memory[v.block].Alloc = v.Alloc
        /\ v.ptr \notin pointers /\ v.block \in blocks /\ v.block \notin pointers
    BY <1>2, <1>3 DEF HeldOK, TypesOK
  <1>5. x \in Contents /\ x # Dead /\ x.Alloc = v.Alloc
    BY <1>4, DeadIsNoHeader DEF Contents
  <1>6. /\ memory'[v.ptr] = Dead /\ memory'[v.block] = x
        /\ \A h \in Header : h # v.ptr /\ h # v.block => memory'[h] = memory[h]
    BY <1>1, <1>2, <1>3 DEF TypesOK
  <1>7. memory' \in [Header -> Contents \cup {Dead}]
    <2>1. memory' = [h \in Header |-> memory'[h]]
      BY <1>1, <1>2 DEF TypesOK
    <2>2. \A h \in Header : memory'[h] \in Contents \cup {Dead}
      BY <1>2, <1>5, <1>6 DEF TypesOK
    <2>3. QED
      BY <2>1, <2>2
  <1> HIDE DEF x
  <1>8. pc'[t] = "refill" /\ TypesOK'
    BY <1>1, <1>2, <1>4, <1>7 DEF TypesOK, Labels
  <1>9. StepOf(t)
    BY <1>1, <1>2 DEF TypesOK, StepOf, Others
  <1>10. Quiet(t)
    <2>1. \A u \in Others(t), h \in Header : Holds(u, h) => h # v.ptr /\ h # v.block
      BY <1>3, InvParts
    <2>2. QED
      BY <1>1, <1>6, <2>1, InvParts DEF Quiet
  <1>11. /\ ~HasOld(t)' /\ HasNew(t)'
         /\ \A h \in Header : (Holds(t, h)' <=> h = v.block) /\ (Links(t, h)' <=> h = v.block)
    BY <1>1, <1>8 DEF HasOld, HasNew, Holds, Links
  <1>12. ThreadOK(t)'
    <2>1. CallOK(t)'
      BY <1>1, <1>2, <1>8 DEF CallOK
    <2>2. HeldOK(t)'
      BY <1>1, <1>3, <1>4, <1>5, <1>6, <1>11 DEF HeldOK
    <2>3. HeaderOK(t)'
      BY <1>8 DEF HeaderOK
    <2>4. QED
      BY <2>1, <2>2, <2>3 DEF ThreadOK
  <1>13. PointersOK' /\ Gone'
    BY <1>1, <1>2, <1>4, <1>6 DEF PointersOK, Gone, TypesOK
  <1>14. FreesAlone'
    <2>1. \A h \in pointers : memory'[h] = memory[h]
      BY <1>2, <1>4, <1>6 DEF TypesOK
    <2>2. QED
      BY <1>1, <1>8, <1>9, <2>1, FreesAloneGoesOn
  <1>15. CountOK'
    BY <1>1, <1>8, <1>9, CountKeeps DEF Pending
  <1>16. SameLinks(t)
    BY <1>1, <1>11 DEF Links, SameLinks
  <1>17. QED
    BY <1>3, <1>8, <1>9, <1>10, <1>11, <1>12, <1>13, <1>14, <1>15, <1>16, StepKeeps

LEMMA RefillStep ==
    ASSUME Inv, NEW t \in Thread, Refill(t)
    PROVE  Inv' /\ StepOf(t) /\ SameLinks(t)
  <1> DEFINE b == local[t].block
             x == [memory[b] EXCEPT !.land = TRUE]
  <1>1. /\ pc[t] = "refill" /\ pc' = [pc EXCEPT ![t] = "idle"]
        /\ local' = [local EXCEPT ![t] = NoLocal]
        /\ memory' = [memory EXCEPT ![b].land = TRUE]
        /\ pointers' = pointers \cup {b}
        /\ UNCHANGED <<list, AllocationCount, mutex, blocks, asserted>>
    BY DEF Refill, At, Return, Goto
  <1>2. TypesOK /\ CallOK(t) /\ HeldOK(t) /\ HeaderOK(t) /\ PointersOK /\ Gone
    BY InvParts
  <1>3. HasNew(t) /\ b \in Header /\ Holds(t, b) /\ Links(t, b) /\ local[t] \in Locals
    BY <1>1, <1>2 DEF HeldOK, HasNew, Holds, Links, TypesOK
  <1>4. /\ memory[b] # Dead /\ memory[b] \in Contents /\ memory[b].Alloc = local[t].Alloc
        /\ b \in blocks
    BY <1>2, <1>3 DEF HeldOK, TypesOK
  <1>5. x \in Contents /\ x # Dead /\ x.Alloc = local[t].Alloc
    BY <1>4, DeadIsNoHeader DEF Contents
  <1>6. /\ memory'[b] = x /\ \A h \in Header : h # b => memory'[h] = memory[h]
        /\ memory' \in [Header -> Contents \cup {Dead}]
    BY <1>1, <1>2, <1>3, <1>5 DEF TypesOK
  <1> HIDE DEF x
  <1>7. local[t].caller = "user" /\ local[t].Alloc \in Allocator
    BY <1>1, <1>2, <1>3 DEF CallOK, Locals
  <1>8. pc'[t] = "idle" /\ local'[t] = NoLocal /\ mutex' # t
    BY <1>1, <1>2, <1>7 DEF TypesOK, CallOK
  <1>9. TypesOK'
    BY <1>1, <1>2, <1>4, <1>6, NoLocalIsLocal DEF TypesOK, Labels
  <1>10. StepOf(t)
    BY <1>1, <1>2 DEF TypesOK, StepOf, Others
  <1>11. Quiet(t)
    <2>1. \A u \in Others(t), h \in Header : Holds(u, h) => h # b
      BY <1>3, InvParts
    <2>2. QED
      BY <1>1, <1>6, <2>1, InvParts DEF Quiet
  <1>12. ThreadOK(t)' /\ \A h \in Header : ~Holds(t, h)' /\ ~Links(t, h)'
    BY <1>8, IdleIsOK
  <1>13. PointersOK' /\ Gone'
    BY <1>1, <1>2, <1>4, <1>5, <1>6, <1>7 DEF PointersOK, Gone, TypesOK
  <1>14. FreesAlone'
    <2>1. \A h \in pointers : h # b => memory'[h] = memory[h]
      BY <1>2, <1>6 DEF TypesOK
    <2>2. QED
      BY <1>1, <1>5, <1>6, <1>8, <1>10, <2>1, FreesAloneGoesOn
  <1>15. CountOK'
    BY <1>1, <1>8, <1>10, CountKeeps DEF Pending
  <1>16. SameLinks(t)
    BY <1>1, <1>12 DEF Links, HasOld, SameLinks
  <1>17. QED
    BY <1>9, <1>10, <1>11, <1>12, <1>13, <1>14, <1>15, <1>16, StepKeeps

-----------------------------------------------------------------------------
(* general_free and free_all *)

LEMMA FreeStep ==
    ASSUME Inv, NEW t \in Thread, Free(t)
    PROVE  Inv' /\ StepOf(t) /\ SameLinks(t)
  <1>1. PICK h \in pointers :
            /\ Enter(t, "unlink", [NoLocal EXCEPT !.ptr = h, !.Alloc = memory[h].Alloc])
            /\ pointers' = pointers \ {h}
    BY DEF Free
  <1>2. pc[t] = "idle" /\ UNCHANGED <<list, memory, AllocationCount, mutex, blocks>>
    BY DEF Free, At
  <1>3. TypesOK /\ CallOK(t) /\ PointersOK /\ Gone
    BY InvParts
  <1>4. h \in Header /\ h \in blocks /\ memory[h] # Dead /\ memory[h].Alloc \in Allocator
    BY <1>3 DEF PointersOK, TypesOK
  <1> DEFINE v == [NoLocal EXCEPT !.ptr = h, !.Alloc = memory[h].Alloc]
  <1>5. v.caller = "user" /\ v.ptr = h /\ v.Alloc = memory[h].Alloc /\ v \in Locals
    BY <1>4, NoLocalIsLocal DEF NoLocal, Locals, Pointer
  <1>6. /\ pc' = [pc EXCEPT ![t] = "unlink"] /\ local' = [local EXCEPT ![t] = v]
        /\ asserted' \in BOOLEAN
    BY <1>1 DEF Enter, Goto
  <1> HIDE DEF v
  <1>7. TypesOK'
    BY <1>1, <1>2, <1>3, <1>5, <1>6 DEF TypesOK, Labels
  <1>8. pc'[t] = "unlink" /\ local'[t] = v
    BY <1>3, <1>6 DEF TypesOK
  <1>9. StepOf(t)
    BY <1>2, <1>3, <1>6 DEF TypesOK, StepOf, Others
  <1>10. Quiet(t)
    BY <1>1, <1>2, InvParts DEF Quiet
  <1>11. HasOld(t)' /\ ~HasNew(t)' /\ \A g \in Header : (Holds(t, g)' <=> g = h) /\ (Links(t, g)' <=> g = h)
    BY <1>5, <1>8 DEF HasOld, HasNew, Holds, Links
  <1>12. ThreadOK(t)'
    <2>1. mutex' # t
      BY <1>2, <1>3 DEF CallOK, NoLocal
    <2>2. CallOK(t)'
      BY <1>4, <1>5, <1>8, <2>1 DEF CallOK
    <2>3. HeldOK(t)'
      BY <1>1, <1>2, <1>4, <1>5, <1>8, <1>11 DEF HeldOK
    <2>4. HeaderOK(t)'
      BY <1>8 DEF HeaderOK
    <2>5. QED
      BY <2>2, <2>3, <2>4 DEF ThreadOK
  <1>13. PointersOK' /\ Gone'
    BY <1>1, <1>2, <1>3 DEF PointersOK, Gone
  <1>14. FreesAlone'
    <2>1. \A u \in Others(t) : pc[u] = "free_all" => \A g \in pointers : memory[g].Alloc # local[u].Alloc
      BY DEF Inv, FreesAlone, Others
    <2>2. QED
      BY <1>1, <1>2, <1>5, <1>8, <1>9, <2>1, FreesAloneKeeps
  <1>15. CountOK'
    BY <1>2, <1>8, <1>9, CountKeeps
  <1>16. SameLinks(t)
    BY <1>1, <1>2, <1>4, <1>11 DEF Links, HasOld, SameLinks
  <1>17. QED
    BY <1>7, <1>9, <1>10, <1>11, <1>12, <1>13, <1>14, <1>15, <1>16, StepKeeps

LEMMA UnlinkFromListStep ==
    ASSUME Inv, NEW t \in Thread, UnlinkFromList(t)
    PROVE  Inv' /\ StepOf(t)
  <1>1. /\ pc[t] = "unlink" /\ pc' = [pc EXCEPT ![t] = "free"]
        /\ asserted' = UnlinkFails(list, local[t].ptr)
        /\ list' = IF UnlinkFails(list, local[t].ptr) THEN list ELSE UnlinkHeader(list, local[t].ptr)
        /\ UNCHANGED <<memory, AllocationCount, mutex, blocks, pointers, local>>
    BY DEF UnlinkFromList, At, Goto
  <1>2. TypesOK /\ CallOK(t) /\ HeldOK(t) /\ HeaderOK(t) /\ PointersOK /\ Gone
    BY InvParts
  <1>3. HasOld(t) /\ ~HasNew(t) /\ local[t].ptr \in Header
    BY <1>1, <1>2 DEF HeldOK, HasOld, HasNew
  <1>4. list' \in HeaderLists /\ asserted' \in BOOLEAN
    BY <1>1, <1>2, <1>3, ListTypes DEF TypesOK, UnlinkFails
  <1>5. pc'[t] = "free" /\ TypesOK'
    BY <1>1, <1>2, <1>4 DEF TypesOK, Labels
  <1>6. StepOf(t)
    BY <1>1, <1>2 DEF TypesOK, StepOf, Others
  <1>7. Quiet(t)
    BY <1>1, InvParts DEF Quiet
  <1>8. HasOld(t)' /\ ~HasNew(t)'
    BY <1>5 DEF HasOld, HasNew
  <1>9. \A h \in Header : (Holds(t, h)' <=> Holds(t, h)) /\ ~Links(t, h)'
    BY <1>1, <1>3, <1>5, <1>8 DEF Holds, Links
  <1>10. ThreadOK(t)'
    <2>1. CallOK(t)'
      BY <1>1, <1>2, <1>5 DEF CallOK
    <2>2. HeldOK(t)'
      BY <1>1, <1>2, <1>3, <1>8, <1>9 DEF HeldOK
    <2>3. HeaderOK(t)'
      BY <1>5 DEF HeaderOK
    <2>4. QED
      BY <2>1, <2>2, <2>3 DEF ThreadOK
  <1>11. PointersOK' /\ Gone'
    BY <1>1, <1>2 DEF PointersOK, Gone
  <1>12. FreesAlone'
    BY <1>1, <1>5, <1>6, FreesAloneGoesOn
  <1>13. CountOK'
    BY <1>1, <1>5, <1>6, CountKeeps DEF Pending
  <1>14. QED
    BY <1>5, <1>6, <1>7, <1>9, <1>10, <1>11, <1>12, <1>13, StepKeeps

LEMMA FreeBlockStep ==
    ASSUME Inv, NEW t \in Thread, FreeBlock(t)
    PROVE  Inv' /\ StepOf(t) /\ SameLinks(t)
  <1> DEFINE v == local[t]
  <1>1. /\ pc[t] = "free" /\ pc' = [pc EXCEPT ![t] = "idle"]
        /\ local' = [local EXCEPT ![t] = NoLocal]
        /\ memory' = [memory EXCEPT ![v.ptr] = Dead]
        /\ blocks' = blocks \ {v.ptr}
        /\ mutex' = IF v.caller = "report" THEN NoThread ELSE mutex
        /\ UNCHANGED <<list, AllocationCount, pointers, asserted>>
    BY DEF FreeBlock, At, Return, Goto
  <1>2. TypesOK /\ CallOK(t) /\ HeldOK(t) /\ HeaderOK(t) /\ PointersOK /\ Gone
    BY InvParts
  <1>3. HasOld(t) /\ v.ptr \in Header /\ Holds(t, v.ptr) /\ v.ptr \notin pointers
    BY <1>1, <1>2 DEF HeldOK, HasOld, Holds
  <1>4. /\ memory'[v.ptr] = Dead /\ \A h \in Header : h # v.ptr => memory'[h] = memory[h]
        /\ memory' \in [Header -> Contents \cup {Dead}]
    BY <1>1, <1>2, <1>3 DEF TypesOK
  <1>5. pc'[t] = "idle" /\ local'[t] = NoLocal /\ mutex' # t /\ mutex' \in Thread \cup {NoThread}
    BY <1>1, <1>2, HeapAssumption DEF TypesOK, CallOK
  <1>6. TypesOK'
    BY <1>1, <1>2, <1>3, <1>4, <1>5, NoLocalIsLocal DEF TypesOK, Labels
  <1>7. StepOf(t)
    <2>1. \A u \in Others(t) : mutex' = u <=> mutex = u
      BY <1>1, <1>2, HeapAssumption DEF CallOK, Others
    <2>2. QED
      BY <1>1, <1>2, <2>1 DEF TypesOK, StepOf, Others
  <1>8. Quiet(t)
    <2>1. \A u \in Others(t), h \in Header : Holds(u, h) => h # v.ptr
      BY <1>3, InvParts
    <2>2. QED
      BY <1>1, <1>4, <2>1, InvParts DEF Quiet
  <1>9. ThreadOK(t)' /\ \A h \in Header : ~Holds(t, h)' /\ ~Links(t, h)'
    BY <1>5, IdleIsOK
  <1>10. PointersOK' /\ Gone'
    BY <1>1, <1>2, <1>3, <1>4 DEF PointersOK, Gone, TypesOK
  <1>11. FreesAlone'
    <2>1. \A h \in pointers : memory'[h] = memory[h]
      BY <1>2, <1>3, <1>4 DEF TypesOK
    <2>2. QED
      BY <1>1, <1>5, <1>7, <2>1, FreesAloneGoesOn
  <1>12. CountOK'
    BY <1>1, <1>5, <1>7, CountKeeps DEF Pending
  <1>13. SameLinks(t)
    BY <1>1, <1>9 DEF Links, SameLinks
  <1>14. QED
    BY <1>6, <1>7, <1>8, <1>9, <1>10, <1>11, <1>12, <1>13, StepKeeps

LEMMA FreeAllStep ==
    ASSUME Inv, NEW t \in Thread, FreeAll(t)
    PROVE  Inv' /\ StepOf(t)
  <1>1. PICK a \in FreesAll :
            /\ \A u \in Thread : pc[u] # "idle" => local[u].Alloc # a
            /\ list' = UnlinkAll(list)
            /\ pointers' = pointers \ OfAllocator(a)
            /\ local' = [local EXCEPT ![t] = [NoLocal EXCEPT !.Alloc = a]]
    BY DEF FreeAll
  <1>2. /\ pc[t] = "idle" /\ pc' = [pc EXCEPT ![t] = "free_all"]
        /\ UNCHANGED <<memory, AllocationCount, mutex, blocks, asserted>>
    BY DEF FreeAll, At, Goto
  <1>3. TypesOK /\ CallOK(t) /\ PointersOK /\ Gone
    BY InvParts
  <1> DEFINE v == [NoLocal EXCEPT !.Alloc = a]
  <1>4. v.caller = "user" /\ v.Alloc = a /\ v \in Locals /\ a \in Allocator
    BY HeapAssumption, NoLocalIsLocal DEF NoLocal, Locals
  <1>5. local' = [local EXCEPT ![t] = v]
    BY <1>1
  <1> HIDE DEF v
  <1>6. list' \in HeaderLists
    BY <1>1, <1>3, UnlinkAllType DEF TypesOK
  <1>7. TypesOK'
    BY <1>1, <1>2, <1>3, <1>4, <1>5, <1>6 DEF TypesOK, Labels
  <1>8. pc'[t] = "free_all" /\ local'[t] = v
    BY <1>2, <1>3, <1>5 DEF TypesOK
  <1>9. StepOf(t)
    BY <1>2, <1>3, <1>5 DEF TypesOK, StepOf, Others
  <1>10. Quiet(t)
    BY <1>1, <1>2, InvParts DEF Quiet
  <1>11. ~HasOld(t)' /\ ~HasNew(t)' /\ \A h \in Header : ~Holds(t, h)' /\ ~Links(t, h)'
    BY <1>8 DEF HasOld, HasNew, Holds, Links
  <1>12. ThreadOK(t)'
    <2>1. mutex' # t
      BY <1>2, <1>3 DEF CallOK, NoLocal
    <2>2. CallOK(t)'
      BY <1>4, <1>8, <2>1 DEF CallOK
    <2>3. HeldOK(t)' /\ HeaderOK(t)'
      BY <1>8, <1>11 DEF HeldOK, HeaderOK
    <2>4. QED
      BY <2>2, <2>3 DEF ThreadOK
  <1>13. PointersOK' /\ Gone'
    BY <1>1, <1>2, <1>3 DEF PointersOK, Gone
  <1>14. FreesAlone'
    <2> SUFFICES ASSUME NEW w \in Thread, pc'[w] = "free_all"
                 PROVE  /\ \A u \in Thread : u # w /\ pc'[u] # "idle" => local'[u].Alloc # local'[w].Alloc
                        /\ \A h \in pointers' : memory'[h].Alloc # local'[w].Alloc
      BY DEF FreesAlone
    <2>1. \A u \in Others(t) : pc'[u] = pc[u] /\ local'[u] = local[u]
      BY <1>9 DEF StepOf
    <2>2. CASE w = t
      <3>1. \A u \in Thread : u # t /\ pc'[u] # "idle" => local'[u].Alloc # a
        BY <1>1, <2>1 DEF Others
      <3>2. \A h \in pointers' : memory[h].Alloc # a
        <4>1. \A h \in pointers : h \in blocks /\ memory[h] # Dead
          BY <1>3 DEF PointersOK, TypesOK
        <4>2. QED
          BY <1>1, <4>1 DEF OfAllocator
      <3>3. QED
        BY <1>2, <1>4, <1>8, <2>2, <3>1, <3>2
    <2>3. CASE w # t
      <3>1. w \in Others(t) /\ pc[w] = "free_all" /\ local'[w] = local[w]
        BY <2>1, <2>3 DEF Others
      <3>2. /\ \A u \in Thread : u # w /\ pc[u] # "idle" => local[u].Alloc # local[w].Alloc
            /\ \A h \in pointers : memory[h].Alloc # local[w].Alloc
        BY <3>1 DEF Inv, FreesAlone
      <3>3. a # local[w].Alloc
        BY <1>1, <3>1
      <3>4. \A u \in Thread : u # w /\ pc'[u] # "idle" => local'[u].Alloc # local[w].Alloc
        BY <1>4, <1>8, <2>1, <3>2, <3>3 DEF Others
      <3>5. QED
        BY <1>1, <1>2, <3>1, <3>2, <3>4
    <2>4. QED
      BY <2>2, <2>3
  <1>15. CountOK'
    BY <1>2, <1>8, <1>9, CountKeeps
  <1>16. QED
    BY <1>7, <1>9, <1>10, <1>11, <1>12, <1>13, <1>14, <1>15, StepKeeps

LEMMA FreeAllBlocksStep ==
    ASSUME Inv, NEW t \in Thread, FreeAllBlocks(t)
    PROVE  Inv' /\ StepOf(t) /\ SameLinks(t)
  <1> DEFINE freed == OfAllocator(local[t].Alloc)
  <1>1. /\ pc[t] = "free_all" /\ pc' = [pc EXCEPT ![t] = "idle"]
        /\ local' = [local EXCEPT ![t] = NoLocal]
        /\ blocks' = blocks \ freed
        /\ memory' = [h \in Header |-> IF h \in freed THEN Dead ELSE memory[h]]
        /\ UNCHANGED <<list, AllocationCount, mutex, pointers, asserted>>
    BY DEF FreeAllBlocks, At, Return, Goto
  <1>2. TypesOK /\ CallOK(t) /\ PointersOK /\ Gone
    BY InvParts
  <1>3. \A h \in freed : memory[h] # Dead /\ memory[h].Alloc = local[t].Alloc
    BY DEF OfAllocator
  <1>4. /\ \A u \in Others(t) : pc[u] # "idle" => local[u].Alloc # local[t].Alloc
        /\ \A h \in pointers : memory[h].Alloc # local[t].Alloc
    BY <1>1 DEF Inv, FreesAlone, Others
  <1> HIDE DEF freed
  <1>5. local[t].caller = "user"
    BY <1>1, <1>2 DEF CallOK, TypesOK, Locals
  <1>6. pc'[t] = "idle" /\ local'[t] = NoLocal /\ mutex' # t
    BY <1>1, <1>2, <1>5 DEF TypesOK, CallOK
  <1>7. \A h \in pointers : h \notin freed /\ memory'[h] = memory[h]
    BY <1>1, <1>2, <1>3, <1>4 DEF TypesOK
  <1>8. TypesOK'
    BY <1>1, <1>2, <1>7, NoLocalIsLocal DEF TypesOK, Labels
  <1>9. StepOf(t)
    BY <1>1, <1>2 DEF TypesOK, StepOf, Others
  <1>10. Quiet(t)
    <2> SUFFICES ASSUME NEW u \in Others(t), NEW h \in Header, Holds(u, h)
                 PROVE  memory'[h] = memory[h] /\ h \in blocks' /\ h \notin pointers'
      BY DEF Quiet
    <2>1. pc[u] # "idle"
      BY DEF Holds, HasOld, HasNew
    <2>2. memory[h] # Dead => memory[h].Alloc = local[u].Alloc
      BY DEF Inv, ThreadOK, HeldOK, Others
    <2>3. h \notin freed
      BY <1>3, <1>4, <2>1, <2>2
    <2>4. QED
      BY <1>1, <2>3, InvParts
  <1>11. ThreadOK(t)' /\ \A h \in Header : ~Holds(t, h)' /\ ~Links(t, h)'
    BY <1>6, IdleIsOK
  <1>12. PointersOK' /\ Gone'
    BY <1>1, <1>2, <1>7 DEF PointersOK, Gone
  <1>13. FreesAlone'
    BY <1>1, <1>6, <1>7, <1>9, FreesAloneGoesOn
  <1>14. CountOK'
    BY <1>1, <1>6, <1>9, CountKeeps DEF Pending
  <1>15. SameLinks(t)
    BY <1>1, <1>11 DEF Links, HasOld, SameLinks
  <1>16. QED
    BY <1>8, <1>9, <1>10, <1>11, <1>12, <1>13, <1>14, <1>15, StepKeeps

-----------------------------------------------------------------------------
(* debug_memory::report_leaks *)

LEMMA ReportStep ==
    ASSUME Inv, NEW t \in Thread, Report(t)
    PROVE  Inv' /\ StepOf(t) /\ SameLinks(t)
  <1> DEFINE n == Cardinality({h \in Listed(list) : ~memory[h].MarkedAsLeak})
             v == [NoLocal EXCEPT !.caller = "report", !.leaksCount = n]
  <1>1. /\ pc[t] = "idle" /\ AllocationCount < MaxAllocations
        /\ Enter(t, "block", v) /\ mutex' = t
        /\ UNCHANGED <<list, memory, AllocationCount, blocks, pointers>>
    BY DEF Report, At, MayStart
  <1>2. TypesOK /\ CallOK(t) /\ PointersOK /\ Gone
    BY InvParts
  <1>3. n \in Nat
    <2>1. IsFiniteSet(Listed(list))
      BY <1>2, WalkType DEF TypesOK
    <2>2. IsFiniteSet({h \in Listed(list) : ~memory[h].MarkedAsLeak})
      BY <2>1, FS_Subset
    <2>3. QED
      BY <2>2, FS_CardinalityType
  <1> HIDE DEF n
  <1>4. v.caller = "report" /\ v.ptr = Null /\ v.Alloc = Persistent /\ v \in Locals
    BY <1>3, NoLocalIsLocal DEF NoLocal, Locals
  <1>5. /\ pc' = [pc EXCEPT ![t] = "block"] /\ local' = [local EXCEPT ![t] = v]
        /\ asserted' \in BOOLEAN /\ mutex \in {NoThread, t}
    BY <1>1 DEF Enter, Goto, CanLock
  <1> HIDE DEF v
  <1>6. TypesOK'
    BY <1>1, <1>2, <1>4, <1>5 DEF TypesOK, Labels
  <1>7. pc'[t] = "block" /\ local'[t] = v
    BY <1>2, <1>5 DEF TypesOK
  <1>8. StepOf(t)
    <2>1. \A u \in Others(t) : mutex' = u <=> mutex = u
      BY <1>1, <1>5, HeapAssumption DEF Others
    <2>2. QED
      BY <1>2, <1>5, <2>1 DEF TypesOK, StepOf, Others
  <1>9. Quiet(t)
    BY <1>1, InvParts DEF Quiet
  <1>10. ~HasOld(t)' /\ ~HasNew(t)' /\ \A h \in Header : ~Holds(t, h)' /\ ~Links(t, h)'
    BY <1>4, <1>7 DEF HasOld, HasNew, Holds, Links
  <1>11. ThreadOK(t)'
    <2>1. CallOK(t)'
      BY <1>1, <1>4, <1>7 DEF CallOK
    <2>2. HeldOK(t)' /\ HeaderOK(t)'
      BY <1>7, <1>10 DEF HeldOK, HeaderOK
    <2>3. QED
      BY <2>1, <2>2 DEF ThreadOK
  <1>12. PointersOK' /\ Gone'
    BY <1>1, <1>2 DEF PointersOK, Gone
  <1>13. FreesAlone'
    <2>1. \A u \in Others(t) : pc[u] = "free_all" => local[u].Alloc # Persistent
      BY HeapAssumption DEF Inv, ThreadOK, CallOK, Others
    <2>2. \A u \in Others(t) : pc[u] = "free_all" => \A h \in pointers' : memory'[h].Alloc # local[u].Alloc
      BY <1>1 DEF Inv, FreesAlone, Others
    <2>3. QED
      BY <1>4, <1>7, <1>8, <2>1, <2>2, FreesAloneKeeps
  <1>14. CountOK'
    BY <1>1, CountBegins
  <1>15. SameLinks(t)
    BY <1>1, <1>10 DEF Links, HasOld, SameLinks
  <1>16. QED
    BY <1>6, <1>8, <1>9, <1>10, <1>11, <1>12, <1>13, <1>14, <1>15, StepKeeps

LEMMA FillLeaksStep ==
    ASSUME Inv, NEW t \in Thread, FillLeaks(t)
    PROVE  Inv' /\ StepOf(t) /\ SameLinks(t)
  <1> DEFINE b == local[t].block
             v == [local[t] EXCEPT !.ptr = b, !.leaks = LeaksFound(b)]
  <1>1. /\ pc[t] = "fill" /\ Enter(t, "unlink", v)
        /\ UNCHANGED <<list, memory, AllocationCount, mutex, blocks, pointers>>
    BY DEF FillLeaks, At
  <1>2. TypesOK /\ CallOK(t) /\ HeldOK(t) /\ HeaderOK(t) /\ PointersOK /\ Gone
    BY InvParts
  <1>3. HasNew(t) /\ b \in Header /\ local[t] \in Locals /\ Holds(t, b) /\ Links(t, b)
    BY <1>1, <1>2 DEF HeldOK, HasNew, TypesOK, Holds, Links
  <1>4. LeaksFound(b) \subseteq Header
    BY <1>2, WalkType DEF TypesOK, LeaksFound
  <1>5. v \in Locals /\ v.ptr = b /\ v.caller = local[t].caller /\ v.Alloc = local[t].Alloc
    BY <1>3, <1>4 DEF Locals, Pointer
  <1>6. /\ pc' = [pc EXCEPT ![t] = "unlink"] /\ local' = [local EXCEPT ![t] = v]
        /\ asserted' \in BOOLEAN
    BY <1>1 DEF Enter, Goto
  <1> HIDE DEF v
  <1>7. TypesOK'
    BY <1>1, <1>2, <1>5, <1>6 DEF TypesOK, Labels
  <1>8. pc'[t] = "unlink" /\ local'[t] = v
    BY <1>2, <1>6 DEF TypesOK
  <1>9. StepOf(t)
    BY <1>1, <1>2, <1>6 DEF TypesOK, StepOf, Others
  <1>10. Quiet(t)
    BY <1>1, InvParts DEF Quiet
  <1>11. HasOld(t)' /\ ~HasNew(t)' /\ \A g \in Header : (Holds(t, g)' <=> g = b) /\ (Links(t, g)' <=> g = b)
    BY <1>5, <1>8 DEF HasOld, HasNew, Holds, Links
  <1>12. ThreadOK(t)'
    <2>1. CallOK(t)'
      BY <1>1, <1>2, <1>5, <1>8 DEF CallOK
    <2>2. HeldOK(t)'
      BY <1>1, <1>2, <1>3, <1>5, <1>8, <1>11 DEF HeldOK
    <2>3. HeaderOK(t)'
      BY <1>8 DEF HeaderOK
    <2>4. QED
      BY <2>1, <2>2, <2>3 DEF ThreadOK
  <1>13. PointersOK' /\ Gone'
    BY <1>1, <1>2 DEF PointersOK, Gone
  <1>14. FreesAlone'
    BY <1>1, <1>5, <1>8, <1>9, FreesAloneGoesOn
  <1>15. CountOK'
    BY <1>1, <1>8, <1>9, CountKeeps
  <1>16. SameLinks(t)
    BY <1>1, <1>11 DEF Links, HasOld, SameLinks
  <1>17. QED
    BY <1>3, <1>7, <1>9, <1>10, <1>11, <1>12, <1>13, <1>14, <1>15, <1>16, StepKeeps

-----------------------------------------------------------------------------
(* Types and blocks, whatever free_all does to the list *)

LEMMA StutterInv == Inv /\ UNCHANGED vars => Inv'
  <1> SUFFICES ASSUME Inv, UNCHANGED vars
               PROVE  Inv'
    OBVIOUS
  <1>1. /\ list' = list /\ memory' = memory /\ AllocationCount' = AllocationCount /\ mutex' = mutex
        /\ blocks' = blocks /\ pointers' = pointers /\ pc' = pc /\ local' = local /\ asserted' = asserted
    BY DEF vars
  <1>2. TypesOK' /\ PointersOK' /\ Gone' /\ FreesAlone'
    BY <1>1 DEF Inv, TypesOK, PointersOK, Gone, FreesAlone
  <1>3. CountOK'
    BY <1>1 DEF Inv, CountOK, Pending
  <1>4. \A t \in Thread : ThreadOK(t)'
    BY <1>1 DEF Inv, ThreadOK, CallOK, HeldOK, HeaderOK, Holds, Links, HasOld, HasNew
  <1>5. Apart'
    BY <1>1 DEF Inv, Apart, Holds, HasOld, HasNew
  <1>6. QED
    BY <1>2, <1>3, <1>4, <1>5 DEF Inv

LEMMA NextInv == Inv /\ [Next]_vars => Inv'
  <1> SUFFICES ASSUME Inv, [Next]_vars
               PROVE  Inv'
    OBVIOUS
  <1>1. ASSUME NEW t \in Thread, Call(t)
        PROVE  Inv'
    BY <1>1, AllocateStep, ReallocateStep, FreeStep, FreeAllStep, ReportStep DEF Call
  <1>2. ASSUME NEW t \in Thread, Continue(t)
        PROVE  Inv'
    BY <1>2, AllocateBlockStep, EncodeReadsCountStep, EncodeHeaderStep, AddToListStep,
       ResizeInPlaceStep, ResizeFailsStep, SwapInListStep, RetireOldBlockStep, RefillStep,
       UnlinkFromListStep, FreeBlockStep, FreeAllBlocksStep, FillLeaksStep DEF Continue
  <1>3. CASE UNCHANGED vars
    BY <1>3, StutterInv
  <1>4. QED
    BY <1>1, <1>2, <1>3 DEF Next, Rest

LEMMA AlwaysInv == Spec => []Inv
  BY InitInv, NextInv, PTL DEF Spec

\* Whatever threads, allocators and sizes there are, and even where free_all drops
\* the headers of other allocators: the mutex is kept between sections by
\* report_leaks only, memory holds headers with an ID and an RID in range or is
\* dead, every usable pointer is a block, and the count stays in its bound.
THEOREM TypesAreKept == Spec => []TypeOK
  <1>1. Inv => TypeOK
    <2> SUFFICES ASSUME Inv
                 PROVE  TypeOK
      OBVIOUS
    <2>1. TypesOK /\ CountOK /\ \A t \in Thread : CallOK(t)
      BY DEF Inv, ThreadOK
    <2>2. Cardinality(Pending) \in Nat /\ Cardinality(Thread) \in Nat
      <3>1. Pending \subseteq Thread /\ IsFiniteSet(Thread)
        BY HeapAssumption DEF Pending
      <3>2. QED
        BY <3>1, FS_Subset, FS_CardinalityType
    <2>3. AllocationCount \in 0..(MaxAllocations + Cardinality(Thread))
      BY <2>1, <2>2, HeapAssumption DEF TypesOK, CountOK
    <2>4. mutex # NoThread => mutex \in Thread /\ local[mutex].caller = "report"
      BY <2>1 DEF TypesOK, CallOK
    <2>5. QED
      BY <2>1, <2>3, <2>4 DEF TypeOK, TypesOK
  <1>2. QED
    BY <1>1, AlwaysInv, PTL

-----------------------------------------------------------------------------
(* The list, where free_all has only the headers of its own allocator to drop *)

\* An allocator whose memory can be freed at once is the only one user code has:
\* free_all unlinks the headers of every allocator.
OneToFree == \A a \in FreesAll, b \in Allocator : a = b

\* The list is a list of the headers that should be in it.
ListOK == IsListOf(list, Linked)

\* t has resized the block of h in place and not yet written the no man's land
\* behind its new end.
Resizing(t, h) == /\ pc[t] = "refill" /\ local[t].ptr = h /\ local[t].block = h
                  /\ local[t].Alloc \in InPlace

LandOK == \A h \in Linked : memory[h].land \/ \E t \in Thread : Resizing(t, h)

\* The leaks report_leaks counts are those it finds later.
Unmarked == {h \in Linked : ~memory[h].MarkedAsLeak}

LeaksOf(t) == LET v == local[t] IN
    /\ Cardinality(v.leaks) <= v.leaksCount
    /\ v.caller = "report" /\ pc[t] \in {"block", "count", "encode", "add"} =>
            Cardinality(Unmarked) <= v.leaksCount
    /\ pc[t] = "fill" => Cardinality(Unmarked \ {v.block}) <= v.leaksCount

\* An assert needs a resize in place under way in another thread.
AssertOK == asserted => \E t, u \in Thread, h \in Header : t # u /\ Resizing(u, h)

Heap == /\ Inv /\ ListOK /\ LandOK /\ AssertOK
        /\ \A t \in Thread : LeaksOf(t)

\* What the headers in the list say of their allocations stays.
SameEntries == /\ Linked' = Linked
               /\ \A h \in Linked : memory'[h].ID = memory[h].ID /\ memory'[h].RID = memory[h].RID

\* A header another thread has in the list.
OthersLink(t, h) == \E u \in Others(t) : Links(u, h)

\* The headers that should be in the list are those of user code and those calls
\* link.
LinkedByCalls ==
    /\ Linked \subseteq Header
    /\ \A h \in Header : h \in Linked <=> h \in pointers \/ \E t \in Thread : Links(t, h)

LEMMA LinkedIs == Inv => LinkedByCalls
  <1> SUFFICES ASSUME Inv
               PROVE  LinkedByCalls
    OBVIOUS
  <1> DEFINE ByPtr(t) == \/ pc[t] \in {"resize", "swap", "unlink"}
                         \/ local[t].ptr # Null /\ pc[t] \in {"block", "count", "encode"}
             ByBlock(t) == pc[t] \in {"retire", "refill", "fill"}
  <1>1. \A t \in Thread : HeldOK(t)
    BY DEF Inv, ThreadOK
  <1>2. \A t \in Thread : ByPtr(t) <=> HasOld(t) /\ pc[t] \notin {"retire", "free"}
    BY DEF HasOld
  <1>3. \A t \in Thread : ByPtr(t) => local[t].ptr \in Header
    BY <1>1, <1>2 DEF HeldOK
  <1>4. \A t \in Thread : ByBlock(t) => local[t].block \in Header
    BY <1>1 DEF HasNew, HeldOK
  <1>5. pointers \subseteq Header
    BY DEF Inv, TypesOK
  <1>6. Linked = pointers \cup {local[t].ptr : t \in {u \in Thread : ByPtr(u)}}
                         \cup {local[t].block : t \in {u \in Thread : ByBlock(u)}}
    BY DEF Linked
  <1>7. \A t \in Thread, h \in Header : Links(t, h) <=> (ByPtr(t) /\ h = local[t].ptr) \/ (ByBlock(t) /\ h = local[t].block)
    BY <1>2 DEF Links
  <1> HIDE DEF ByPtr, ByBlock
  <1>8. \A h : h \in Linked <=> \/ h \in pointers
                                \/ \E t \in Thread : ByPtr(t) /\ h = local[t].ptr
                                \/ \E t \in Thread : ByBlock(t) /\ h = local[t].block
    BY <1>6
  <1>9. QED
    BY <1>3, <1>4, <1>5, <1>7, <1>8 DEF LinkedByCalls

LEMMA LinkedAround ==
    ASSUME Inv, Inv', NEW t \in Thread, StepOf(t)
    PROVE  /\ Linked \subseteq Header /\ Linked' \subseteq Header
           /\ \A h \in Header : h \in Linked <=> h \in pointers \/ Links(t, h) \/ OthersLink(t, h)
           /\ \A h \in Header : h \in Linked' <=> h \in pointers' \/ Links(t, h)' \/ OthersLink(t, h)
           /\ \A h \in Header : OthersLink(t, h) => h \notin pointers /\ ~Holds(t, h)
  <1>1. /\ Linked \subseteq Header
        /\ \A h \in Header : h \in Linked <=> h \in pointers \/ \E u \in Thread : Links(u, h)
    BY LinkedIs DEF LinkedByCalls
  <1>2. /\ Linked' \subseteq Header
        /\ \A h \in Header : h \in Linked' <=> h \in pointers' \/ \E u \in Thread : Links(u, h)'
    <2>1. LinkedByCalls'
      BY LinkedIs, PTL
    <2>2. QED
      BY <2>1 DEF LinkedByCalls
  <1>3. \A u \in Others(t), h \in Header : Links(u, h)' <=> Links(u, h)
    BY DEF StepOf, Links, HasOld
  <1>4. \A h \in Header : (\E u \in Thread : Links(u, h)) <=> Links(t, h) \/ OthersLink(t, h)
    BY DEF OthersLink, Others
  <1>5. \A h \in Header : (\E u \in Thread : Links(u, h)') <=> Links(t, h)' \/ OthersLink(t, h)
    BY <1>3 DEF OthersLink, Others
  <1>6. \A u \in Others(t), h \in Header : Links(u, h) => Holds(u, h)
    BY DEF Links, Holds, HasNew
  <1>7. \A h \in Header : OthersLink(t, h) => h \notin pointers /\ ~Holds(t, h)
    BY <1>6, InvParts DEF OthersLink
  <1>8. QED
    BY <1>1, <1>2, <1>4, <1>5, <1>7

\* What is linked is not dead.
LEMMA LinkedLives ==
    ASSUME Inv
    PROVE  \A h \in Linked : h \in Header /\ h \in blocks /\ memory[h] # Dead /\ memory[h] \in Contents
  <1>1. \A t \in Thread, h \in Header : Links(t, h) => Holds(t, h)
    BY DEF Links, Holds, HasNew
  <1>2. \A t \in Thread, h \in Header : Links(t, h) => memory[h] # Dead /\ h \in blocks
    BY <1>1 DEF Inv, ThreadOK, HeldOK
  <1>3. \A h \in pointers : memory[h] # Dead /\ h \in blocks
    BY DEF Inv, PointersOK, TypesOK
  <1>4. \A h \in Linked : h \in Header /\ h \in blocks /\ memory[h] # Dead
    BY <1>2, <1>3, LinkedIs DEF LinkedByCalls
  <1>5. QED
    BY <1>4 DEF Inv, TypesOK

LEMMA UnmarkedIsFinite ==
    ASSUME Inv
    PROVE  IsFiniteSet(Unmarked)
  <1>1. Unmarked \subseteq Header
    BY LinkedIs DEF Unmarked, LinkedByCalls
  <1>2. QED
    BY <1>1, HeaderAssumption, FS_Subset

\* Fewer unmarked headers, the same call of report_leaks.
LEMMA LeaksShrink ==
    ASSUME Inv, Inv', NEW t \in Thread, LeaksOf(t), Unmarked' \subseteq Unmarked,
           local'[t].leaks = local[t].leaks, local'[t].leaksCount = local[t].leaksCount,
           local'[t].caller = local[t].caller,
           pc'[t] \in {"block", "count", "encode", "add"} => pc[t] \in {"block", "count", "encode", "add"} \/ local[t].caller = "user",
           pc'[t] = "fill" => pc[t] = "fill" /\ local'[t].block = local[t].block
    PROVE  LeaksOf(t)'
  <1>1. IsFiniteSet(Unmarked) /\ IsFiniteSet(Unmarked \ {local[t].block})
    BY UnmarkedIsFinite, FS_Subset
  <1>2. Cardinality(Unmarked') <= Cardinality(Unmarked) /\ Cardinality(Unmarked) \in Nat /\ Cardinality(Unmarked') \in Nat
    BY <1>1, FS_Subset, FS_CardinalityType
  <1>3. /\ Unmarked' \ {local[t].block} \subseteq Unmarked \ {local[t].block}
        /\ Cardinality(Unmarked' \ {local[t].block}) <= Cardinality(Unmarked \ {local[t].block})
        /\ Cardinality(Unmarked \ {local[t].block}) \in Nat
        /\ Cardinality(Unmarked' \ {local[t].block}) \in Nat
    BY <1>1, FS_Subset, FS_CardinalityType
  <1>4. local[t].leaksCount \in Nat
    BY DEF Inv, TypesOK, Locals
  <1>5. QED
    BY <1>2, <1>3, <1>4 DEF LeaksOf

\* The parts of the second invariant together.
LEMMA HeapKeeps ==
    ASSUME Heap, Inv', NEW t \in Thread, StepOf(t), ListOK', LandOK', AssertOK', LeaksOf(t)',
           \A u \in Others(t) : mutex = u => Unmarked' \subseteq Unmarked
    PROVE  Heap'
  <1>1. ASSUME NEW u \in Others(t)
        PROVE  LeaksOf(u)'
    <2>1. u \in Thread /\ pc'[u] = pc[u] /\ local'[u] = local[u] /\ LeaksOf(u) /\ Inv /\ CallOK(u)
      BY DEF Heap, Inv, ThreadOK, Others, StepOf
    <2>2. CASE local[u].caller = "report"
      <3>1. Unmarked' \subseteq Unmarked
        BY <2>1, <2>2 DEF CallOK
      <3>2. QED
        BY <2>1, <2>2, <3>1, LeaksShrink
    <2>3. CASE local[u].caller # "report"
      BY <2>1, <2>3 DEF LeaksOf, CallOK
    <2>4. QED
      BY <2>2, <2>3
  <1>2. \A u \in Thread : LeaksOf(u)'
    BY <1>1, Zenon DEF Others
  <1>3. QED
    BY <1>2, Zenon DEF Heap

LEMMA LandKeeps ==
    ASSUME Heap, Inv', NEW t \in Thread, StepOf(t),
           \A h \in Linked' : \/ memory'[h].land
                             \/ Resizing(t, h)'
                             \/ /\ h \in Linked /\ ~Resizing(t, h)
                                /\ memory[h].land => memory'[h].land
    PROVE  LandOK'
  <1> SUFFICES ASSUME NEW h \in Linked'
               PROVE  memory'[h].land \/ \E u \in Thread : Resizing(u, h)'
    BY DEF LandOK
  <1>1. CASE memory'[h].land \/ Resizing(t, h)'
    BY <1>1
  <1>2. CASE /\ h \in Linked /\ ~Resizing(t, h)
             /\ memory[h].land => memory'[h].land
    <2>1. memory[h].land \/ \E u \in Thread : Resizing(u, h)
      BY <1>2 DEF Heap, LandOK
    <2>2. \A u \in Others(t) : Resizing(u, h)' <=> Resizing(u, h)
      BY DEF StepOf, Resizing
    <2>3. QED
      BY <1>2, <2>1, <2>2 DEF Others
  <1>3. QED
    BY <1>1, <1>2

\* A verified heap that fails has a header another thread is resizing.
LEMMA EnterAsserts ==
    ASSUME Heap, NEW t \in Thread, StepOf(t), pc[t] # "refill",
           NEW label, NEW args, Enter(t, label, args)
    PROVE  AssertOK'
  <1> SUFFICES ASSUME asserted'
               PROVE  \E u \in Others(t), h \in Header : Resizing(u, h)'
    <2>1. (\E u \in Others(t), h \in Header : Resizing(u, h)') =>
            \E w, u \in Thread, h \in Header : w # u /\ Resizing(u, h)'
      BY DEF Others
    <2>2. QED
      BY <2>1 DEF AssertOK
  <1>1. Listed(list) = Linked
    BY ListedIs DEF Heap, ListOK, Inv, TypesOK
  <1>2. \E h \in Linked : ~VerifyHeader(h)
    BY <1>1 DEF Enter, HeapVerifies
  <1>3. PICK h \in Linked : ~memory[h].land
    BY <1>2, LinkedLives DEF Heap, VerifyHeader
  <1>4. PICK u \in Thread : Resizing(u, h)
    BY <1>3 DEF Heap, LandOK
  <1>5. u \in Others(t) /\ h \in Header
    BY <1>4, LinkedLives DEF Heap, Resizing, Others
  <1>6. Resizing(u, h)'
    BY <1>4, <1>5 DEF StepOf, Resizing
  <1>7. QED
    BY <1>5, <1>6

LEMMA SameLinked ==
    ASSUME Inv, Inv', NEW t \in Thread, StepOf(t), SameLinks(t)
    PROVE  Linked' = Linked
  <1>1. \A h \in Header : h \in Linked' <=> h \in Linked
    BY LinkedAround DEF SameLinks
  <1>2. QED
    BY <1>1, LinkedAround

\* Steps that leave the headers of the list as they are.
LEMMA QuietSteps ==
    ASSUME Heap, Inv', NEW t \in Thread, StepOf(t), SameLinks(t), pc[t] # "refill",
           IsListOf(list', Linked), AssertOK', LeaksOf(t)',
           \A h \in Linked : memory'[h] = memory[h]
    PROVE  Heap' /\ SameEntries
  <1>1. Linked' = Linked
    BY SameLinked DEF Heap
  <1>2. ListOK'
    BY <1>1 DEF ListOK
  <1>3. \A h : ~Resizing(t, h)
    BY DEF Resizing
  <1>4. LandOK'
    BY <1>1, <1>3, LandKeeps
  <1>5. Unmarked' = Unmarked
    BY <1>1 DEF Unmarked
  <1>6. SameEntries
    BY <1>1 DEF SameEntries
  <1>7. QED
    BY <1>2, <1>4, <1>5, <1>6, HeapKeeps

\* Calls of user code have found no leaks.
LEMMA NoLeaks ==
    ASSUME NEW t \in Thread, local'[t].caller = "user", local'[t].leaks = {}, local'[t].leaksCount = 0,
           pc'[t] # "fill"
    PROVE  LeaksOf(t)'
  <1>1. Cardinality({}) = 0
    BY FS_EmptySet
  <1>2. QED
    BY <1>1 DEF LeaksOf

\* What a call holds but has not linked is not in the list.
LEMMA HeldIsNotLinked ==
    ASSUME Inv, NEW t \in Thread, NEW h \in Header, Holds(t, h), ~Links(t, h)
    PROVE  h \notin Linked
  <1>1. h \notin pointers
    BY DEF Inv, ThreadOK, HeldOK
  <1>2. \A u \in Thread : Links(u, h) => Holds(u, h)
    BY DEF Links, Holds, HasNew
  <1>3. \A u \in Thread : ~Links(u, h)
    BY <1>2 DEF Inv, Apart
  <1>4. QED
    BY <1>1, <1>3, LinkedIs DEF LinkedByCalls

LEMMA AllocateHeap ==
    ASSUME Heap, NEW t \in Thread, Allocate(t)
    PROVE  Heap' /\ SameEntries
  <1>1. Inv' /\ StepOf(t) /\ SameLinks(t)
    BY AllocateStep DEF Heap
  <1>2. PICK s \in Sizes, a \in Allocator, lk \in BOOLEAN :
            Enter(t, "block", [NoLocal EXCEPT !.Size = s, !.Alloc = a, !.leak = lk])
    BY DEF Allocate
  <1>3. pc[t] = "idle" /\ UNCHANGED <<list, memory>>
    BY DEF Allocate, At
  <1>4. AssertOK'
    BY <1>1, <1>2, <1>3, EnterAsserts
  <1>5. /\ local'[t] = [NoLocal EXCEPT !.Size = s, !.Alloc = a, !.leak = lk]
        /\ pc'[t] = "block"
    BY <1>2 DEF Enter, Goto, Heap, Inv, TypesOK
  <1>6. LeaksOf(t)'
    BY <1>5, NoLeaks DEF NoLocal
  <1>7. QED
    BY <1>1, <1>3, <1>4, <1>6, QuietSteps DEF Heap, ListOK

LEMMA AllocateBlockHeap ==
    ASSUME Heap, NEW t \in Thread, AllocateBlock(t)
    PROVE  Heap' /\ SameEntries
  <1>1. Inv' /\ StepOf(t) /\ SameLinks(t)
    BY AllocateBlockStep DEF Heap
  <1>2. PICK b \in Header \ blocks : local' = [local EXCEPT ![t].block = b]
    BY DEF AllocateBlock
  <1>3. /\ pc[t] = "block" /\ pc' = [pc EXCEPT ![t] = "count"] /\ ~asserted
        /\ UNCHANGED <<list, memory, asserted>>
    BY DEF AllocateBlock, At, Goto
  <1>4. TypesOK /\ local[t] \in Locals /\ LeaksOf(t)
    BY DEF Heap, Inv, TypesOK
  <1>5. /\ local'[t].leaks = local[t].leaks /\ local'[t].leaksCount = local[t].leaksCount
        /\ local'[t].caller = local[t].caller /\ pc'[t] = "count"
    BY <1>2, <1>3, <1>4 DEF TypesOK, Locals
  <1>6. Linked' = Linked
    BY <1>1, SameLinked DEF Heap
  <1>7. LeaksOf(t)'
    BY <1>3, <1>4, <1>5, <1>6 DEF LeaksOf, Unmarked
  <1>8. QED
    BY <1>1, <1>3, <1>7, QuietSteps DEF Heap, ListOK, AssertOK

LEMMA EncodeReadsCountHeap ==
    ASSUME Heap, NEW t \in Thread, EncodeReadsCount(t)
    PROVE  Heap' /\ SameEntries
  <1>1. Inv' /\ StepOf(t) /\ SameLinks(t)
    BY EncodeReadsCountStep DEF Heap
  <1>2. /\ pc[t] = "count" /\ pc' = [pc EXCEPT ![t] = "encode"] /\ ~asserted
        /\ list' = ClearLinks(list, local[t].block)
        /\ local' = [local EXCEPT ![t].id = AllocationCount % IdModulus]
        /\ UNCHANGED <<memory, asserted>>
    BY DEF EncodeReadsCount, At, Goto
  <1>3. TypesOK /\ HeldOK(t) /\ local[t] \in Locals /\ LeaksOf(t)
    BY DEF Heap, Inv, ThreadOK, TypesOK
  <1>4. /\ local'[t].leaks = local[t].leaks /\ local'[t].leaksCount = local[t].leaksCount
        /\ local'[t].caller = local[t].caller /\ pc'[t] = "encode"
    BY <1>2, <1>3 DEF TypesOK, Locals
  <1>5. local[t].block \in Header /\ local[t].block \notin Linked
    <2>1. HasNew(t) /\ local[t].block \in Header
      BY <1>2, <1>3 DEF HeldOK, HasNew
    <2>2. Holds(t, local[t].block) /\ ~Links(t, local[t].block)
      BY <1>2, <1>3, <2>1 DEF HeldOK, Holds, Links
    <2>3. QED
      BY <2>1, <2>2, HeldIsNotLinked DEF Heap
  <1>6. IsListOf(list', Linked)
    BY <1>2, <1>3, <1>5, ClearKeepsList DEF Heap, ListOK, TypesOK
  <1>7. Linked' = Linked
    BY <1>1, SameLinked DEF Heap
  <1>8. LeaksOf(t)'
    BY <1>2, <1>3, <1>4, <1>7 DEF LeaksOf, Unmarked
  <1>9. QED
    BY <1>1, <1>2, <1>6, <1>8, QuietSteps DEF AssertOK

LEMMA EncodeHeaderHeap ==
    ASSUME Heap, NEW t \in Thread, EncodeHeader(t)
    PROVE  Heap' /\ SameEntries
  <1>1. Inv' /\ StepOf(t) /\ SameLinks(t)
    BY EncodeHeaderStep DEF Heap
  <1> DEFINE v == local[t]
             x == IF v.ptr = Null THEN FreshHeader(v) ELSE MovedHeader(v, memory[v.ptr])
             next == IF v.ptr = Null THEN "add" ELSE "swap"
  <1>2. /\ pc[t] = "encode" /\ pc' = [pc EXCEPT ![t] = next] /\ ~asserted
        /\ memory' = [memory EXCEPT ![v.block] = x]
        /\ UNCHANGED <<list, local, asserted>>
    BY DEF EncodeHeader, At, Goto
  <1> HIDE DEF x
  <1>3. TypesOK /\ HeldOK(t) /\ CallOK(t) /\ LeaksOf(t)
    BY DEF Heap, Inv, ThreadOK
  <1>4. v.block \in Header /\ v.block \notin Linked
    <2>1. HasNew(t) /\ v.block \in Header
      BY <1>2, <1>3 DEF HeldOK, HasNew
    <2>2. Holds(t, v.block) /\ ~Links(t, v.block)
      BY <1>2, <1>3, <2>1 DEF HeldOK, Holds, Links
    <2>3. QED
      BY <2>1, <2>2, HeldIsNotLinked DEF Heap
  <1>5. \A h \in Linked : memory'[h] = memory[h]
    BY <1>2, <1>3, <1>4, LinkedLives DEF Heap, TypesOK
  <1>6. pc'[t] = next
    BY <1>2, <1>3 DEF TypesOK
  <1>7. Linked' = Linked
    BY <1>1, SameLinked DEF Heap
  <1>8. Unmarked' = Unmarked
    BY <1>5, <1>7 DEF Unmarked
  <1>9. LeaksOf(t)'
    BY <1>2, <1>3, <1>6, <1>8 DEF LeaksOf
  <1>10. QED
    BY <1>1, <1>2, <1>5, <1>9, QuietSteps DEF Heap, ListOK, AssertOK

LEMMA ReallocateHeap ==
    ASSUME Heap, NEW t \in Thread, Reallocate(t)
    PROVE  Heap' /\ SameEntries
  <1>1. Inv' /\ StepOf(t) /\ SameLinks(t)
    BY ReallocateStep DEF Heap
  <1>2. PICK h \in pointers, s \in Sizes, lk \in BOOLEAN :
            Enter(t, "resize", [NoLocal EXCEPT !.ptr = h, !.Size = s, !.leak = lk,
                                               !.Alloc = memory[h].Alloc])
    BY DEF Reallocate
  <1>3. pc[t] = "idle" /\ UNCHANGED <<list, memory>>
    BY DEF Reallocate, At
  <1>4. AssertOK'
    BY <1>1, <1>2, <1>3, EnterAsserts
  <1>5. /\ local'[t] = [NoLocal EXCEPT !.ptr = h, !.Size = s, !.leak = lk, !.Alloc = memory[h].Alloc]
        /\ pc'[t] = "resize"
    BY <1>2 DEF Enter, Goto, Heap, Inv, TypesOK
  <1>6. LeaksOf(t)'
    BY <1>5, NoLeaks DEF NoLocal
  <1>7. QED
    BY <1>1, <1>3, <1>4, <1>6, QuietSteps DEF Heap, ListOK

LEMMA ResizeFailsHeap ==
    ASSUME Heap, NEW t \in Thread, ResizeFails(t)
    PROVE  Heap' /\ SameEntries
  <1>1. Inv' /\ StepOf(t) /\ SameLinks(t)
    BY ResizeFailsStep DEF Heap
  <1>2. /\ pc[t] = "resize" /\ ~asserted /\ UNCHANGED <<list, memory, local, asserted>>
    BY DEF ResizeFails, At
  <1>3. LeaksOf(t) /\ CallOK(t)
    BY DEF Heap, Inv, ThreadOK
  <1>4. LeaksOf(t)'
    <2>1. local[t].caller # "report" /\ pc'[t] = "block"
      BY <1>2, <1>3 DEF CallOK, ResizeFails, Goto, Heap, Inv, TypesOK
    <2>2. QED
      BY <1>2, <1>3, <2>1 DEF LeaksOf
  <1>5. QED
    BY <1>1, <1>2, <1>4, QuietSteps DEF Heap, ListOK, AssertOK

LEMMA FreeHeap ==
    ASSUME Heap, NEW t \in Thread, Free(t)
    PROVE  Heap' /\ SameEntries
  <1>1. Inv' /\ StepOf(t) /\ SameLinks(t)
    BY FreeStep DEF Heap
  <1>2. PICK h \in pointers : Enter(t, "unlink", [NoLocal EXCEPT !.ptr = h, !.Alloc = memory[h].Alloc])
    BY DEF Free
  <1>3. pc[t] = "idle" /\ UNCHANGED <<list, memory>>
    BY DEF Free, At
  <1>4. AssertOK'
    BY <1>1, <1>2, <1>3, EnterAsserts
  <1>5. /\ local'[t] = [NoLocal EXCEPT !.ptr = h, !.Alloc = memory[h].Alloc]
        /\ pc'[t] = "unlink"
    BY <1>2 DEF Enter, Goto, Heap, Inv, TypesOK
  <1>6. LeaksOf(t)'
    BY <1>5, NoLeaks DEF NoLocal
  <1>7. QED
    BY <1>1, <1>3, <1>4, <1>6, QuietSteps DEF Heap, ListOK

\* A call that has returned.
LEMMA ReturnedHeap ==
    ASSUME Heap, Inv', NEW t \in Thread, Return(t)
    PROVE  LeaksOf(t)'
  <1>1. local'[t] = NoLocal /\ pc'[t] = "idle"
    BY DEF Return, Goto, Heap, Inv, TypesOK
  <1>2. QED
    BY <1>1, NoLeaks DEF NoLocal

LEMMA FreeBlockHeap ==
    ASSUME Heap, NEW t \in Thread, FreeBlock(t)
    PROVE  Heap' /\ SameEntries
  <1>1. Inv' /\ StepOf(t) /\ SameLinks(t)
    BY FreeBlockStep DEF Heap
  <1>2. /\ pc[t] = "free" /\ ~asserted /\ UNCHANGED <<list, asserted>>
        /\ memory' = [memory EXCEPT ![local[t].ptr] = Dead]
        /\ Return(t)
    BY DEF FreeBlock, At
  <1>3. TypesOK /\ HeldOK(t)
    BY DEF Heap, Inv, ThreadOK
  <1>4. local[t].ptr \notin Linked
    <2>1. HasOld(t) /\ local[t].ptr \in Header
      BY <1>2, <1>3 DEF HeldOK, HasOld
    <2>2. Holds(t, local[t].ptr) /\ ~Links(t, local[t].ptr)
      BY <1>2, <2>1 DEF Holds, Links
    <2>3. QED
      BY <2>1, <2>2, HeldIsNotLinked DEF Heap
  <1>5. \A h \in Linked : memory'[h] = memory[h]
    BY <1>2, <1>3, <1>4, LinkedLives DEF Heap, TypesOK
  <1>6. LeaksOf(t)'
    BY <1>1, <1>2, ReturnedHeap
  <1>7. QED
    BY <1>1, <1>2, <1>5, <1>6, QuietSteps DEF Heap, ListOK, AssertOK

\* Nothing of an allocator that is being freed is in the list.
LEMMA FreedIsNotLinked ==
    ASSUME Inv, NEW t \in Thread, pc[t] = "free_all", NEW h \in Linked
    PROVE  memory[h].Alloc # local[t].Alloc
  <1>1. h \in Header /\ memory[h] # Dead /\ (h \in pointers \/ \E u \in Thread : Links(u, h))
    BY LinkedIs, LinkedLives DEF LinkedByCalls
  <1>2. CASE h \in pointers
    BY <1>2 DEF Inv, FreesAlone
  <1>3. ASSUME NEW u \in Thread, Links(u, h)
        PROVE  memory[h].Alloc # local[t].Alloc
    <2>1. Holds(u, h)
      BY <1>3 DEF Links, Holds, HasNew
    <2>2. memory[h].Alloc = local[u].Alloc
      BY <1>1, <2>1 DEF Inv, ThreadOK, HeldOK
    <2>3. pc[u] # "idle" /\ u # t
      BY <1>3 DEF Links, HasOld
    <2>4. QED
      BY <2>2, <2>3 DEF Inv, FreesAlone
  <1>4. QED
    BY <1>1, <1>2, <1>3

LEMMA FreeAllBlocksHeap ==
    ASSUME Heap, NEW t \in Thread, FreeAllBlocks(t)
    PROVE  Heap' /\ SameEntries
  <1>1. Inv' /\ StepOf(t) /\ SameLinks(t)
    BY FreeAllBlocksStep DEF Heap
  <1> DEFINE freed == OfAllocator(local[t].Alloc)
  <1>2. /\ pc[t] = "free_all" /\ ~asserted /\ UNCHANGED <<list, asserted>>
        /\ memory' = [h \in Header |-> IF h \in freed THEN Dead ELSE memory[h]]
        /\ Return(t)
    BY DEF FreeAllBlocks, At
  <1>3. \A h \in Linked : h \in Header /\ h \notin freed
    BY <1>2, FreedIsNotLinked, LinkedLives DEF Heap, OfAllocator
  <1> HIDE DEF freed
  <1>4. \A h \in Linked : memory'[h] = memory[h]
    BY <1>2, <1>3
  <1>5. LeaksOf(t)'
    BY <1>1, <1>2, ReturnedHeap
  <1>6. QED
    BY <1>1, <1>2, <1>4, <1>5, QuietSteps DEF Heap, ListOK, AssertOK

LEMMA ReportHeap ==
    ASSUME Heap, NEW t \in Thread, Report(t)
    PROVE  Heap' /\ SameEntries
  <1>1. Inv' /\ StepOf(t) /\ SameLinks(t)
    BY ReportStep DEF Heap
  <1> DEFINE n == Cardinality({h \in Listed(list) : ~memory[h].MarkedAsLeak})
             v == [NoLocal EXCEPT !.caller = "report", !.leaksCount = n]
  <1>2. /\ pc[t] = "idle" /\ UNCHANGED <<list, memory>>
        /\ Enter(t, "block", v)
    BY DEF Report, At
  <1>3. AssertOK'
    BY <1>1, <1>2, EnterAsserts
  <1>4. local'[t] = v /\ pc'[t] = "block"
    BY <1>2 DEF Enter, Goto, Heap, Inv, TypesOK
  <1>5. Listed(list) = Linked
    BY ListedIs DEF Heap, ListOK, Inv, TypesOK
  <1>6. n = Cardinality(Unmarked)
    BY <1>5 DEF Unmarked
  <1> HIDE DEF n
  <1>7. n \in Nat
    BY <1>6, UnmarkedIsFinite, FS_CardinalityType DEF Heap
  <1>8. Unmarked' = Unmarked
    BY <1>1, <1>2, SameLinked DEF Heap, Unmarked
  <1>9. v.leaks = {} /\ v.leaksCount = n
    BY DEF NoLocal
  <1>10. LeaksOf(t)'
    BY <1>4, <1>6, <1>7, <1>8, <1>9, FS_EmptySet DEF LeaksOf
  <1>11. QED
    BY <1>1, <1>2, <1>3, <1>10, QuietSteps DEF Heap, ListOK

LEMMA FillLeaksHeap ==
    ASSUME Heap, NEW t \in Thread, FillLeaks(t)
    PROVE  Heap' /\ SameEntries
  <1>1. Inv' /\ StepOf(t) /\ SameLinks(t)
    BY FillLeaksStep DEF Heap
  <1> DEFINE b == local[t].block
             v == [local[t] EXCEPT !.ptr = b, !.leaks = LeaksFound(b)]
  <1>2. /\ pc[t] = "fill" /\ UNCHANGED <<list, memory>>
        /\ Enter(t, "unlink", v)
    BY DEF FillLeaks, At
  <1>3. AssertOK'
    BY <1>1, <1>2, EnterAsserts
  <1>4. local'[t] = v /\ pc'[t] = "unlink" /\ local[t] \in Locals /\ LeaksOf(t)
    BY <1>2 DEF Enter, Goto, Heap, Inv, TypesOK
  <1>5. Listed(list) = Linked
    BY ListedIs DEF Heap, ListOK, Inv, TypesOK
  <1>6. LeaksFound(b) \subseteq Unmarked \ {b}
    BY <1>5 DEF LeaksFound, Unmarked
  <1>7. IsFiniteSet(Unmarked \ {b})
    BY UnmarkedIsFinite, FS_Subset DEF Heap
  <1>8. /\ Cardinality(LeaksFound(b)) <= Cardinality(Unmarked \ {b})
        /\ Cardinality(LeaksFound(b)) \in Nat /\ Cardinality(Unmarked \ {b}) \in Nat
    BY <1>6, <1>7, FS_Subset, FS_CardinalityType
  <1>9. v.leaks = LeaksFound(b) /\ v.leaksCount = local[t].leaksCount /\ local[t].leaksCount \in Nat
    BY <1>4 DEF Locals
  <1>10. LeaksOf(t)'
    BY <1>2, <1>4, <1>8, <1>9 DEF LeaksOf
  <1>11. QED
    BY <1>1, <1>2, <1>3, <1>10, QuietSteps DEF Heap, ListOK

-----------------------------------------------------------------------------
(* Steps on a header that is being moved, and steps that change the list *)

\* A step of a call of user code: the other parts of the invariant carry over.
LEMMA UserStep ==
    ASSUME Heap, Inv', NEW t \in Thread, StepOf(t), ~asserted', ListOK', LandOK',
           local'[t].caller = "user", pc'[t] # "fill",
           \/ local'[t] = NoLocal
           \/ local'[t].leaks = local[t].leaks /\ local'[t].leaksCount = local[t].leaksCount,
           \A u \in Others(t) : mutex = u => Unmarked' \subseteq Unmarked
    PROVE  Heap'
  <1>1. LeaksOf(t)'
    <2>1. CASE local'[t] = NoLocal
      BY <2>1, NoLeaks DEF NoLocal
    <2>2. CASE local'[t].leaks = local[t].leaks /\ local'[t].leaksCount = local[t].leaksCount
      BY <2>2 DEF Heap, LeaksOf
    <2>3. QED
      BY <2>1, <2>2
  <1>2. AssertOK'
    BY DEF AssertOK
  <1>3. QED
    BY <1>1, <1>2, HeapKeeps

LEMMA ResizeInPlaceHeap ==
    ASSUME Heap, NEW t \in Thread, ResizeInPlace(t)
    PROVE  /\ Heap' /\ Linked' = Linked /\ local[t].ptr \in Linked
           /\ memory'[local[t].ptr].ID = memory[local[t].ptr].ID
           /\ memory'[local[t].ptr].RID = memory[local[t].ptr].RID + 1
           /\ \A h \in Linked \ {local[t].ptr} : memory'[h] = memory[h]
  <1>1. Inv' /\ StepOf(t) /\ SameLinks(t)
    BY ResizeInPlaceStep DEF Heap
  <1> DEFINE v == local[t]
             x == [memory[v.ptr] EXCEPT !.RID = @ + 1, !.Size = v.Size, !.land = FALSE]
  <1>2. /\ pc[t] = "resize" /\ pc' = [pc EXCEPT ![t] = "refill"] /\ ~asserted
        /\ memory' = [memory EXCEPT ![v.ptr] = x]
        /\ local' = [local EXCEPT ![t].block = v.ptr]
        /\ v.Alloc \in InPlace
        /\ UNCHANGED <<list, asserted>>
    BY DEF ResizeInPlace, At, Goto
  <1>3. TypesOK /\ HeldOK(t) /\ CallOK(t) /\ v \in Locals
    BY DEF Heap, Inv, ThreadOK, TypesOK
  <1>4. v.ptr \in Header /\ memory[v.ptr] # Dead /\ memory[v.ptr] \in Contents /\ v.ptr \in Linked
    <2>1. HasOld(t) /\ v.ptr \in Header /\ Links(t, v.ptr)
      BY <1>2, <1>3 DEF HasOld, HeldOK, Links
    <2>2. QED
      BY <1>1, <1>3, <2>1, LinkedAround DEF Heap, HeldOK, TypesOK
  <1>5. /\ x.MarkedAsLeak = memory[v.ptr].MarkedAsLeak
        /\ x.ID = memory[v.ptr].ID /\ x.RID = memory[v.ptr].RID + 1
    BY <1>4 DEF Contents
  <1> HIDE DEF x
  <1>6. /\ memory'[v.ptr] = x
        /\ \A h \in Header : h # v.ptr => memory'[h] = memory[h]
    BY <1>2, <1>3, <1>4 DEF TypesOK
  <1>7. /\ pc'[t] = "refill" /\ local'[t].block = v.ptr /\ local'[t].caller = v.caller
        /\ local'[t].ptr = v.ptr /\ local'[t].Alloc = v.Alloc
        /\ local'[t].leaks = v.leaks /\ local'[t].leaksCount = v.leaksCount
    BY <1>2, <1>3 DEF TypesOK, Locals
  <1>8. v.caller = "user"
    BY <1>2, <1>3 DEF CallOK, Locals
  <1>9. Linked' = Linked /\ Linked \subseteq Header
    BY <1>1, SameLinked, LinkedAround DEF Heap
  <1>10. Unmarked' = Unmarked
    BY <1>5, <1>6, <1>9 DEF Unmarked
  <1>11. LandOK'
    <2>1. \A h : h = v.ptr => Resizing(t, h)'
      BY <1>2, <1>7 DEF Resizing
    <2>2. \A h : ~Resizing(t, h)
      BY <1>2 DEF Resizing
    <2>3. QED
      BY <1>1, <1>6, <1>9, <2>1, <2>2, LandKeeps
  <1>12. ListOK'
    BY <1>2, <1>9 DEF Heap, ListOK
  <1>13. Heap'
    BY <1>1, <1>2, <1>7, <1>8, <1>10, <1>11, <1>12, UserStep
  <1>14. QED
    BY <1>4, <1>5, <1>6, <1>9, <1>13

LEMMA RetireOldBlockHeap ==
    ASSUME Heap, NEW t \in Thread, RetireOldBlock(t)
    PROVE  Heap' /\ SameEntries
  <1>1. Inv' /\ StepOf(t) /\ SameLinks(t)
    BY RetireOldBlockStep DEF Heap
  <1> DEFINE v == local[t]
             x == [memory[v.block] EXCEPT !.MarkedAsLeak = TRUE]
  <1>2. /\ pc[t] = "retire" /\ pc' = [pc EXCEPT ![t] = "refill"] /\ ~asserted
        /\ memory' = [memory EXCEPT ![v.ptr] = Dead, ![v.block].MarkedAsLeak = TRUE]
        /\ UNCHANGED <<list, local, asserted>>
    BY DEF RetireOldBlock, At, Goto
  <1>3. TypesOK /\ HeldOK(t) /\ CallOK(t) /\ v \in Locals
    BY DEF Heap, Inv, ThreadOK, TypesOK
  <1>4. /\ v.ptr \in Header /\ v.block \in Header /\ v.ptr # v.block /\ v.ptr \notin Linked
        /\ memory[v.block] \in Contents
    <2>1. HasOld(t) /\ HasNew(t)
      BY <1>2 DEF HasOld, HasNew
    <2>2. /\ v.ptr \in Header /\ v.block \in Header /\ v.ptr # v.block
          /\ Holds(t, v.ptr) /\ ~Links(t, v.ptr) /\ Links(t, v.block)
      BY <1>2, <1>3, <2>1 DEF HeldOK, Holds, Links
    <2>3. QED
      BY <1>3, <2>2, HeldIsNotLinked DEF Heap, HeldOK, TypesOK
  <1>5. /\ x.MarkedAsLeak = TRUE /\ x.land = memory[v.block].land
        /\ x.ID = memory[v.block].ID /\ x.RID = memory[v.block].RID
    BY <1>4 DEF Contents
  <1> HIDE DEF x
  <1>6. /\ memory'[v.block] = x
        /\ \A h \in Header : h # v.ptr /\ h # v.block => memory'[h] = memory[h]
    <2>1. memory' = [memory EXCEPT ![v.ptr] = Dead, ![v.block] = x]
      BY <1>2, <1>3, <1>4 DEF x, TypesOK
    <2>2. QED
      BY <1>3, <1>4, <2>1 DEF TypesOK
  <1>7. pc'[t] = "refill" /\ v.caller = "user"
    BY <1>2, <1>3 DEF TypesOK, CallOK, Locals
  <1>8. Linked' = Linked /\ Linked \subseteq Header
    BY <1>1, SameLinked, LinkedAround DEF Heap
  <1>9. Unmarked' \subseteq Unmarked
    BY <1>4, <1>5, <1>6, <1>8 DEF Unmarked
  <1>10. LandOK'
    <2>1. \A h : ~Resizing(t, h)
      BY <1>2 DEF Resizing
    <2>2. \A h \in Linked : memory'[h].land = memory[h].land
      BY <1>4, <1>5, <1>6, <1>8
    <2>3. QED
      BY <1>1, <1>8, <2>1, <2>2, LandKeeps
  <1>11. ListOK'
    BY <1>2, <1>8 DEF Heap, ListOK
  <1>12. SameEntries
    BY <1>4, <1>5, <1>6, <1>8 DEF SameEntries
  <1>13. QED
    BY <1>1, <1>2, <1>7, <1>9, <1>10, <1>11, <1>12, UserStep

LEMMA RefillHeap ==
    ASSUME Heap, NEW t \in Thread, Refill(t)
    PROVE  Heap' /\ SameEntries
  <1>1. Inv' /\ StepOf(t) /\ SameLinks(t)
    BY RefillStep DEF Heap
  <1> DEFINE b == local[t].block
             x == [memory[b] EXCEPT !.land = TRUE]
  <1>2. /\ pc[t] = "refill" /\ pc' = [pc EXCEPT ![t] = "idle"] /\ ~asserted
        /\ local' = [local EXCEPT ![t] = NoLocal]
        /\ memory' = [memory EXCEPT ![b] = x]
        /\ UNCHANGED <<list, asserted>>
    BY DEF Refill, At, Goto, Return
  <1>3. TypesOK /\ HeldOK(t)
    BY DEF Heap, Inv, ThreadOK
  <1>4. b \in Header /\ memory[b] \in Contents
    <2>1. HasNew(t) /\ b \in Header /\ Links(t, b)
      BY <1>2, <1>3 DEF HasNew, HeldOK, Links
    <2>2. QED
      BY <1>3, <2>1 DEF HeldOK, TypesOK
  <1>5. /\ x.land = TRUE /\ x.MarkedAsLeak = memory[b].MarkedAsLeak
        /\ x.ID = memory[b].ID /\ x.RID = memory[b].RID
    BY <1>4 DEF Contents
  <1> HIDE DEF x
  <1>6. /\ memory'[b] = x
        /\ \A h \in Header : h # b => memory'[h] = memory[h]
    BY <1>2, <1>3, <1>4 DEF TypesOK
  <1>7. pc'[t] = "idle" /\ local'[t] = NoLocal /\ local'[t].caller = "user"
    BY <1>2, <1>3 DEF TypesOK, NoLocal
  <1>8. Linked' = Linked /\ Linked \subseteq Header
    BY <1>1, SameLinked, LinkedAround DEF Heap
  <1>9. Unmarked' = Unmarked
    BY <1>5, <1>6, <1>8 DEF Unmarked
  <1>10. LandOK'
    <2>1. \A h : Resizing(t, h) => h = b
      BY DEF Resizing
    <2>2. QED
      BY <1>1, <1>5, <1>6, <1>8, <2>1, LandKeeps
  <1>11. ListOK'
    BY <1>2, <1>8 DEF Heap, ListOK
  <1>12. SameEntries
    BY <1>4, <1>5, <1>6, <1>8 DEF SameEntries
  <1>13. QED
    BY <1>1, <1>2, <1>7, <1>9, <1>10, <1>11, <1>12, UserStep

\* Only one thread is in a section, and not while another is in report_leaks.
LEMMA LockedAlone ==
    ASSUME Inv, NEW t \in Thread, CanLock(t)
    PROVE  \A u \in Others(t) : mutex # u
  BY HeapAssumption DEF CanLock, Others

LEMMA AddToListHeap ==
    ASSUME Heap, NEW t \in Thread, AddToList(t)
    PROVE  /\ Heap' /\ local[t].block \in Header \ Linked /\ Linked' = Linked \cup {local[t].block}
           /\ memory[local[t].block] \in Contents /\ memory[local[t].block].RID = 0
           /\ UNCHANGED memory
  <1>1. Inv' /\ StepOf(t)
    BY AddToListStep DEF Heap
  <1> DEFINE b == local[t].block
  <1>2. /\ pc[t] = "add" /\ CanLock(t) /\ list' = AddHeader(list, b) /\ ~asserted
        /\ UNCHANGED <<memory, asserted>>
    BY DEF AddToList, At
  <1>3. TypesOK /\ HeldOK(t) /\ HeaderOK(t) /\ CallOK(t) /\ LeaksOf(t)
    BY DEF Heap, Inv, ThreadOK
  <1>4. HasNew(t) /\ ~HasOld(t) /\ b \in Header /\ Holds(t, b) /\ \A h \in Header : ~Links(t, h)
    BY <1>2, <1>3 DEF HasNew, HasOld, HeldOK, Holds, Links
  <1>5. /\ b \notin Linked /\ Linked \subseteq Header
        /\ memory[b].land /\ memory[b] \in Contents /\ memory[b].RID = 0
    BY <1>1, <1>2, <1>3, <1>4, HeldIsNotLinked, LinkedAround DEF Heap, HeaderOK, TypesOK
  <1>6. Linked' = Linked \cup {b}
    <2>1. CASE local[t].caller = "user" /\ pointers' = pointers \cup {b} /\ Return(t)
      <3>1. pc'[t] = "idle"
        BY <1>3, <2>1 DEF Return, Goto, TypesOK
      <3>2. \A h \in Header : ~Links(t, h)'
        BY <3>1 DEF Links, HasOld
      <3>3. \A h \in Header : h \in Linked' <=> h \in Linked \/ h = b
        BY <1>1, <1>4, <2>1, <3>2, LinkedAround DEF Heap
      <3>4. QED
        BY <1>1, <1>4, <3>3, LinkedAround DEF Heap
    <2>2. CASE local[t].caller = "report" /\ Goto(t, "fill") /\ UNCHANGED <<pointers, local>>
      <3>1. pc'[t] = "fill" /\ local'[t].block = b
        BY <1>3, <2>2 DEF Goto, TypesOK
      <3>2. \A h \in Header : Links(t, h)' <=> h = b
        BY <3>1 DEF Links, HasOld
      <3>3. \A h \in Header : h \in Linked' <=> h \in Linked \/ h = b
        BY <1>1, <1>4, <2>2, <3>2, LinkedAround DEF Heap
      <3>4. QED
        BY <1>1, <1>4, <3>3, LinkedAround DEF Heap
    <2>3. QED
      BY <2>1, <2>2 DEF AddToList
  <1>7. ListOK'
    BY <1>2, <1>3, <1>4, <1>5, <1>6, AddToListOf DEF Heap, ListOK, TypesOK
  <1>8. LandOK'
    <2>1. \A h : ~Resizing(t, h)
      BY <1>2 DEF Resizing
    <2>2. QED
      BY <1>1, <1>2, <1>5, <1>6, <2>1, LandKeeps DEF Heap
  <1>9. Unmarked' \subseteq Unmarked \cup {b}
    BY <1>2, <1>6 DEF Unmarked
  <1>10. LeaksOf(t)'
    <2>1. CASE local[t].caller = "user" /\ Return(t)
      BY <1>1, <2>1, ReturnedHeap
    <2>2. CASE local[t].caller = "report" /\ Goto(t, "fill") /\ UNCHANGED local
      <3>1. pc'[t] = "fill" /\ local'[t] = local[t]
        BY <1>3, <2>2 DEF Goto, TypesOK
      <3>2. IsFiniteSet(Unmarked) /\ Unmarked' \ {b} \subseteq Unmarked
        BY <1>9, UnmarkedIsFinite DEF Heap
      <3>3. /\ Cardinality(Unmarked' \ {b}) <= Cardinality(Unmarked)
            /\ Cardinality(Unmarked' \ {b}) \in Nat /\ Cardinality(Unmarked) \in Nat
        BY <3>2, FS_Subset, FS_CardinalityType
      <3>4. local[t].leaksCount \in Nat /\ Cardinality(Unmarked) <= local[t].leaksCount
        BY <1>2, <1>3, <2>2 DEF LeaksOf, TypesOK, Locals
      <3>5. QED
        BY <1>3, <3>1, <3>3, <3>4 DEF LeaksOf
    <2>3. QED
      BY <2>1, <2>2 DEF AddToList
  <1>11. AssertOK'
    BY <1>2 DEF AssertOK
  <1>12. Heap'
    BY <1>1, <1>2, <1>7, <1>8, <1>10, <1>11, LockedAlone, HeapKeeps DEF Heap
  <1>13. QED
    BY <1>2, <1>4, <1>5, <1>6, <1>12

LEMMA SwapInListHeap ==
    ASSUME Heap, NEW t \in Thread, SwapInList(t)
    PROVE  /\ Heap' /\ UNCHANGED memory
           /\ local[t].ptr \in Linked /\ local[t].block \in Header \ Linked
           /\ Linked' = (Linked \ {local[t].ptr}) \cup {local[t].block}
           /\ memory[local[t].block].ID = memory[local[t].ptr].ID
           /\ memory[local[t].block].RID = memory[local[t].ptr].RID + 1
  <1>1. Inv' /\ StepOf(t)
    BY SwapInListStep DEF Heap
  <1> DEFINE o == local[t].ptr
             n == local[t].block
  <1>2. /\ pc[t] = "swap" /\ pc' = [pc EXCEPT ![t] = "retire"] /\ CanLock(t)
        /\ asserted' = SwapFails(list)
        /\ list' = IF SwapFails(list) THEN list ELSE SwapHeader(list, o, n)
        /\ UNCHANGED <<memory, local, pointers>>
    BY DEF SwapInList, At, Goto
  <1>3. TypesOK /\ HeldOK(t) /\ CallOK(t) /\ local[t] \in Locals
    BY DEF Heap, Inv, ThreadOK, TypesOK
  <1>4. /\ o \in Header /\ n \in Header /\ o # n /\ Holds(t, n) /\ ~Links(t, n) /\ Links(t, o) /\ Holds(t, o)
        /\ \A h \in Header : Links(t, h) <=> h = o
    <2>1. HasOld(t) /\ HasNew(t)
      BY <1>2 DEF HasOld, HasNew
    <2>2. QED
      BY <1>2, <1>3, <2>1 DEF HeldOK, Holds, Links
  <1>5. o \notin pointers /\ n \notin Linked
    BY <1>3, <1>4, HeldIsNotLinked DEF Heap, HeldOK
  <1>6. pc'[t] = "retire" /\ local'[t] = local[t]
    BY <1>2, <1>3 DEF TypesOK
  <1>7. \A h \in Header : Links(t, h)' <=> h = n
    BY <1>6 DEF Links
  <1>8. /\ Linked \subseteq Header /\ Linked' \subseteq Header /\ o \in Linked
        /\ \A h \in Header : h \in Linked' <=> (h \in Linked /\ h # o) \/ h = n
    BY <1>1, <1>2, <1>4, <1>5, <1>7, LinkedAround DEF Heap
  <1>9. Linked' = (Linked \ {o}) \cup {n}
    BY <1>4, <1>8
  <1>10. /\ ~SwapFails(list)
         /\ IsListOf(SwapHeader(list, o, n), (Linked \ {o}) \cup {n})
    BY <1>3, <1>4, <1>5, <1>8, SwapInListOf DEF Heap, ListOK, TypesOK
  <1>11. ListOK' /\ ~asserted'
    BY <1>2, <1>9, <1>10 DEF ListOK
  <1>12. LandOK'
    <2>1. memory[n].land
      BY <1>2 DEF Heap, Inv, ThreadOK, HeaderOK
    <2>2. \A h : ~Resizing(t, h)
      BY <1>2 DEF Resizing
    <2>3. QED
      BY <1>1, <1>2, <1>9, <2>1, <2>2, LandKeeps
  <1>13. local[t].caller = "user"
    BY <1>2, <1>3 DEF CallOK, Locals
  <1>14. Heap'
    BY <1>1, <1>2, <1>6, <1>11, <1>12, <1>13, LockedAlone, UserStep DEF Heap
  <1>15. memory[n].ID = memory[o].ID /\ memory[n].RID = memory[o].RID + 1
    BY <1>2 DEF Heap, Inv, ThreadOK, HeaderOK
  <1>16. QED
    BY <1>2, <1>4, <1>5, <1>8, <1>9, <1>14, <1>15

LEMMA UnlinkFromListHeap ==
    ASSUME Heap, NEW t \in Thread, UnlinkFromList(t)
    PROVE  /\ Heap' /\ UNCHANGED memory
           /\ local[t].ptr \in Linked /\ Linked' = Linked \ {local[t].ptr}
  <1>1. Inv' /\ StepOf(t)
    BY UnlinkFromListStep DEF Heap
  <1> DEFINE o == local[t].ptr
  <1>2. /\ pc[t] = "unlink" /\ pc' = [pc EXCEPT ![t] = "free"] /\ CanLock(t)
        /\ asserted' = UnlinkFails(list, o)
        /\ list' = IF UnlinkFails(list, o) THEN list ELSE UnlinkHeader(list, o)
        /\ UNCHANGED <<memory, local, pointers>>
    BY DEF UnlinkFromList, At, Goto
  <1>3. TypesOK /\ HeldOK(t) /\ CallOK(t) /\ LeaksOf(t)
    BY DEF Heap, Inv, ThreadOK
  <1>4. /\ o \in Header /\ Holds(t, o)
        /\ \A h \in Header : Links(t, h) <=> h = o
    <2>1. HasOld(t)
      BY <1>2 DEF HasOld
    <2>2. QED
      BY <1>2, <1>3, <2>1 DEF HeldOK, Holds, Links
  <1>5. o \notin pointers
    BY <1>3, <1>4 DEF HeldOK
  <1>6. pc'[t] = "free" /\ local'[t] = local[t]
    BY <1>2, <1>3 DEF TypesOK
  <1>7. \A h \in Header : ~Links(t, h)'
    BY <1>6 DEF Links
  <1>8. /\ Linked \subseteq Header /\ Linked' \subseteq Header /\ o \in Linked
        /\ \A h \in Header : h \in Linked' <=> h \in Linked /\ h # o
    BY <1>1, <1>2, <1>4, <1>5, <1>7, LinkedAround DEF Heap
  <1>9. Linked' = Linked \ {o}
    BY <1>8
  <1>10. ~UnlinkFails(list, o) /\ IsListOf(UnlinkHeader(list, o), Linked \ {o})
    BY <1>3, <1>8, UnlinkFromListOf DEF Heap, ListOK, TypesOK
  <1>11. ListOK' /\ ~asserted'
    BY <1>2, <1>9, <1>10 DEF ListOK
  <1>12. LandOK'
    <2>1. \A h : ~Resizing(t, h)
      BY <1>2 DEF Resizing
    <2>2. QED
      BY <1>1, <1>2, <1>9, <2>1, LandKeeps
  <1>13. LeaksOf(t)' /\ AssertOK'
    BY <1>3, <1>6, <1>11 DEF LeaksOf, AssertOK
  <1>14. Heap'
    BY <1>1, <1>2, <1>11, <1>12, <1>13, LockedAlone, HeapKeeps DEF Heap
  <1>15. QED
    BY <1>2, <1>8, <1>9, <1>14

\* free_all unlinks everything, and everything is of its allocator.
LEMMA FreeAllHeap ==
    ASSUME OneToFree, Heap, NEW t \in Thread, FreeAll(t)
    PROVE  Heap' /\ Linked' = {}
  <1>1. Inv' /\ StepOf(t)
    BY FreeAllStep DEF Heap
  <1>2. PICK a \in FreesAll :
            /\ \A u \in Thread : pc[u] # "idle" => local[u].Alloc # a
            /\ pointers' = pointers \ OfAllocator(a)
            /\ local' = [local EXCEPT ![t] = [NoLocal EXCEPT !.Alloc = a]]
    BY DEF FreeAll
  <1>3. /\ pc[t] = "idle" /\ CanLock(t) /\ ~asserted /\ list' = UnlinkAll(list)
        /\ pc' = [pc EXCEPT ![t] = "free_all"] /\ UNCHANGED <<memory, asserted>>
    BY DEF FreeAll, At, Goto
  <1>4. TypesOK /\ PointersOK /\ \A u \in Thread : CallOK(u)
    BY DEF Heap, Inv, ThreadOK
  <1>5. \A u \in Others(t) : pc[u] = "idle"
    <2> SUFFICES ASSUME NEW u \in Others(t), pc[u] # "idle"
                 PROVE  FALSE
      OBVIOUS
    <2>1. u \in Thread /\ mutex # u
      BY <1>3, LockedAlone DEF Heap, Others
    <2>2. local[u].caller = "user" /\ local[u].Alloc \in Allocator
      BY <1>4, <2>1 DEF CallOK, TypesOK, Locals
    <2>3. QED
      BY <1>2, <2>1, <2>2 DEF OneToFree
  <1>6. pointers' = {}
    <2>1. \A h \in pointers : h \in blocks /\ memory[h] # Dead /\ memory[h].Alloc = a
      BY <1>4 DEF PointersOK, TypesOK, OneToFree
    <2>2. QED
      BY <1>2, <2>1 DEF OfAllocator
  <1>7. /\ pc'[t] = "free_all" /\ local'[t] = [NoLocal EXCEPT !.Alloc = a]
    BY <1>2, <1>3, <1>4 DEF TypesOK
  <1>8. Linked' = {}
    <2>1. \A h \in Header : ~Links(t, h)'
      BY <1>7 DEF Links, HasOld
    <2>2. \A h \in Header : ~OthersLink(t, h)
      BY <1>5 DEF OthersLink, Links, HasOld
    <2>3. QED
      BY <1>1, <1>6, <2>1, <2>2, LinkedAround DEF Heap
  <1>9. ListOK'
    BY <1>3, <1>4, <1>8, UnlinkAllIsEmpty DEF Heap, ListOK, TypesOK
  <1>10. LandOK' /\ Unmarked' = {}
    BY <1>8 DEF LandOK, Unmarked
  <1>11. LeaksOf(t)' /\ AssertOK'
    <2>1. /\ local'[t].caller = "user" /\ local'[t].leaks = {} /\ local'[t].leaksCount = 0
      BY <1>7 DEF NoLocal
    <2>2. QED
      BY <1>3, <1>7, <2>1, NoLeaks DEF AssertOK
  <1>12. Heap'
    BY <1>1, <1>9, <1>10, <1>11, HeapKeeps
  <1>13. QED
    BY <1>8, <1>12

-----------------------------------------------------------------------------
(* What follows for every behaviour *)

LEMMA InitHeap == Init => Heap
  <1> SUFFICES ASSUME Init
               PROVE  Heap
    OBVIOUS
  <1>1. Inv
    BY InitInv
  <1>2. \A t \in Thread : pc[t] = "idle" /\ local[t].leaks = {} /\ local[t].leaksCount = 0
    BY DEF Init, NoLocal
  <1>3. \A t \in Thread, h \in Header : ~Links(t, h)
    BY <1>2 DEF Links, HasOld
  <1>4. Linked = {}
    BY <1>1, <1>3, LinkedIs DEF LinkedByCalls, Init
  <1>5. ListOK /\ LandOK /\ AssertOK
    BY <1>4, EmptyIsList DEF Init, ListOK, LandOK, AssertOK
  <1>6. \A t \in Thread : LeaksOf(t)
    BY <1>2, FS_EmptySet DEF LeaksOf
  <1>7. QED
    BY <1>1, <1>5, <1>6 DEF Heap

LEMMA StutterHeap == Heap /\ UNCHANGED vars => Heap' /\ SameEntries
  <1> SUFFICES ASSUME Heap, UNCHANGED vars
               PROVE  Heap' /\ SameEntries
    OBVIOUS
  <1>1. Inv'
    BY StutterInv DEF Heap
  <1>2. Linked' = Linked
    BY DEF vars, Linked
  <1>3. ListOK' /\ LandOK' /\ AssertOK'
    BY <1>2 DEF Heap, ListOK, LandOK, AssertOK, Resizing, vars
  <1>4. \A t \in Thread : LeaksOf(t)'
    BY <1>2 DEF Heap, LeaksOf, Unmarked, vars
  <1>5. QED
    BY <1>1, <1>2, <1>3, <1>4 DEF Heap, SameEntries, vars

LEMMA NextHeap ==
    ASSUME OneToFree
    PROVE  Heap /\ [Next]_vars => Heap'
  <1> SUFFICES ASSUME Heap, [Next]_vars
               PROVE  Heap'
    OBVIOUS
  <1>1. ASSUME NEW t \in Thread, Call(t)
        PROVE  Heap'
    BY <1>1, AllocateHeap, ReallocateHeap, FreeHeap, FreeAllHeap, ReportHeap DEF Call
  <1>2. ASSUME NEW t \in Thread, Continue(t)
        PROVE  Heap'
    BY <1>2, AllocateBlockHeap, EncodeReadsCountHeap, EncodeHeaderHeap, AddToListHeap,
       ResizeInPlaceHeap, ResizeFailsHeap, SwapInListHeap, RetireOldBlockHeap, RefillHeap,
       UnlinkFromListHeap, FreeBlockHeap, FreeAllBlocksHeap, FillLeaksHeap DEF Continue
  <1>3. CASE UNCHANGED vars
    BY <1>3, StutterHeap
  <1>4. QED
    BY <1>1, <1>2, <1>3 DEF Next, Rest

LEMMA AlwaysHeap ==
    ASSUME OneToFree
    PROVE  Spec => []Heap
  <1>1. Heap /\ [Next]_vars => Heap'
    BY NextHeap
  <1>2. QED
    BY <1>1, InitHeap, PTL DEF Spec

\* Any number of threads may allocate, reallocate, free and report leaks, in any
\* order of the sections under the mutex: the list that add_header, swap_header and
\* unlink_header keep is exactly the live allocations, a loop over it never meets
\* freed memory, and report_leaks never writes past the array it sized.
THEOREM ListStaysHeap ==
    ASSUME OneToFree
    PROVE  Spec => []ListIsHeap
  <1>1. Heap => ListIsHeap
    <2> SUFFICES ASSUME Heap
                 PROVE  ListIsHeap
      OBVIOUS
    <2> DEFINE w == Walk(list)
    <2>1. /\ Listed(list) = Linked
          /\ w \in Seq(Header) /\ Represents(list, w) /\ {w[i] : i \in 1..Len(w)} = Linked
      BY ListedIs DEF Heap, ListOK, Inv, TypesOK
    <2>2. Range(w) = Linked
      <3>1. DOMAIN w = 1..Len(w)
        BY <2>1
      <3>2. QED
        BY <2>1, <3>1 DEF Range
    <2>3. \A h \in Listed(list) : h \in blocks /\ memory[h] # Dead
      BY <2>1, LinkedLives DEF Heap
    <2>4. \A t \in Thread : Cardinality(local[t].leaks) <= local[t].leaksCount
      BY DEF Heap, LeaksOf
    <2>5. QED
      BY <2>1, <2>2, <2>3, <2>4 DEF ListIsHeap
  <1>2. QED
    BY <1>1, AlwaysHeap, PTL

\* An assert of the debug heap needs two threads: one that verifies the list while
\* another has resized a listed block in place and not yet written the no man's land
\* behind its new end (allocator.cpp, lines 462-477, outside the lock).
THEOREM AssertsNeedAResize ==
    ASSUME OneToFree
    PROVE  Spec => []AssertOK
  <1>1. Heap => AssertOK
    BY DEF Heap
  <1>2. QED
    BY <1>1, AlwaysHeap, PTL

\* A program with one thread never sees an assert of the debug heap fire, whatever
\* it allocates, grows, frees and reports.
OneThread == \A t, u \in Thread : t = u

THEOREM NoAssertInOneThread ==
    ASSUME OneToFree, OneThread
    PROVE  Spec => []NoAssertFires
  <1>1. Heap => NoAssertFires
    BY DEF Heap, AssertOK, OneThread, NoAssertFires
  <1>2. QED
    BY <1>1, AlwaysHeap, PTL

\* Nor does any number of threads when no allocator can resize a block in place:
\* neither a reallocation that moves its block nor any other call can make one fire.
THEOREM NoAssertWhenBlocksMove ==
    ASSUME OneToFree, InPlace = {}
    PROVE  Spec => []NoAssertFires
  <1>1. Heap => NoAssertFires
    BY DEF Heap, AssertOK, Resizing, NoAssertFires
  <1>2. QED
    BY <1>1, AlwaysHeap, PTL

-----------------------------------------------------------------------------
(* The debug heap keeps the ledger *)

Entry(h) == [ID |-> memory[h].ID, RID |-> memory[h].RID]

Entries == [h \in Linked |-> Entry(h)]

\* The ledger seen through the list is the entries of what should be in the list.
LedgerSeen == [h \in Listed(list) |-> [ID |-> memory[h].ID, RID |-> memory[h].RID]]

LEMMA LedgerIsEntries == Heap => LedgerSeen = Entries
  <1> SUFFICES ASSUME Heap
               PROVE  LedgerSeen = Entries
    OBVIOUS
  <1>1. Listed(list) = Linked
    BY ListedIs DEF Heap, ListOK, Inv, TypesOK
  <1>2. QED
    BY <1>1 DEF LedgerSeen, Entries, Entry

\* A step of the ledger, in terms of the entries.
LedgerStep ==
    \/ Entries' = Entries
    \/ \E h \in Header \ Linked, i \in 0..(IdModulus - 1) :
            Entries' = [g \in Linked \cup {h} |-> IF g = h THEN [ID |-> i, RID |-> 0] ELSE Entries[g]]
    \/ \E h \in Linked, n \in Header :
            /\ n = h \/ n \notin Linked
            /\ Entries' = [g \in (Linked \ {h}) \cup {n} |->
                            IF g = n THEN [ID |-> memory[h].ID, RID |-> memory[h].RID + 1] ELSE Entries[g]]
    \/ \E h \in Linked : Entries' = [g \in Linked \ {h} |-> Entries[g]]
    \/ Entries' = [g \in {} |-> Entries[g]]

LEMMA SameLedger == SameEntries => Entries' = Entries
  BY DEF SameEntries, Entries, Entry

LEMMA AddToLedger ==
    ASSUME Heap, NEW t \in Thread, AddToList(t)
    PROVE  LedgerStep
  <1> DEFINE b == local[t].block
             i == memory[b].ID
  <1>1. /\ b \in Header \ Linked /\ Linked' = Linked \cup {b}
        /\ memory[b] \in Contents /\ memory[b].RID = 0 /\ memory' = memory
    BY AddToListHeap
  <1>2. i \in 0..(IdModulus - 1)
    BY <1>1 DEF Contents
  <1>3. Entries' = [g \in Linked \cup {b} |-> IF g = b THEN [ID |-> i, RID |-> 0] ELSE Entries[g]]
    BY <1>1 DEF Entries, Entry
  <1> HIDE DEF b, i
  <1>4. QED
    BY <1>1, <1>2, <1>3 DEF LedgerStep

LEMMA SwapInLedger ==
    ASSUME Heap, NEW t \in Thread, SwapInList(t)
    PROVE  LedgerStep
  <1> DEFINE o == local[t].ptr
             n == local[t].block
  <1>1. /\ o \in Linked /\ n \in Header /\ n \notin Linked
        /\ Linked' = (Linked \ {o}) \cup {n} /\ memory' = memory
        /\ memory[n].ID = memory[o].ID /\ memory[n].RID = memory[o].RID + 1
    BY SwapInListHeap
  <1>2. Entries' = [g \in (Linked \ {o}) \cup {n} |->
                      IF g = n THEN [ID |-> memory[o].ID, RID |-> memory[o].RID + 1] ELSE Entries[g]]
    BY <1>1 DEF Entries, Entry
  <1> HIDE DEF o, n
  <1>3. QED
    BY <1>1, <1>2 DEF LedgerStep

LEMMA ResizeInLedger ==
    ASSUME Heap, NEW t \in Thread, ResizeInPlace(t)
    PROVE  LedgerStep
  <1> DEFINE o == local[t].ptr
  <1>1. /\ o \in Linked /\ o \in Header /\ Linked' = Linked
        /\ memory'[o].ID = memory[o].ID /\ memory'[o].RID = memory[o].RID + 1
        /\ \A h \in Linked \ {o} : memory'[h] = memory[h]
    BY ResizeInPlaceHeap, LinkedLives DEF Heap
  <1>2. Entries' = [g \in Linked |->
                      IF g = o THEN [ID |-> memory[o].ID, RID |-> memory[o].RID + 1] ELSE Entries[g]]
    BY <1>1 DEF Entries, Entry
  <1>3. Linked = (Linked \ {o}) \cup {o}
    BY <1>1
  <1> HIDE DEF o
  <1>4. QED
    BY <1>1, <1>2, <1>3 DEF LedgerStep

LEMMA UnlinkInLedger ==
    ASSUME Heap, NEW t \in Thread, UnlinkFromList(t)
    PROVE  LedgerStep
  <1> DEFINE o == local[t].ptr
  <1>1. o \in Linked /\ Linked' = Linked \ {o} /\ memory' = memory
    BY UnlinkFromListHeap
  <1>2. Entries' = [g \in Linked \ {o} |-> Entries[g]]
    BY <1>1 DEF Entries, Entry
  <1> HIDE DEF o
  <1>3. QED
    BY <1>1, <1>2 DEF LedgerStep

LEMMA FreeAllInLedger ==
    ASSUME OneToFree, Heap, NEW t \in Thread, FreeAll(t)
    PROVE  LedgerStep
  <1>1. Linked' = {}
    BY FreeAllHeap
  <1>2. Entries' = [g \in {} |-> Entries[g]]
    BY <1>1 DEF Entries
  <1>3. QED
    BY <1>2 DEF LedgerStep

LEMMA NextInLedger ==
    ASSUME OneToFree, Heap, [Next]_vars
    PROVE  LedgerStep
  <1>1. ASSUME NEW t \in Thread, Call(t)
        PROVE  LedgerStep
    <2>1. CASE FreeAll(t)
      BY <2>1, FreeAllInLedger
    <2>2. CASE Allocate(t) \/ Reallocate(t) \/ Free(t) \/ Report(t)
      <3>1. SameEntries
        BY <2>2, AllocateHeap, ReallocateHeap, FreeHeap, ReportHeap
      <3>2. QED
        BY <3>1, SameLedger DEF LedgerStep
    <2>3. QED
      BY <1>1, <2>1, <2>2 DEF Call
  <1>2. ASSUME NEW t \in Thread, Continue(t)
        PROVE  LedgerStep
    <2>1. CASE AddToList(t) \/ SwapInList(t) \/ ResizeInPlace(t) \/ UnlinkFromList(t)
      BY <2>1, AddToLedger, SwapInLedger, ResizeInLedger, UnlinkInLedger
    <2>2. CASE ~(AddToList(t) \/ SwapInList(t) \/ ResizeInPlace(t) \/ UnlinkFromList(t))
      <3>1. SameEntries
        BY <1>2, <2>2, AllocateBlockHeap, EncodeReadsCountHeap, EncodeHeaderHeap, ResizeFailsHeap,
           RetireOldBlockHeap, RefillHeap, FreeBlockHeap, FreeAllBlocksHeap, FillLeaksHeap DEF Continue
      <3>2. QED
        BY <3>1, SameLedger DEF LedgerStep
    <2>3. QED
      BY <2>1, <2>2
  <1>3. CASE UNCHANGED vars
    BY <1>3, StutterHeap, SameLedger DEF LedgerStep
  <1>4. QED
    BY <1>1, <1>2, <1>3 DEF Next, Rest

\* The debug heap implements the ledger of AllocationLedger for any number of threads:
\* whatever one thread does between its sections, what the others see through the list is
\* that an allocation keeps its ID, that its RID counts its reallocations, and that it is
\* recorded and retired once.
THEOREM HeapKeepsLedger ==
    ASSUME OneToFree
    PROVE  Spec => LedgerSpec
  <1>1. Init => Ledger!Init
    <2> SUFFICES ASSUME Init
                 PROVE  Ledger!Init
      OBVIOUS
    <2>1. Heap /\ \A t \in Thread, h \in Header : ~Links(t, h)
      BY InitHeap DEF Init, Links, HasOld
    <2>2. Linked = {}
      BY <2>1, LinkedIs DEF LinkedByCalls, Init, Heap
    <2>3. LedgerSeen = Entries /\ Entries = [h \in {} |-> 0]
      BY <2>1, <2>2, LedgerIsEntries DEF Entries
    <2>4. QED
      BY <2>3 DEF Ledger!Init, LedgerSeen
  <1>2. Heap /\ Heap' /\ [Next]_vars => [Ledger!Next]_([h \in Listed(list) |-> [ID |-> memory[h].ID, RID |-> memory[h].RID]])
    <2> SUFFICES ASSUME Heap, Heap', [Next]_vars
                 PROVE  Ledger!Next \/ LedgerSeen' = LedgerSeen
      BY DEF LedgerSeen
    <2>1. LedgerSeen = Entries /\ LedgerSeen' = Entries'
      <3>1. (LedgerSeen = Entries)'
        BY LedgerIsEntries, PTL
      <3>2. QED
        BY <3>1, LedgerIsEntries
    <2>2. DOMAIN LedgerSeen = Linked /\ \A h \in Linked : LedgerSeen[h] = [ID |-> memory[h].ID, RID |-> memory[h].RID]
      BY <2>1 DEF Entries, Entry
    <2>3. CASE Entries' = Entries
      BY <2>1, <2>3
    <2>4. ASSUME NEW h \in Header \ Linked, NEW i \in 0..(IdModulus - 1),
                 Entries' = [g \in Linked \cup {h} |-> IF g = h THEN [ID |-> i, RID |-> 0] ELSE Entries[g]]
          PROVE  Ledger!Next
      <3>1. Ledger!Record(h, i)
        BY <2>1, <2>2, <2>4 DEF Ledger!Record, LedgerSeen
      <3>2. QED
        BY <2>2, <3>1 DEF Ledger!Next, LedgerSeen
    <2>5. ASSUME NEW h \in Linked, NEW n \in Header, n = h \/ n \notin Linked,
                 Entries' = [g \in (Linked \ {h}) \cup {n} |->
                    IF g = n THEN [ID |-> memory[h].ID, RID |-> memory[h].RID + 1] ELSE Entries[g]]
          PROVE  Ledger!Next
      <3>1. [LedgerSeen[h] EXCEPT !.RID = @ + 1] = [ID |-> memory[h].ID, RID |-> memory[h].RID + 1]
        BY <2>2
      <3>2. Ledger!Renew(h, n)
        BY <2>1, <2>2, <2>5, <3>1 DEF Ledger!Renew, LedgerSeen
      <3>3. QED
        BY <2>2, <3>2 DEF Ledger!Next, LedgerSeen
    <2>6. ASSUME NEW h \in Linked, Entries' = [g \in Linked \ {h} |-> Entries[g]]
          PROVE  Ledger!Next
      <3>1. Ledger!Retire({h})
        BY <2>1, <2>2, <2>6 DEF Ledger!Retire, Ledger!Without, LedgerSeen
      <3>2. QED
        BY <2>2, <3>1 DEF Ledger!Next, LedgerSeen
    <2>7. CASE Entries' = [g \in {} |-> Entries[g]]
      <3>1. Ledger!Retire(DOMAIN LedgerSeen)
        BY <2>1, <2>2, <2>7 DEF Ledger!Retire, Ledger!Without, LedgerSeen
      <3>2. QED
        BY <3>1 DEF Ledger!Next, LedgerSeen
    <2>8. LedgerStep
      BY NextInLedger
    <2>9. QED
      BY <2>3, <2>4, <2>5, <2>6, <2>7, <2>8 DEF LedgerStep
  <1>3. QED
    BY <1>1, <1>2, AlwaysHeap, PTL DEF Spec, LedgerSpec, Ledger!Spec
=============================================================================
