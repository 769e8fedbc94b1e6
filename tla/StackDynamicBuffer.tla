------------------------- MODULE StackDynamicBuffer -------------------------
(***************************************************************************)
(* stack_dynamic_buffer (lstd/memory/stack_dynamic_buffer.h): bytes in a   *)
(* part of the buffer itself, until it does not hold them and a block is   *)
(* allocated.                                                              *)
(***************************************************************************)
EXTENDS Integers, SequencesExt

CONSTANTS StackSize,
          Garbage,        \* what fresh memory holds
          Inserts,        \* what user code inserts
          MinimumBlock,   \* 8 in the code
          MaxHeld         \* bound: bytes of a buffer

\* There is a power of 2 from every size up to twice that.
BufferAssumption ==
    /\ StackSize \in Nat /\ MinimumBlock \in Nat /\ MaxHeld \in Nat
    /\ \A i \in 0..2 * MaxHeld + 1 : 2^i \in Nat
    /\ \A x \in 2..2 * MaxHeld + 1 : \E i \in 0..x : x <= 2^i /\ 2^i < 2 * x

VARIABLES data,      \* the cells that Data points at: none after free
          allocated, \* Allocated, 0 for the cells in the buffer
          count,     \* Count
          held       \* history: the bytes the buffer should have

bufferVars == <<data, allocated, count, held>>

Cells(s, n) == [i \in 1..n |-> IF i <= Len(s) THEN s[i] ELSE Garbage]

Init == /\ data = Cells(<<>>, StackSize)
        /\ allocated = 0 /\ count = 0
        /\ held = <<>>

-----------------------------------------------------------------------------
CeilPowOf2(x) == IF x <= 1 THEN 1 ELSE CHOOSE p \in {2^i : i \in 0..x} : x <= p /\ p < 2 * x

TranslateIndex(index, length) == IF index < 0 THEN length + index ELSE index

\* No need to reserve: the test of the cells in the buffer does not count what they hold.
Suffices(target) == target < StackSize \/ count + target < allocated

Grown(target) ==
    LET kept == IF allocated # 0 THEN data ELSE SubSeq(data, 1, count)
    IN  Cells(kept, Max({CeilPowOf2(target + count + 1), MinimumBlock}))

\* reserve is told how many bytes there will be, not how many more.
RequiredLater(n) == n
Required(n) == count + n

Reserved(target) == IF Suffices(target) THEN data ELSE Grown(target)
Allocated(target) == IF Suffices(target) THEN allocated ELSE Len(Grown(target))

\* What n bytes at an offset of the cells are moved to; they may overlap.
Moved(cells, to, from, n) ==
    [i \in DOMAIN cells |-> IF i - to \in 1..n THEN cells[i - to + from] ELSE cells[i]]
Put(cells, offset, s) ==
    [i \in DOMAIN cells |-> IF i - offset \in DOMAIN s THEN s[i - offset] ELSE cells[i]]

-----------------------------------------------------------------------------
\* User code does not insert into a buffer that was freed unless that allocates.
Insert(index, s) ==
    LET offset == TranslateIndex(index, count)
        cells == Reserved(Required(Len(s)))
    IN  /\ Len(held) + Len(s) <= MaxHeld /\ cells # <<>>
        /\ data' = Put(Moved(cells, offset + Len(s), offset, count - offset), offset, s)
        /\ allocated' = Allocated(Required(Len(s)))
        /\ count' = count + Len(s)
        /\ held' = SubSeq(held, 1, offset) \o s \o SubSeq(held, offset + 1, Len(held))

Reserve(n) == /\ data # <<>>
              /\ data' = Reserved(n) /\ allocated' = Allocated(n)
              /\ UNCHANGED <<count, held>>

RemoveByte(index) ==
    LET offset == TranslateIndex(index, count)
    IN  /\ data' = Moved(data, offset, offset + 1, count - offset - 1)
        /\ count' = count - 1
        /\ held' = RemoveAt(held, offset + 1)
        /\ UNCHANGED allocated

Set(index, b) ==
    LET offset == TranslateIndex(index, count)
    IN  /\ data' = Put(data, offset, <<b>>)
        /\ held' = [held EXCEPT ![offset + 1] = b]
        /\ UNCHANGED <<allocated, count>>

ResetBuffer == count' = 0 /\ held' = <<>> /\ UNCHANGED <<data, allocated>>

\* Data is null afterwards, also if it was the cells in the buffer.
Free == data' = <<>> /\ allocated' = 0 /\ count' = 0 /\ held' = <<>>

Next == \/ \E s \in Inserts : \E index \in -count..count : Insert(index, s)
        \/ \E n \in 0..MaxHeld : Reserve(n)
        \/ \E index \in -count..count - 1 : RemoveByte(index) \/ (\E s \in Inserts : s # <<>> /\ Set(index, s[1]))
        \/ ResetBuffer \/ Free

Spec == Init /\ [][Next]_bufferVars

-----------------------------------------------------------------------------
TypeOK == /\ data \in Seq(UNION {ToSet(s) : s \in Inserts} \cup {Garbage})
          /\ allocated \in Nat /\ count \in 0..MaxHeld

\* stack_dynamic_buffer.h: the buffer holds what was inserted, inside the cells it has, which
\* are those it counts as allocated.
HoldsInserted ==
    /\ count <= Len(data) /\ SubSeq(data, 1, count) = held
    /\ data # <<>> => Len(data) = IF allocated = 0 THEN StackSize ELSE allocated
=============================================================================
