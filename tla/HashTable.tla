----------------------------- MODULE HashTable -----------------------------
(***************************************************************************)
(* hash_table (lstd/memory/hash_table.h): open addressing in an array of   *)
(* slots.  reserve re-adds the items to a new array with add_prehashed,    *)
(* which may call reserve again, all on one table whose Allocated is still *)
(* the old one.  Slots stands for the three arrays; a slot is free when    *)
(* its hash is 0.  The templates remove and has_prehashed cannot be        *)
(* instantiated and have no action here.                                   *)
(***************************************************************************)
EXTENDS Integers, SequencesExt

CONSTANTS Key, Value, NoValue,
          Hash,             \* get_hash
          MINIMUM_SIZE,
          Reserves,         \* bound: numbers of items user code reserves for
          MaxFilled,        \* bound: user code reserves when no more slots are filled
          MaxAllocated,     \* bound: user code adds no items to larger tables
          MaxPower          \* bound: arrays have at most 2^MaxPower slots

FIRST_VALID_HASH == 2

VARIABLES table,
          map           \* history: what the user has put into the table

vars == <<table, map>>

EmptyTable == [Count |-> 0, Allocated |-> 0, SlotsFilled |-> 0, Slots |-> <<>>]

FreeSlot == [hash |-> 0]

\* A faulty capacity is not rounded up.
NotRounded(n) == n

CeilPowOf2(n) ==
    LET Powers == {2^e : e \in 0..MaxPower}
    IN  CHOOSE m \in Powers : n <= m /\ \A k \in Powers : n <= k => m <= k

\* Slots are counted from 1.  Probing starts at the slot of the hash and wraps.
Probe(T, hash, d) == ((hash + d) % T.Allocated) + 1

IsFree(T, hash, d) == T.Slots[Probe(T, hash, d)].hash = 0

FirstFree(T, hash) ==
    Probe(T, hash, CHOOSE d \in 0..(T.Allocated - 1) :
        IsFree(T, hash, d) /\ \A e \in 0..(d - 1) : ~IsFree(T, hash, e))

ValidHash(hash) == IF hash < FIRST_VALID_HASH THEN hash + FIRST_VALID_HASH ELSE hash

\* A faulty insertion does not look for a free slot.
PlaceAtHash(T, item) ==
    [T EXCEPT !.Count = @ + 1, !.SlotsFilled = @ + 1,
              !.Slots[Probe(T, item.hash, 0)] = [item EXCEPT !.hash = ValidHash(item.hash)]]

Place(T, item) ==
    LET hash == ValidHash(item.hash)
    IN  [T EXCEPT !.Count = @ + 1, !.SlotsFilled = @ + 1,
                  !.Slots[FirstFree(T, hash)] = [item EXCEPT !.hash = hash]]

\* A faulty test lets the table fill up.
NearlyFull(T) == T.SlotsFilled >= T.Allocated

HalfFull(T) == (T.SlotsFilled + 1) * 2 >= T.Allocated

MaxOf(a, b) == IF a > b THEN a ELSE b

Target(T, n) == MaxOf(CeilPowOf2(n + T.SlotsFilled + 1), MINIMUM_SIZE)

NewSlots(T, size) == [T EXCEPT !.Slots = [i \in 1..size |-> FreeSlot]]

\* The items of the old array that are added to the new one, in order.
Items(old) == SelectSeq(old, LAMBDA item : item.hash >= FIRST_VALID_HASH)

Slots == [hash : {0}] \cup [hash : Nat, key : Key, value : Value \cup {NoValue}]
Tables == [Count : Nat, Allocated : Nat, SlotsFilled : Nat, Slots : Seq(Slots)]

\* add_prehashed with what it calls.
AddWith(reserved, T, item) == Place(IF HalfFull(T) THEN reserved[T, T.SlotsFilled] ELSE T, item)

Reserve[T \in Tables, n \in Nat] ==
    IF T.SlotsFilled + n < T.Allocated THEN T
    ELSE LET fresh == NewSlots(T, Target(T, n))
             filled == FoldLeft(LAMBDA t, item : AddWith(Reserve, t, item), fresh,
                                Items(SubSeq(T.Slots, 1, T.Allocated)))
         IN  [filled EXCEPT !.Allocated = Target(T, n)]

AddPrehashed(T, item) == AddWith(Reserve, T, item)

Matches(slot, hash, k) == slot.hash = hash /\ slot.key = k

\* A faulty search ends at the first free slot.
FoundBeforeFree(T, k) == {d \in 0..(T.Allocated - 1) :
    /\ \A e \in 0..d : ~IsFree(T, Hash[k], e)
    /\ Matches(T.Slots[Probe(T, Hash[k], d)], Hash[k], k)}

\* find_prehashed goes through all slots, free ones too.  It compares with
\* the hash as get_hash gives it.  A hash of 0 meets the free slots, whose keys
\* are uninitialized memory that may equal k: the model takes such a slot for
\* one that does not match.
Found(T, k) == {d \in 0..(T.Allocated - 1) :
    LET slot == T.Slots[Probe(T, Hash[k], d)]
    IN  slot # FreeSlot /\ Matches(slot, Hash[k], k)}

Has(T, k) == T.Count # 0 /\ Found(T, k) # {}

\* The slot find returns.
SlotOf(T, k) == Probe(T, Hash[k], CHOOSE d \in Found(T, k) : \A e \in Found(T, k) : d <= e)

-----------------------------------------------------------------------------
NoItems == [k \in {} |-> NoValue]

Init == table = EmptyTable /\ map = NoItems

Item(k, v) == [hash |-> Hash[k], key |-> k, value |-> v]

Put(k, v) == map' = [q \in DOMAIN map \cup {k} |-> IF q = k THEN v ELSE map[q]]

\* add does not look for the key: user code adds a key it has not put yet.
Add(k, v) == /\ k \notin DOMAIN map /\ table.Allocated <= MaxAllocated
             /\ table' = AddPrehashed(table, Item(k, v))
             /\ Put(k, v)

Set(k, v) == /\ table.Allocated <= MaxAllocated
             /\ table' = IF Has(table, k) THEN [table EXCEPT !.Slots[SlotOf(table, k)].value = v]
                         ELSE AddPrehashed(table, Item(k, v))
             /\ Put(k, v)

\* operator[]: an item that is not there is added with an empty value.
Index(k) == /\ table.Allocated <= MaxAllocated
            /\ IF Has(table, k) THEN UNCHANGED vars
               ELSE table' = AddPrehashed(table, Item(k, NoValue)) /\ Put(k, NoValue)

ReserveFor(n) == /\ table.SlotsFilled <= MaxFilled
                 /\ table' = Reserve[table, n] /\ UNCHANGED map

\* reset keeps the arrays.
Reset == /\ table' = [table EXCEPT !.Count = 0, !.SlotsFilled = 0,
                                   !.Slots = [i \in 1..Len(@) |-> FreeSlot]]
         /\ map' = NoItems

Free == table' = EmptyTable /\ map' = NoItems

\* The table is replaced by its clone: the items are added to an empty table.
Clone == /\ table' = FoldLeft(AddPrehashed, EmptyTable,
                        [i \in 1..Len(Items(table.Slots)) |->
                            Item(Items(table.Slots)[i].key, Items(table.Slots)[i].value)])
         /\ UNCHANGED map

Next == \/ \E k \in Key, v \in Value : Add(k, v) \/ Set(k, v)
        \/ \E k \in Key : Index(k)
        \/ \E n \in Reserves : ReserveFor(n)
        \/ Reset \/ Free \/ Clone

Spec == Init /\ [][Next]_vars

-----------------------------------------------------------------------------
NumberOfItems == Len(Items(table.Slots))

TypeOK == /\ table.Count \in Nat /\ table.SlotsFilled \in Nat
          /\ table.Allocated \in {0} \cup {2^e : e \in 0..MaxPower}
          /\ DOMAIN map \subseteq Key /\ \A k \in DOMAIN map : map[k] \in Value

\* hash_table.h, lines 33-34: "Because the hash table can never be full, we are
\* guaranteed to find a slot eventually": at least half of the slots are free.
NeverFull == table.Allocated # 0 => 2 * NumberOfItems <= table.Allocated

\* Every key that was put is found with its last value, and no other is found,
\* however the items moved.
FindAgrees == \A k \in Key :
    /\ Has(table, k) <=> k \in DOMAIN map
    /\ Has(table, k) => table.Slots[SlotOf(table, k)].value = map[k]

\* The items in the slots are a map that changes as a map should.
Contents ==
    LET kept == Items(table.Slots)
    IN  [k \in {kept[i].key : i \in 1..Len(kept)} |->
            kept[CHOOSE i \in 1..Len(kept) : kept[i].key = k].value]

IsDictionary == INSTANCE Dictionary WITH map <- Contents
ImplementsDictionary == IsDictionary!Spec

\* hash_table.h, line 151: reserve "Makes sure the hash table has reserved
\* enough space for at least n elements": it has the slots it counts.
AllocatedIsReal == table.Allocated = Len(table.Slots)
=============================================================================
