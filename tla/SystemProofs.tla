---------------------------- MODULE SystemProofs ----------------------------
(***************************************************************************)
(* The components that stand side by side in MCProcess, for every value of *)
(* their constants: one section per component, with its inductive          *)
(* invariant and the properties that follow from it.                       *)
(***************************************************************************)
EXTENDS MCProcess, HeaderListProofs, SequenceTheorems, FiniteSetTheorems, TLAPS

-----------------------------------------------------------------------------
(***************************************************************************)
(* Headers: for any set of them, the pointer surgery of debug_memory keeps *)
(* the list in the order allocator.h promises.                             *)
(***************************************************************************)
\* The inductive invariant: a sequence of distinct headers, and pointers that
\* stand for it.
OrderInv == HeadersTypeOK /\ ListIsOrder

LEMMA OrderInitOK == HeadersInit => OrderInv
  BY DEF HeadersInit, OrderInv, HeadersTypeOK, Distinct, ListIsOrder, Represents, EmptyList, HeaderLists, Pointer

LEMMA OrderNextOK == OrderInv /\ [HeadersNext]_headers => OrderInv'
  <1> SUFFICES ASSUME OrderInv, [HeadersNext]_headers
               PROVE  OrderInv'
    OBVIOUS
  <1>1. list \in HeaderLists /\ order \in Seq(Header) /\ Distinct(order) /\ Represents(list, order)
    BY DEF OrderInv, HeadersTypeOK, ListIsOrder
  <1>2. ASSUME NEW h \in Header, Add(h)
        PROVE  OrderInv'
    <2>1. \A i \in 1..Len(order) : order[i] # h
      BY <1>2 DEF Add, Members
    <2>2. /\ order' \in Seq(Header) /\ Len(order') = Len(order) + 1 /\ order'[1] = h
          /\ \A i \in 1..Len(order) : order'[i + 1] = order[i]
      BY <1>1, <1>2, PrependedSequence DEF Add
    <2>3. list' = AddHeader(ClearLinks(list, h), h)
      BY <1>2 DEF Add
    <2>4. list' \in HeaderLists /\ Distinct(order') /\ Represents(list', order')
      BY <1>1, <2>1, <2>2, <2>3, AddHeaderCorrect
    <2>5. QED
      BY <2>2, <2>4 DEF OrderInv, HeadersTypeOK, ListIsOrder
  <1>3. ASSUME NEW k \in 1..Len(order), Unlink(k)
        PROVE  OrderInv'
    <2>1. list' = UnlinkHeader(list, order[k]) /\ order' = Dropped(order, k)
      BY <1>3 DEF Unlink
    <2>2. list' \in HeaderLists /\ order' \in Seq(Header) /\ Distinct(order') /\ Represents(list', order')
      BY <1>1, <2>1, UnlinkOrder
    <2>3. QED
      BY <2>2 DEF OrderInv, HeadersTypeOK, ListIsOrder
  <1>4. ASSUME NEW k \in 1..Len(order), NEW n \in Header, Swap(k, n)
        PROVE  OrderInv'
    <2>1. \A i \in 1..Len(order) : order[i] # n
      BY <1>4 DEF Swap, Members
    <2>2. list' = SwapHeader(ClearLinks(list, n), order[k], n) /\ order' = Replaced(order, k, n)
      BY <1>4 DEF Swap
    <2>3. list' \in HeaderLists /\ order' \in Seq(Header) /\ Distinct(order') /\ Represents(list', order')
      BY <1>1, <2>1, <2>2, SwapOrder
    <2>4. QED
      BY <2>3 DEF OrderInv, HeadersTypeOK, ListIsOrder
  <1>5. CASE UNCHANGED headers
    BY <1>5, <1>1 DEF headers, OrderInv, HeadersTypeOK, ListIsOrder
  <1>6. QED
    BY <1>2, <1>3, <1>4, <1>5 DEF HeadersNext

LEMMA OrderKept == ProcessSpec => []OrderInv
  <1>1. ProcessInit => HeadersInit
    BY DEF ProcessInit
  <1>2. [ProcessNext]_processVars => [HeadersNext]_headers
    BY DEF ProcessNext, Of, processVars, headers
  <1> QED
    BY <1>1, <1>2, OrderInitOK, OrderNextOK, PTL DEF ProcessSpec

\* Whatever set of headers there is and however add_header, unlink_header and
\* swap_header are mixed, the pointers stand for the promised order.
THEOREM ListIsAlwaysOrder == ProcessSpec => [](HeadersTypeOK /\ ListIsOrder)
  BY OrderKept, PTL DEF OrderInv

\* In such a list no assert of unlink_header or swap_header can fire for a
\* header that is in it.
THEOREM AssertsNeverFire == ProcessSpec => []NoAssertFires
  <1>1. OrderInv => NoAssertFires
    <2> SUFFICES ASSUME OrderInv, NEW k \in 1..Len(order)
                 PROVE  ~UnlinkFails(list, order[k]) /\ ~SwapFails(list)
      BY DEF NoAssertFires, Members
    <2>1. /\ order \in Seq(Header) /\ Distinct(order) /\ Represents(list, order)
          /\ list \in HeaderLists
      BY DEF OrderInv, HeadersTypeOK, ListIsOrder
    <2>2. /\ \A i \in 1..Len(order) : order[i] \in Header /\ order[i] # Null
          /\ order # <<>> /\ Len(order) \in Nat /\ 1 \in 1..Len(order)
          /\ Len(order) \in 1..Len(order)
      BY <2>1, HeaderAssumption
    <2>3. /\ list.head = order[1]
          /\ list.prev[order[1]] = order[Len(order)]
          /\ \A i \in 1..(Len(order) - 1) : /\ list.next[order[i]] = order[i + 1]
                                            /\ list.prev[order[i + 1]] = order[i]
      BY <2>1, <2>2 DEF Represents
    <2>4. list.head # Null
      BY <2>2, <2>3
    <2>5. list.prev[order[k]] # Null
      <3>1. CASE k = 1
        BY <3>1, <2>2, <2>3
      <3>2. CASE k # 1
        <4>1. k - 1 \in 1..(Len(order) - 1) /\ k - 1 \in 1..Len(order) /\ (k - 1) + 1 = k
          BY <3>2, <2>2
        <4>2. list.prev[order[k]] = order[k - 1]
          BY <4>1, <2>3
        <4>3. QED
          BY <4>1, <4>2, <2>2
      <3>3. QED
        BY <3>1, <3>2
    <2>6. ASSUME list.prev[order[k]] # order[k], list.head = order[k]
          PROVE  list.next[order[k]] # Null
      <3>1. k = 1
        BY <2>1, <2>2, <2>3, <2>6 DEF Distinct
      <3>2. 1 \in 1..(Len(order) - 1) /\ 1 + 1 \in 1..Len(order)
        BY <3>1, <2>2, <2>3, <2>6
      <3>3. QED
        BY <3>1, <3>2, <2>2, <2>3
    <2>7. QED
      BY <2>4, <2>5, <2>6 DEF UnlinkFails, SwapFails
  <1>2. QED
    BY <1>1, OrderKept, PTL

-----------------------------------------------------------------------------
(***************************************************************************)
(* Signals: the emission that started last and in which nobody emits finds *)
(* the callbacks of its start, and has called those up to where it is.     *)
(***************************************************************************)
Found == Callback \cup {Garbage}
Loops == [next : Nat, end : Nat, block : Nat, room : Nat, inCallback : BOOLEAN, nested : BOOLEAN,
          due : SUBSET (Nat \X Callback), called : Seq(Nat \X Found)]

\* The last slot that a loop has dealt with.
Reached(l) == IF l.inCallback THEN l.next ELSE l.next - 1

\* A loop whose block was freed started with an array that has been too small since.
RoomLeft(l) == /\ l.block <= storage.block
               /\ IF l.block = storage.block THEN l.room <= storage.allocated ELSE l.room <= Len(Callbacks)

LoopInside(l) == l.end <= Len(Callbacks) /\ 1 <= l.next /\ Reached(l) <= l.end /\ RoomLeft(l)

Rising(pairs) == \A i, j \in DOMAIN pairs : i < j => pairs[i][1] < pairs[j][1]

CalledSoFar(l) == /\ l.due = {<<slot, Callbacks[slot]>> : slot \in {s \in 1..l.end : Callbacks[s] # Null}}
                  /\ Emitter!ToSet(l.called) = {p \in l.due : p[1] <= Reached(l)}
                  /\ Rising(l.called)

SignalTyped == /\ Callbacks \in Seq(Callback \cup {Null}) /\ loops \in Seq(Loops)
               /\ storage \in [block : Nat, allocated : Nat] /\ status \in {"runs", "crashed"}
               /\ \A i \in 1..Len(loops) : LoopInside(loops[i])

\* The loops around the innermost one are marked, and while it is not, removals wait; garbage is
\* called by a loop whose block was freed.
SignalInv ==
    /\ SignalTyped
    /\ \A i \in 1..Len(loops) : i # Len(loops) => loops[i].nested
    /\ status = "runs" /\ loops # <<>> /\ ~loops[Len(loops)].nested =>
           CurrentlyEmitting = TRUE /\ CalledSoFar(loops[Len(loops)])
    /\ status = "crashed" => /\ loops # <<>> /\ loops[Len(loops)].inCallback
                  /\ Len(Callbacks) >= loops[Len(loops)].room

\* The innermost loop goes on.
LEMMA TopStep ==
    ASSUME SignalInv, status = "runs", loops # <<>>, NEW l \in Loops, LoopInside(l), l.nested = loops[Len(loops)].nested,
           loops' = [loops EXCEPT ![Len(loops)] = l],
           UNCHANGED <<Callbacks, CurrentlyEmitting, ToRemove, storage, gone>>,
           status' \in {"runs", "crashed"}, status' = "crashed" => l.inCallback /\ Len(Callbacks) >= l.room,
           status' = "runs" /\ ~l.nested => CalledSoFar(l)
    PROVE  SignalInv'
  <1>1. /\ loops \in Seq(Loops) /\ Len(loops) \in Nat \ {0}
    BY EmptySeq DEF SignalInv, SignalTyped
  <1>2. /\ loops' \in Seq(Loops) /\ Len(loops') = Len(loops) /\ loops'[Len(loops)] = l
        /\ \A i \in 1..Len(loops) : i # Len(loops) => loops'[i] = loops[i]
    BY <1>1, ExceptSeq
  <1>3. SignalTyped'
    <2>1. ASSUME NEW i \in 1..Len(loops) PROVE LoopInside(loops[i])'
      <3>1. PICK t : t = loops'[i]
        OBVIOUS
      <3>2. LoopInside(t)
        BY <1>1, <1>2, <3>1 DEF SignalInv, SignalTyped
      <3> QED
        BY <3>1, <3>2 DEF LoopInside, Reached, RoomLeft
    <2> QED
      BY <1>1, <1>2, <2>1 DEF SignalInv, SignalTyped
  <1>4. CalledSoFar(l)' <=> CalledSoFar(l)
    BY DEF CalledSoFar, Rising, Reached, Emitter!ToSet
  <1>5. loops' # <<>>
    BY <1>1, <1>2, EmptySeq
  <1> QED
    BY <1>1, <1>2, <1>3, <1>4, <1>5 DEF SignalInv, CalledSoFar

LEMMA SignalInitOK == Emitter!Init => SignalInv
  <1> SUFFICES ASSUME Emitter!Init PROVE SignalInv
    OBVIOUS
  <1>1. <<>> \in Seq(Callback \cup {Null}) /\ <<>> \in Seq(Loops) /\ Len(<<>>) = 0
    BY EmptySeq
  <1> QED
    BY <1>1 DEF Emitter!Init, SignalInv, SignalTyped

\* The array changes outside the slots of the innermost loop, unless a callback of it has emitted.
LEMMA ArrayStep ==
    ASSUME SignalInv, status = "runs", Callbacks' \in Seq(Callback \cup {Null}), Len(Callbacks') >= Len(Callbacks),
           UNCHANGED status, UNCHANGED loops, storage' \in [block : Nat, allocated : Nat],
           \A l \in Loops : RoomLeft(l) => RoomLeft(l)',
           loops # <<>> /\ ~loops[Len(loops)].nested =>
                /\ CurrentlyEmitting' = TRUE
                /\ \A s \in 1..Len(Callbacks) : Callbacks'[s] = Callbacks[s]
    PROVE  SignalInv'
  <1>1. /\ loops \in Seq(Loops) /\ Len(loops) \in Nat /\ (loops # <<>> => Len(loops) \in 1..Len(loops))
        /\ Len(Callbacks) \in Nat /\ Len(Callbacks') \in Nat
    BY EmptySeq DEF SignalInv, SignalTyped
  <1>2. \A i \in 1..Len(loops) : loops[i] \in Loops /\ LoopInside(loops[i])
    BY <1>1 DEF SignalInv, SignalTyped
  <1>3. SignalTyped'
    <2>1. \A i \in 1..Len(loops) : RoomLeft(loops[i])'
      BY <1>2 DEF LoopInside
    <2>2. ASSUME NEW i \in 1..Len(loops) PROVE LoopInside(loops[i])'
      <3>1. PICK l \in Loops : l = loops[i]
        BY <1>2
      <3>2. l.end <= Len(Callbacks) /\ 1 <= l.next /\ Reached(l) <= l.end /\ l.end \in Nat
        BY <1>2, <3>1 DEF LoopInside, Loops
      <3>3. l.end <= Len(Callbacks')
        BY <1>1, <3>2
      <3> QED
        BY <2>1, <3>1, <3>2, <3>3 DEF LoopInside, Reached
    <2>3. \A i \in 1..Len(loops) : LoopInside(loops[i])'
      BY <2>2
    <2> QED
      BY <1>1, <2>3 DEF SignalInv, SignalTyped
  <1>4. ASSUME loops # <<>>, ~loops[Len(loops)].nested
        PROVE  CalledSoFar(loops[Len(loops)])'
    <2> DEFINE l == loops[Len(loops)]
    <2>1. l \in Loops /\ l.end \in Nat /\ l.end <= Len(Callbacks) /\ CalledSoFar(l)
      BY <1>1, <1>2, <1>4 DEF LoopInside, Loops, SignalInv
    <2>2. \A s \in 1..l.end : Callbacks'[s] = Callbacks[s]
      BY <2>1, <1>1, <1>4
    <2>3. {s \in 1..l.end : Callbacks'[s] # Null} = {s \in 1..l.end : Callbacks[s] # Null}
      BY <2>2
    <2>4. {<<slot, Callbacks'[slot]>> : slot \in {s \in 1..l.end : Callbacks[s] # Null}}
            = {<<slot, Callbacks[slot]>> : slot \in {s \in 1..l.end : Callbacks[s] # Null}}
      BY <2>2
    <2>5. PICK t : t = l
      OBVIOUS
    <2>6. t.due = {<<slot, Callbacks'[slot]>> : slot \in {s \in 1..t.end : Callbacks'[s] # Null}}
      BY <2>1, <2>3, <2>4, <2>5 DEF CalledSoFar
    <2>7. Emitter!ToSet(t.called) = {p \in t.due : p[1] <= Reached(t)} /\ Rising(t.called)
      BY <2>1, <2>5 DEF CalledSoFar
    <2>8. CalledSoFar(t)'
      BY <2>6, <2>7 DEF CalledSoFar, Rising, Reached, Emitter!ToSet
    <2> QED
      BY <2>5, <2>8 DEF CalledSoFar, Rising, Reached, Emitter!ToSet
  <1> QED
    BY <1>3, <1>4, <1>1 DEF SignalInv

\* When the array is too small for one more, there are as many callbacks as it had cells.
LEMMA StoreKeeps ==
    ASSUME SignalTyped, Emitter!Store(Len(Callbacks) + 1), Len(Callbacks') = Len(Callbacks) + 1
    PROVE  storage' \in [block : Nat, allocated : Nat] /\ \A l \in Loops : RoomLeft(l) => RoomLeft(l)'
  <1>1. storage \in [block : Nat, allocated : Nat] /\ Len(Callbacks) \in Nat /\ ArrayMinimum \in Nat \ {0}
    BY EmitterAssumption DEF SignalTyped, Emitter!SignalAssumption
  <1>2. CASE UNCHANGED storage
    BY <1>1, <1>2 DEF RoomLeft, Loops
  <1>3. ASSUME NEW moves \in BOOLEAN, ~(Len(Callbacks) + 1 < storage.allocated),
               storage' = [block |-> IF moves \/ storage.allocated = 0 THEN storage.block + 1 ELSE storage.block,
                           allocated |-> Emitter!Larger]
        PROVE  storage' \in [block : Nat, allocated : Nat] /\ \A l \in Loops : RoomLeft(l) => RoomLeft(l)'
    <2>1. Emitter!Larger \in Nat /\ Emitter!Larger >= storage.allocated
      BY <1>1 DEF Emitter!Larger
    <2>2. storage' \in [block : Nat, allocated : Nat] /\ storage'.allocated >= storage.allocated
      BY <1>1, <1>3, <2>1
    <2>3. storage'.block = storage.block \/ storage'.block = storage.block + 1
      BY <1>3
    <2>4. ASSUME NEW l \in Loops, RoomLeft(l) PROVE RoomLeft(l)'
      <3>1. l.block \in Nat /\ l.room \in Nat
        BY DEF Loops
      <3>2. l.block = storage.block => l.room <= storage'.allocated /\ l.room <= Len(Callbacks')
        BY <1>1, <1>3, <2>2, <2>4, <3>1 DEF RoomLeft
      <3>3. l.block # storage.block => l.room <= Len(Callbacks')
        BY <1>1, <2>4, <3>1 DEF RoomLeft
      <3>4. l.block <= storage.block /\ storage.block \in Nat
        BY <1>1, <2>4 DEF RoomLeft
      <3>5. l.block <= storage'.block /\ (l.block = storage'.block => l.block = storage.block)
        BY <2>3, <3>1, <3>4
      <3> QED
        BY <3>2, <3>3, <3>5 DEF RoomLeft
    <2> QED
      BY <2>2, <2>4
  <1> QED
    BY <1>2, <1>3 DEF Emitter!Store, Emitter!Fits

LEMMA ConnectKeeps ==
    ASSUME SignalInv, status = "runs", NEW c \in Callback \cup {Null}, Emitter!Connect(c)
    PROVE  SignalInv'
  <1>0. CASE c = Null
    <2>1. UNCHANGED <<Callbacks, storage, CurrentlyEmitting, status, loops>>
      BY <1>0 DEF Emitter!Connect
    <2> QED
      BY <2>1 DEF SignalInv, SignalTyped, LoopInside, RoomLeft, CalledSoFar, Rising, Reached, Emitter!ToSet
  <1> SUFFICES ASSUME c # Null PROVE SignalInv'
    BY <1>0
  <1>1. /\ Callbacks \in Seq(Callback \cup {Null})
        /\ Callbacks' = Append(Callbacks, c) /\ UNCHANGED <<CurrentlyEmitting, status, loops>>
        /\ Emitter!Store(Len(Callbacks) + 1)
    BY DEF SignalInv, SignalTyped, Emitter!Connect
  <1>2. /\ Callbacks' \in Seq(Callback \cup {Null}) /\ Len(Callbacks') = Len(Callbacks) + 1
        /\ \A s \in 1..Len(Callbacks) : Callbacks'[s] = Callbacks[s] /\ Len(Callbacks) \in Nat
    BY <1>1, AppendProperties
  <1>3. Len(Callbacks') >= Len(Callbacks)
    BY <1>1, <1>2
  <1>4. storage' \in [block : Nat, allocated : Nat] /\ \A l \in Loops : RoomLeft(l) => RoomLeft(l)'
    BY <1>1, <1>2, StoreKeeps DEF SignalInv
  <1> QED
    BY <1>1, <1>2, <1>3, <1>4, ArrayStep DEF SignalInv

\* Outside an emission a slot is emptied, otherwise the request is noted.
LEMMA DisconnectKeeps ==
    ASSUME SignalInv, status = "runs", NEW slot \in DOMAIN Callbacks, Emitter!Disconnect(slot)
    PROVE  SignalInv'
  <1>1. /\ Callbacks \in Seq(Callback \cup {Null}) /\ Len(Callbacks) \in Nat /\ DOMAIN Callbacks = 1..Len(Callbacks)
        /\ UNCHANGED <<CurrentlyEmitting, storage, status, loops>>
        /\ storage' \in [block : Nat, allocated : Nat]
    BY DEF SignalInv, SignalTyped, Emitter!Disconnect
  <1>2. CASE Emitter!RemoveNow(slot)
    <2>1. Callbacks' = [Callbacks EXCEPT ![slot] = Null] /\ ~CurrentlyEmitting
      BY <1>2 DEF Emitter!RemoveNow
    <2>2. Callbacks' \in Seq(Callback \cup {Null}) /\ Len(Callbacks') = Len(Callbacks)
      BY <1>1, <2>1, ExceptSeq
    <2>3. ~(loops # <<>> /\ ~loops[Len(loops)].nested)
      BY <2>1 DEF SignalInv
    <2>4. Len(Callbacks') >= Len(Callbacks)
      BY <1>1, <2>2
    <2>5. \A l \in Loops : RoomLeft(l) => RoomLeft(l)'
      BY <1>1, <2>2 DEF RoomLeft
    <2> QED
      BY <1>1, <2>2, <2>3, <2>4, <2>5, ArrayStep
  <1>3. CASE Emitter!RemoveLater(slot)
    <2>1. UNCHANGED Callbacks
      BY <1>3 DEF Emitter!RemoveLater
    <2>2. Len(Callbacks') >= Len(Callbacks) /\ Callbacks' \in Seq(Callback \cup {Null})
      BY <1>1, <2>1
    <2>3. loops # <<>> /\ ~loops[Len(loops)].nested =>
                /\ CurrentlyEmitting' = TRUE
                /\ \A s \in 1..Len(Callbacks) : Callbacks'[s] = Callbacks[s]
      BY <1>1, <2>1 DEF SignalInv
    <2>4. \A l \in Loops : RoomLeft(l) => RoomLeft(l)'
      BY <1>1, <2>1 DEF RoomLeft
    <2> QED
      BY <1>1, <2>1, <2>2, <2>3, <2>4, ArrayStep
  <1> QED
    BY <1>2, <1>3 DEF Emitter!Disconnect, Emitter!RemoveSlot

\* An emission that starts marks the loops around it.
LEMMA EmitKeeps ==
    ASSUME SignalInv, status = "runs", Emitter!Emit
    PROVE  SignalInv'
  <1> DEFINE N == Len(loops)
             Marked == [i \in 1..N |-> [loops[i] EXCEPT !.nested = TRUE]]
             L == Emitter!LoopOver(Callbacks, storage)
  <1>1. /\ loops \in Seq(Loops) /\ N \in Nat /\ Callbacks \in Seq(Callback \cup {Null}) /\ Len(Callbacks) \in Nat
        /\ CurrentlyEmitting' = TRUE /\ loops' = Append(Marked, L) /\ Callbacks' = Callbacks
        /\ storage \in [block : Nat, allocated : Nat] /\ UNCHANGED <<storage, status>>
    BY DEF SignalInv, SignalTyped, Emitter!Emit
  <1>2. ASSUME NEW i \in 1..N PROVE Marked[i] \in Loops /\ Marked[i].nested = TRUE /\ LoopInside(Marked[i])
    <2>1. loops[i] \in Loops /\ LoopInside(loops[i])
      BY <1>1 DEF SignalInv, SignalTyped
    <2> QED
      BY <2>1 DEF Loops, LoopInside, Reached, RoomLeft
  <1>3. Marked \in Seq(Loops) /\ Len(Marked) = N
    <2>1. Marked \in [1..N -> Loops]
      BY <1>2
    <2> QED
      BY <2>1, <1>1, SeqDef, LenProperties
  <1>4. /\ L = [next |-> 1, end |-> Len(Callbacks), block |-> storage.block, room |-> storage.allocated,
                inCallback |-> FALSE, due |-> Emitter!Connected(Callbacks), called |-> <<>>, nested |-> FALSE]
        /\ DOMAIN Callbacks = 1..Len(Callbacks)
    BY <1>1 DEF Emitter!LoopOver
  <1>5. Emitter!Connected(Callbacks)
            = {<<slot, Callbacks[slot]>> : slot \in {s \in 1..Len(Callbacks) : Callbacks[s] # Null}}
    BY <1>4 DEF Emitter!Connected
  <1>6. Emitter!Connected(Callbacks) \in SUBSET (Nat \X Callback)
    <2>1. \A s \in 1..Len(Callbacks) : Callbacks[s] # Null => Callbacks[s] \in Callback
      BY <1>1
    <2> QED
      BY <1>5, <2>1
  <1>7. <<>> \in Seq(Nat \X Found) /\ Len(<<>>) = 0 /\ DOMAIN <<>> = {}
    BY EmptySeq
  <1>8. L \in Loops /\ LoopInside(L) /\ ~L.nested
    BY <1>1, <1>4, <1>6, <1>7 DEF Loops, LoopInside, Reached, RoomLeft
  <1>9. CalledSoFar(L)
    <2>1. Emitter!ToSet(<<>>) = {} /\ Rising(<<>>)
      BY <1>7 DEF Emitter!ToSet, Rising
    <2>2. {p \in L.due : p[1] <= Reached(L)} = {}
      BY <1>4, <1>5, <1>1 DEF Reached
    <2> QED
      BY <2>1, <2>2, <1>4, <1>5 DEF CalledSoFar
  <1>10. /\ loops' \in Seq(Loops) /\ Len(loops') = N + 1 /\ loops'[N + 1] = L
         /\ \A i \in 1..N : loops'[i] = Marked[i]
    BY <1>1, <1>3, <1>8, AppendProperties
  <1>11. SignalTyped'
    <2>1. ASSUME NEW i \in 1..Len(loops') PROVE LoopInside(loops[i])'
      <3>1. loops'[i] = IF i \in 1..N THEN Marked[i] ELSE L
        BY <1>1, <1>10
      <3>2. LoopInside(loops'[i])
        BY <3>1, <1>2, <1>8
      <3> QED
        BY <3>2, <1>1 DEF LoopInside, Reached, RoomLeft
    <2>2. \A i \in 1..Len(loops') : LoopInside(loops[i])'
      BY <2>1
    <2> QED
      BY <1>1, <1>10, <2>2 DEF SignalTyped
  <1>12. \A i \in 1..Len(loops') : i # Len(loops') => loops'[i].nested
    BY <1>1, <1>2, <1>10
  <1>13. PICK l : l = L
    OBVIOUS
  <1>14. CalledSoFar(l)'
    <2>1. CalledSoFar(l)' <=> CalledSoFar(l)
      BY <1>1 DEF CalledSoFar, Rising, Reached, Emitter!ToSet
    <2> QED
      BY <2>1, <1>9, <1>13
  <1>15. loops'[Len(loops')] = l
    BY <1>1, <1>10, <1>13
  <1>16. CalledSoFar(loops[Len(loops)])'
    BY <1>14, <1>15 DEF CalledSoFar, Rising, Reached, Emitter!ToSet
  <1> QED
    BY <1>1, <1>11, <1>12, <1>16 DEF SignalInv

LEMMA SkipEmptyKeeps ==
    ASSUME SignalInv, status = "runs", Emitter!SkipEmpty
    PROVE  SignalInv'
  <1>1. PICK t : t = loops[Len(loops)]
    OBVIOUS
  <1>2. /\ loops \in Seq(Loops) /\ Len(loops) \in 1..Len(loops) /\ loops # <<>> /\ t \in Loops /\ LoopInside(t)
        /\ ~t.inCallback /\ t.next <= t.end /\ Callbacks[t.next] = Null
        /\ loops' = [loops EXCEPT ![Len(loops)] = [t EXCEPT !.next = @ + 1]]
        /\ UNCHANGED <<Callbacks, CurrentlyEmitting, ToRemove, storage, status, gone>>
    <2>1. loops \in Seq(Loops) /\ loops # <<>> /\ \A i \in 1..Len(loops) : LoopInside(loops[i])
      BY DEF SignalInv, SignalTyped, Emitter!SkipEmpty, Emitter!Emission
    <2>2. Len(loops) \in 1..Len(loops) /\ t \in Loops /\ LoopInside(t)
      BY <1>1, <2>1, EmptySeq
    <2>3. t.next \in Nat /\ t.end \in Nat /\ Garbage # Null
      BY <2>2, EmitterAssumption DEF Loops, Emitter!SignalAssumption
    <2> QED
      BY <1>1, <2>1, <2>2, <2>3
      DEF Emitter!SkipEmpty, Emitter!SetTop, Emitter!Top, Emitter!AtEnd, Emitter!EndOf, Emitter!Found
  <1>3. PICK l : l = [t EXCEPT !.next = @ + 1]
    OBVIOUS
  <1>4. /\ l \in Loops /\ l.nested = t.nested /\ l.end = t.end /\ l.due = t.due /\ l.called = t.called
        /\ l.next = t.next + 1 /\ l.inCallback = t.inCallback /\ t.next \in Nat /\ t.end \in Nat
        /\ l.block = t.block /\ l.room = t.room
    <2>1. t.next \in Nat /\ t.end \in Nat /\ t.next + 1 \in Nat
      BY SMTT(30), <1>2 DEF Loops
    <2>2. l = [next |-> t.next + 1, end |-> t.end, block |-> t.block, room |-> t.room,
               inCallback |-> t.inCallback, nested |-> t.nested, due |-> t.due, called |-> t.called]
      BY <1>2, <1>3 DEF Loops
    <2>3. l \in Loops
      BY <1>2, <2>1, <2>2 DEF Loops
    <2> QED
      BY <2>1, <2>2, <2>3
  <1>5. Reached(l) = t.next /\ Reached(t) = t.next - 1 /\ LoopInside(l)
    BY <1>2, <1>4 DEF Reached, LoopInside, RoomLeft
  <1>6. ~l.nested => CalledSoFar(l)
    <2> SUFFICES ASSUME ~l.nested PROVE CalledSoFar(l)
      OBVIOUS
    <2>1. CalledSoFar(t)
      BY <1>1, <1>2, <1>4 DEF SignalInv
    <2>2. \A p \in t.due : p[1] \in Nat /\ p[1] # t.next
      BY <2>1, <1>2, <1>4 DEF CalledSoFar
    <2>3. {p \in l.due : p[1] <= Reached(l)} = {p \in t.due : p[1] <= Reached(t)}
      BY <2>2, <1>4, <1>5
    <2> QED
      BY <2>1, <2>3, <1>4 DEF CalledSoFar
  <1> QED
    BY <1>1, <1>2, <1>3, <1>4, <1>5, <1>6, TopStep

\* The callback is the next one that is due.
LEMMA InvokeKeeps ==
    ASSUME SignalInv, status = "runs", Emitter!Invoke
    PROVE  SignalInv'
  <1>1. PICK t : t = loops[Len(loops)]
    OBVIOUS
  <1>2. PICK pair : pair = <<t.next, Emitter!Found(t)>>
    OBVIOUS
  <1>3. /\ loops \in Seq(Loops) /\ Len(loops) \in 1..Len(loops) /\ loops # <<>> /\ t \in Loops /\ LoopInside(t)
        /\ t.inCallback = FALSE /\ t.next <= t.end /\ t.next \in Nat /\ t.end \in Nat /\ Emitter!Found(t) # Null
        /\ loops' = [loops EXCEPT ![Len(loops)] = [t EXCEPT !.inCallback = TRUE, !.called = Append(@, pair)]]
        /\ UNCHANGED <<Callbacks, CurrentlyEmitting, ToRemove, storage, gone>>
        /\ status' = IF Emitter!Found(t) = Garbage THEN "crashed" ELSE "runs"
    <2>1. loops \in Seq(Loops) /\ loops # <<>> /\ \A i \in 1..Len(loops) : LoopInside(loops[i])
      BY DEF SignalInv, SignalTyped, Emitter!Invoke, Emitter!Emission
    <2>2. Len(loops) \in 1..Len(loops) /\ t \in Loops /\ LoopInside(t)
      BY <1>1, <2>1, EmptySeq
    <2>3. t.next \in Nat /\ t.end \in Nat /\ t.inCallback \in BOOLEAN
      BY <2>2 DEF Loops
    <2> QED
      BY <1>1, <1>2, <2>1, <2>2, <2>3
      DEF Emitter!Invoke, Emitter!SetTop, Emitter!Top, Emitter!AtEnd, Emitter!EndOf
  <1>4. PICK l : l = [t EXCEPT !.inCallback = TRUE, !.called = Append(@, pair)]
    OBVIOUS
  <1>5. /\ pair \in Nat \X Found /\ pair[1] = t.next /\ t.next \in 1..Len(Callbacks)
        /\ status' = "runs" => t.block = storage.block /\ pair = <<t.next, Callbacks[t.next]>> /\ Callbacks[t.next] # Null
        /\ status' = "crashed" => t.block # storage.block
    <2>1. Callbacks \in Seq(Callback \cup {Null}) /\ Len(Callbacks) \in Nat
      BY DEF SignalInv, SignalTyped
    <2>2. t.next \in 1..Len(Callbacks)
      BY <2>1, <1>3 DEF LoopInside
    <2> QED
      BY <2>1, <2>2, <1>2, <1>3, EmitterAssumption DEF Emitter!Found, Found, Emitter!SignalAssumption
  <1>6. /\ t.called \in Seq(Nat \X Found) /\ Len(t.called) \in Nat /\ DOMAIN t.called = 1..Len(t.called)
        /\ Append(t.called, pair) \in Seq(Nat \X Found)
        /\ DOMAIN Append(t.called, pair) = 1..(Len(t.called) + 1)
        /\ Append(t.called, pair)[Len(t.called) + 1] = pair
        /\ \A i \in 1..Len(t.called) : Append(t.called, pair)[i] = t.called[i]
    BY SMTT(30), <1>3, <1>5, AppendProperties DEF Loops
  <1>7. /\ l \in Loops /\ l.nested = t.nested /\ l.end = t.end /\ l.due = t.due /\ l.next = t.next
        /\ l.called = Append(t.called, pair) /\ l.inCallback = TRUE /\ l.block = t.block /\ l.room = t.room
    BY <1>3, <1>4, <1>6 DEF Loops
  <1>8. Reached(l) = t.next /\ Reached(t) = t.next - 1 /\ LoopInside(l)
    BY <1>3, <1>7 DEF Reached, LoopInside, RoomLeft
  <1>9. status' = "runs" /\ ~l.nested => CalledSoFar(l)
    <2> SUFFICES ASSUME status' = "runs", ~l.nested PROVE CalledSoFar(l)
      OBVIOUS
    <2>1. CalledSoFar(t)
      BY <1>1, <1>3, <1>7 DEF SignalInv
    <2>2. pair \in t.due /\ \A p \in t.due : p[1] \in Nat /\ (p[1] = t.next => p = pair)
      <3>1. t.due = {<<slot, Callbacks[slot]>> : slot \in {s \in 1..t.end : Callbacks[s] # Null}}
        BY <2>1 DEF CalledSoFar
      <3>2. t.next \in {s \in 1..t.end : Callbacks[s] # Null}
        BY <1>3, <1>5
      <3>3. ASSUME NEW p \in t.due PROVE p[1] \in Nat /\ (p[1] = t.next => p = pair)
        <4>1. PICK slot \in 1..t.end : p = <<slot, Callbacks[slot]>>
          BY <3>1
        <4> QED
          BY <4>1, <1>3, <1>5
      <3> QED
        BY <3>1, <3>2, <3>3, <1>5
    <2>3. {p \in l.due : p[1] <= Reached(l)} = {p \in t.due : p[1] <= Reached(t)} \cup {pair}
      BY <2>2, <1>3, <1>5, <1>7, <1>8
    <2>4. Emitter!ToSet(l.called) = Emitter!ToSet(t.called) \cup {pair}
      <3>1. \A p \in Emitter!ToSet(t.called) : p \in Emitter!ToSet(l.called)
        <4> SUFFICES ASSUME NEW i \in 1..Len(t.called) PROVE t.called[i] \in Emitter!ToSet(l.called)
          BY <1>6 DEF Emitter!ToSet
        <4>1. i \in DOMAIN l.called /\ l.called[i] = t.called[i]
          BY <1>6, <1>7
        <4> QED
          BY <4>1 DEF Emitter!ToSet
      <3>2. pair \in Emitter!ToSet(l.called)
        <4>1. Len(t.called) + 1 \in DOMAIN l.called /\ l.called[Len(t.called) + 1] = pair
          BY <1>6, <1>7
        <4> QED
          BY <4>1 DEF Emitter!ToSet
      <3>3. ASSUME NEW i \in DOMAIN l.called PROVE l.called[i] \in Emitter!ToSet(t.called) \cup {pair}
        <4>1. i \in 1..(Len(t.called) + 1)
          BY <1>6, <1>7
        <4>2. CASE i \in 1..Len(t.called)
          BY <4>2, <1>6, <1>7 DEF Emitter!ToSet
        <4>3. CASE i = Len(t.called) + 1
          BY <4>3, <1>6, <1>7
        <4> QED
          BY <4>1, <4>2, <4>3, <1>6
      <3> QED
        BY <3>1, <3>2, <3>3 DEF Emitter!ToSet
    <2>5. \A i \in 1..Len(t.called) : t.called[i][1] < t.next
      <3>1. \A p \in Emitter!ToSet(t.called) : p[1] <= t.next - 1 /\ p[1] \in Nat
        BY <2>1, <2>2, <1>8 DEF CalledSoFar
      <3>2. \A i \in 1..Len(t.called) : t.called[i] \in Emitter!ToSet(t.called)
        BY <1>6 DEF Emitter!ToSet
      <3>3. \A p \in Emitter!ToSet(t.called) : p[1] < t.next
        BY <3>1, <1>3
      <3> QED
        BY <3>2, <3>3
    <2>6. Rising(l.called)
      BY SMTT(30), <2>1, <2>5, <1>5, <1>6, <1>7 DEF CalledSoFar, Rising
    <2> QED
      BY <2>1, <2>3, <2>4, <2>6, <1>7 DEF CalledSoFar
  <1>10. status' \in {"runs", "crashed"} /\ (status' = "crashed" => l.inCallback /\ Len(Callbacks) >= l.room)
    BY <1>3, <1>5, <1>7 DEF LoopInside, RoomLeft, SignalInv, SignalTyped, Loops
  <1> QED
    BY <1>1, <1>3, <1>4, <1>7, <1>8, <1>9, <1>10, TopStep

LEMMA ReturnKeeps ==
    ASSUME SignalInv, status = "runs", Emitter!Return
    PROVE  SignalInv'
  <1>1. PICK t : t = loops[Len(loops)]
    OBVIOUS
  <1>2. /\ loops \in Seq(Loops) /\ Len(loops) \in 1..Len(loops) /\ loops # <<>> /\ t \in Loops /\ LoopInside(t)
        /\ t.inCallback
        /\ loops' = [loops EXCEPT ![Len(loops)] = [t EXCEPT !.inCallback = FALSE, !.next = @ + 1]]
        /\ UNCHANGED <<Callbacks, CurrentlyEmitting, ToRemove, storage, status, gone>>
    <2>1. loops \in Seq(Loops) /\ loops # <<>> /\ \A i \in 1..Len(loops) : LoopInside(loops[i])
      BY DEF SignalInv, SignalTyped, Emitter!Return, Emitter!Emission
    <2>2. Len(loops) \in 1..Len(loops) /\ t \in Loops /\ LoopInside(t)
      BY <1>1, <2>1, EmptySeq
    <2> QED
      BY <1>1, <2>1, <2>2 DEF Emitter!Return, Emitter!SetTop, Emitter!Top
  <1>3. PICK l : l = [t EXCEPT !.inCallback = FALSE, !.next = @ + 1]
    OBVIOUS
  <1>4. /\ l \in Loops /\ l.nested = t.nested /\ l.end = t.end /\ l.due = t.due /\ l.called = t.called
        /\ l.next = t.next + 1 /\ l.inCallback = FALSE /\ t.next \in Nat /\ t.end \in Nat
        /\ l.block = t.block /\ l.room = t.room
    <2>1. t.next \in Nat /\ t.end \in Nat /\ t.next + 1 \in Nat
      BY <1>2 DEF Loops
    <2>2. l = [next |-> t.next + 1, end |-> t.end, block |-> t.block, room |-> t.room,
               inCallback |-> FALSE, nested |-> t.nested, due |-> t.due, called |-> t.called]
      BY <1>2, <1>3 DEF Loops
    <2>3. l \in Loops
      BY <1>2, <2>1, <2>2 DEF Loops
    <2> QED
      BY <2>1, <2>2, <2>3
  <1>5. Reached(l) = Reached(t) /\ LoopInside(l)
    BY <1>2, <1>4 DEF Reached, LoopInside, RoomLeft
  <1>6. ~l.nested => CalledSoFar(l)
    BY <1>1, <1>2, <1>4, <1>5 DEF CalledSoFar, SignalInv
  <1> QED
    BY <1>1, <1>2, <1>3, <1>4, <1>5, <1>6, TopStep

\* The emission around the one that ends has been marked by it.
LEMMA EndsEmissionKeeps ==
    ASSUME SignalInv, status = "runs", loops # <<>>, Emitter!EndsEmission
    PROVE  SignalInv'
  <1> DEFINE N == Len(loops)
  <1>1. /\ loops \in Seq(Loops) /\ N \in Nat \ {0} /\ Callbacks \in Seq(Callback \cup {Null})
        /\ loops' = Emitter!Front(loops) /\ UNCHANGED <<storage, status>>
        /\ Callbacks' = [s \in 1..Len(Callbacks) |-> IF s \in Emitter!ToSet(ToRemove) THEN Null ELSE Callbacks[s]]
    BY EmptySeq DEF SignalInv, SignalTyped, Emitter!EndsEmission, Emitter!RemoveRequested
  <1>2. /\ loops' \in Seq(Loops) /\ Len(loops') = N - 1
        /\ \A i \in 1..(N - 1) : loops'[i] = loops[i]
    <2>1. loops' = SubSeq(loops, 1, N - 1)
      BY <1>1 DEF Emitter!Front
    <2>2. 1 \in 1..N /\ N - 1 \in 0..N /\ (N - 1) + 1 - 1 = N - 1
      BY <1>1
    <2>3. SubSeq(loops, 1, N - 1) \in Seq(Loops) /\ Len(SubSeq(loops, 1, N - 1)) = N - 1
      BY <1>1, <2>2, SubSeqProperties
    <2>4. \A i \in 1..(N - 1) : SubSeq(loops, 1, N - 1)[i] = loops[i]
      BY <1>1, <2>2, SubSeqProperties
    <2> QED
      BY <2>1, <2>3, <2>4
  <1>3. Callbacks' \in Seq(Callback \cup {Null}) /\ Len(Callbacks') = Len(Callbacks)
    <2>1. Len(Callbacks) \in Nat /\ \A s \in 1..Len(Callbacks) : Callbacks[s] \in Callback \cup {Null}
      BY <1>1
    <2>2. Callbacks' \in [1..Len(Callbacks) -> Callback \cup {Null}]
      BY <1>1, <2>1
    <2> QED
      BY <2>1, <2>2, SeqDef, LenProperties
  <1>4. SignalTyped'
    <2>1. ASSUME NEW i \in 1..(N - 1) PROVE LoopInside(loops[i])'
      BY <1>1, <1>2, <1>3 DEF SignalInv, SignalTyped, LoopInside, Reached, RoomLeft
    <2>2. \A i \in 1..Len(loops') : LoopInside(loops[i])'
      BY <1>2, <2>1
    <2> QED
      BY <1>1, <1>2, <1>3, <2>2 DEF SignalInv, SignalTyped
  <1>5. \A i \in 1..(N - 1) : loops'[i].nested
    BY <1>1, <1>2 DEF SignalInv
  <1>6. loops' = <<>> \/ Len(loops') \in 1..(N - 1)
    BY <1>1, <1>2, EmptySeq
  <1> QED
    BY <1>1, <1>2, <1>4, <1>5, <1>6 DEF SignalInv

LEMMA SignalNextOK ==
    ASSUME SignalInv, [Emitter!Next]_(Emitter!vars)
    PROVE  SignalInv'
  <1>1. CASE UNCHANGED Emitter!vars
    <2>1. UNCHANGED <<Callbacks, CurrentlyEmitting, ToRemove, storage, status, loops, gone>>
      BY <1>1 DEF Emitter!vars
    <2> QED
      BY <2>1 DEF SignalInv, SignalTyped, LoopInside, RoomLeft, CalledSoFar, Rising, Reached, Emitter!ToSet
  <1>2. CASE status = "runs" /\ (Emitter!ReturnStop \/ Emitter!Finish)
    BY <1>2, EndsEmissionKeeps DEF Emitter!ReturnStop, Emitter!Finish, Emitter!Emission
  <1> QED
    BY <1>1, <1>2, ConnectKeeps, DisconnectKeeps, EmitKeeps, SkipEmptyKeeps, InvokeKeeps, ReturnKeeps
    DEF Emitter!Next

LEMMA SignalSteps == ProcessSpec => Emitter!Init /\ [][Emitter!Next]_(Emitter!vars)
  <1>1. ProcessInit => Emitter!Init
    BY DEF ProcessInit
  <1>2. [ProcessNext]_processVars => [Emitter!Next]_(Emitter!vars)
    BY DEF ProcessNext, Of, processVars, signal, Emitter!vars
  <1> QED
    BY <1>1, <1>2, PTL DEF ProcessSpec

THEOREM SignalKept == ProcessSpec => []SignalInv
  BY SignalSteps, SignalInitOK, SignalNextOK, PTL

\* An emission that runs to its end has called, once and in the order of their slots, the
\* callbacks that were connected when it started, unless one of them emitted; it calls garbage only
\* when there are by then as many callbacks as the array had cells when it started.
THEOREM EmissionsCallWhatIsDue == ProcessSpec => []CallsWhatIsDue
  <1>1. SignalInv => CallsWhatIsDue
    <2>0. SignalInv /\ status = "crashed" => Len(Callbacks) >= loops[Len(loops)].room
      BY DEF SignalInv
    <2> SUFFICES ASSUME SignalInv, loops # <<>>,
                        NEW l, l = loops[Len(loops)], ~l.inCallback, l.next > l.end, ~l.nested
                 PROVE  /\ Emitter!ToSet(l.called) = l.due
                        /\ \A i, j \in DOMAIN l.called : i < j => l.called[i][1] < l.called[j][1]
      BY <2>0 DEF CallsWhatIsDue, Emitter!CallsWhatIsDue, Emitter!Emission, Emitter!Top, Emitter!AtEnd, Emitter!EndOf
    <2>1. loops \in Seq(Loops) /\ Len(loops) \in 1..Len(loops)
      BY EmptySeq DEF SignalInv, SignalTyped
    <2>2. l \in Loops /\ LoopInside(l) /\ CalledSoFar(l) /\ status = "runs"
      BY <2>1 DEF SignalInv, SignalTyped
    <2>3. l.next \in Nat /\ l.end \in Nat /\ l.due \in SUBSET (Nat \X Callback)
      BY <2>2 DEF Loops
    <2>4. Reached(l) = l.end
      BY <2>2, <2>3 DEF LoopInside, Reached
    <2>5. \A p \in l.due : p[1] <= l.end
      BY <2>2, <2>3 DEF CalledSoFar
    <2>6. {p \in l.due : p[1] <= Reached(l)} = l.due
      BY <2>4, <2>5
    <2> QED
      BY <2>2, <2>6 DEF CalledSoFar, Rising
  <1> QED
    BY <1>1, SignalKept, PTL

\* While an emission runs whose callbacks do not emit, no callback is removed.
THEOREM CallbacksStayWhileEmitting == ProcessSpec => NoneRemovedWhileEmitting
  <1>1. SignalInv /\ [Emitter!Next]_(Emitter!vars)
          => [loops # <<>> /\ loops' # <<>> /\ ~loops[1].nested =>
                \A s \in DOMAIN Callbacks : Callbacks'[s] = Callbacks[s]]_(Emitter!vars)
    <2> SUFFICES ASSUME SignalInv, Emitter!Next, status = "runs", loops # <<>>, loops' # <<>>, ~loops[1].nested
                 PROVE  \A s \in DOMAIN Callbacks : Callbacks'[s] = Callbacks[s]
      BY DEF Emitter!Next
    <2>1. /\ loops \in Seq(Loops) /\ Len(loops) \in 1..Len(loops) /\ Callbacks \in Seq(Callback \cup {Null})
          /\ DOMAIN Callbacks = 1..Len(Callbacks)
      BY EmptySeq DEF SignalInv, SignalTyped
    <2>2. Len(loops) = 1
      <3>1. Len(loops) \in Nat /\ 1 \in 1..Len(loops)
        BY <2>1
      <3>2. 1 # Len(loops) => loops[1].nested
        BY <3>1 DEF SignalInv
      <3> QED
        BY <3>2
    <2>3. CurrentlyEmitting = TRUE
      BY <2>1, <2>2 DEF SignalInv
    <2>4. CASE \E c \in Callback \cup {Null} : Emitter!Connect(c)
      BY <2>1, <2>4, AppendProperties DEF Emitter!Connect
    <2>5. CASE \E slot \in DOMAIN Callbacks : Emitter!Disconnect(slot)
      BY <2>3, <2>5 DEF Emitter!Disconnect, Emitter!RemoveSlot, Emitter!RemoveNow, Emitter!RemoveLater
    <2>6. CASE Emitter!ReturnStop \/ Emitter!Finish
      <3>1. loops' = SubSeq(loops, 1, 0)
        BY <2>2, <2>6 DEF Emitter!ReturnStop, Emitter!Finish, Emitter!EndsEmission, Emitter!Front
      <3>2. loops' = <<>>
        BY <2>1, <3>1, SubSeqProperties, EmptySeq
      <3> QED
        BY <3>2
    <2> QED
      BY <2>4, <2>5, <2>6
      DEF Emitter!Next, Emitter!Emit, Emitter!SkipEmpty, Emitter!Invoke, Emitter!Return
  <1> QED
    BY <1>1, SignalKept, SignalSteps, PTL
    DEF NoneRemovedWhileEmitting, Emitter!NoneRemovedWhileEmitting, Emitter!Emission

-----------------------------------------------------------------------------
(***************************************************************************)
(* The start of threads: until a thread runs, its parent is as it was at   *)
(* the launch.                                                             *)
(***************************************************************************)
LaunchValues == Starting!Allocators \cup {Garbage}

LaunchTyped ==
    /\ state \in [Thread -> Starting!States] /\ parent \in [Thread -> Thread]
    /\ Alloc \in [Thread -> LaunchValues] /\ scopes \in [Thread -> Seq(LaunchValues)]
    /\ launched \in [Thread -> LaunchValues]

\* A thread has scopes only once it runs.
LaunchScopesOK == \A c \in Thread : state[c] \in {"absent", "created", "copied"} => scopes[c] = <<>>

\* Until a thread runs, its parent is as it was at the launch, and so is what was copied.
LaunchParentOK == \A c \in Thread : state[c] \in {"created", "copied"} =>
    /\ state[parent[c]] \in {"running", "waiting"}
    /\ Alloc[parent[c]] = launched[c]
    /\ state[c] = "copied" => Alloc[c] = launched[c]

\* Starting!StartsAsLaunched is about threads that run; this follows them from the launch on.
LaunchInv == LaunchTyped /\ LaunchScopesOK /\ LaunchParentOK /\ Starting!StartsAsLaunched

-----------------------------------------------------------------------------
LEMMA FrontOfScopes ==
    ASSUME NEW V, NEW s \in Seq(V), s # <<>>
    PROVE  /\ Starting!Last(s) \in V /\ Starting!Front(s) \in Seq(V)
           /\ Starting!Front(s) = <<>> => Starting!Last(s) = s[1]
           /\ Starting!Front(s) # <<>> => Starting!Front(s)[1] = s[1]
  <1> DEFINE n == Len(s) - 1
             F == SubSeq(s, 1, n)
  <1>1. n \in Nat /\ n + 1 = Len(s)
    BY EmptySeq
  <1>2. \A i \in 1..n : s[i] \in V
    BY <1>1
  <1>3. Starting!Front(s) = F /\ Starting!Last(s) = s[n + 1] /\ s[n + 1] \in V
    BY <1>1 DEF Starting!Front, Starting!Last
  <1> HIDE DEF n, F
  <1>4. /\ F \in Seq(V)
        /\ Len(F) = IF 1 <= n THEN n - 1 + 1 ELSE 0
        /\ \A i \in 1..n - 1 + 1 : F[i] = s[1 + i - 1]
    BY <1>1, <1>2, SubSeqProperties DEF F
  <1>5. CASE n = 0
    <2>1. F = <<>>
      BY <1>4, <1>5, EmptySeq
    <2> QED
      BY <1>3, <1>4, <1>5, <2>1
  <1>6. CASE n > 0
    <2>1. F[1] = s[1] /\ F # <<>>
      BY <1>1, <1>4, <1>6, EmptySeq
    <2> QED
      BY <1>3, <1>4, <2>1
  <1> QED
    BY <1>1, <1>5, <1>6

-----------------------------------------------------------------------------
LEMMA LaunchInitOK == ASSUME Main \in Thread PROVE Starting!Init => LaunchInv
  <1> SUFFICES ASSUME Main \in Thread, Starting!Init PROVE LaunchInv
    OBVIOUS
  <1>1. LaunchTyped
    <2>1. \A t \in Thread : <<>> \in Seq(LaunchValues)
      BY EmptySeq
    <2> QED
      BY <2>1 DEF Starting!Init, LaunchTyped, Starting!States, LaunchValues, Starting!Allocators
  <1> QED
    BY <1>1 DEF LaunchInv, Starting!Init, LaunchScopesOK, LaunchParentOK, Starting!StartsAsLaunched

\* The scopes of one thread change, not what it inherited.
LEMMA ScopeStep ==
    ASSUME Stays, LaunchInv, NEW t \in Thread, state[t] = "running", Starting!Starting(t) = {},
           NEW a \in LaunchValues, NEW s \in Seq(LaunchValues),
           scopes' = [scopes EXCEPT ![t] = s], Alloc' = [Alloc EXCEPT ![t] = a],
           (IF s = <<>> THEN a ELSE s[1]) = Starting!Inherited(t),
           UNCHANGED <<state, parent, infos, waitsFor, launched>>
    PROVE  LaunchInv'
  <1>1. LaunchTyped'
    BY DEF LaunchInv, LaunchTyped
  <1>2. LaunchScopesOK'
    BY DEF LaunchInv, LaunchTyped, LaunchScopesOK
  <1>3. LaunchParentOK'
    <2> SUFFICES ASSUME NEW c \in Thread, state[c] \in {"created", "copied"}
                 PROVE  /\ state[parent[c]] \in {"running", "waiting"}
                        /\ Alloc'[parent[c]] = launched[c]
                        /\ state[c] = "copied" => Alloc'[c] = launched[c]
      BY DEF LaunchParentOK
    <2>1. parent[c] # t /\ c # t
      BY DEF Starting!Starting
    <2> QED
      BY <2>1 DEF LaunchInv, LaunchParentOK, LaunchTyped
  <1>4. Starting!StartsAsLaunched'
    <2> SUFFICES ASSUME NEW c \in Thread \ {Main}, state[c] \in {"running", "waiting"}
                 PROVE  (IF scopes'[c] = <<>> THEN Alloc'[c] ELSE scopes'[c][1])
                            = IF launched[c] = Starting!TempAlloc(parent[c]) THEN Starting!TempAlloc(c) ELSE launched[c]
      BY DEF Starting!StartsAsLaunched, Starting!Inherited, Starting!TempAlloc
    <2>1. Starting!Inherited(c) = IF launched[c] = Starting!TempAlloc(parent[c]) THEN Starting!TempAlloc(c) ELSE launched[c]
      BY DEF LaunchInv, Starting!StartsAsLaunched
    <2>2. (IF scopes'[c] = <<>> THEN Alloc'[c] ELSE scopes'[c][1]) = Starting!Inherited(c)
      BY DEF LaunchInv, LaunchTyped, Starting!Inherited
    <2> QED
      BY <2>1, <2>2
  <1> QED
    BY <1>1, <1>2, <1>3, <1>4 DEF LaunchInv

LEMMA PushAllocOK ==
    ASSUME Stays, LaunchInv, NEW t \in Thread, NEW a \in Shared \cup {Starting!TempAlloc(t)}, Starting!PushAlloc(t, a)
    PROVE  LaunchInv'
  <1> DEFINE s == Append(scopes[t], Alloc[t])
  <1>1. /\ scopes[t] \in Seq(LaunchValues) /\ Alloc[t] \in LaunchValues /\ a \in LaunchValues
    BY DEF LaunchInv, LaunchTyped, LaunchValues, Starting!Allocators
  <1>2. s \in Seq(LaunchValues) /\ s # <<>> /\ s[1] = Starting!Inherited(t)
    <2>1. s \in Seq(LaunchValues) /\ Len(s) = Len(scopes[t]) + 1 /\ s[Len(s)] = Alloc[t]
          /\ \A i \in 1..Len(scopes[t]) : s[i] = scopes[t][i]
      BY <1>1, AppendProperties
    <2>2. CASE scopes[t] = <<>>
      BY <1>1, <2>1, <2>2, EmptySeq DEF Starting!Inherited
    <2>3. CASE scopes[t] # <<>>
      <3>1. Len(scopes[t]) \in Nat \ {0}
        BY <1>1, <2>3, EmptySeq
      <3> QED
        BY <2>1, <2>3, <3>1, EmptySeq DEF Starting!Inherited
    <2> QED
      BY <2>2, <2>3
  <1> HIDE DEF s
  <1>3. scopes' = [scopes EXCEPT ![t] = s]
    BY DEF Starting!PushAlloc, s
  <1> QED
    BY <1>1, <1>2, <1>3, ScopeStep DEF Starting!PushAlloc

LEMMA LeaveScopeOK ==
    ASSUME Stays, LaunchInv, NEW t \in Thread, Starting!LeaveScope(t)
    PROVE  LaunchInv'
  <1> DEFINE s == Starting!Front(scopes[t])
             a == Starting!Last(scopes[t])
  <1>1. scopes[t] \in Seq(LaunchValues) /\ scopes[t] # <<>>
    BY DEF LaunchInv, LaunchTyped, Starting!LeaveScope
  <1>2. /\ a \in LaunchValues /\ s \in Seq(LaunchValues)
        /\ s = <<>> => a = scopes[t][1]
        /\ s # <<>> => s[1] = scopes[t][1]
    BY <1>1, FrontOfScopes
  <1>3. Starting!Inherited(t) = scopes[t][1]
    BY <1>1 DEF Starting!Inherited
  <1>4. scopes' = [scopes EXCEPT ![t] = s] /\ Alloc' = [Alloc EXCEPT ![t] = a]
    BY DEF Starting!LeaveScope
  <1> HIDE DEF s, a
  <1> QED
    BY <1>2, <1>3, <1>4, ScopeStep DEF Starting!LeaveScope

LEMMA LaunchOK ==
    ASSUME LaunchInv, NEW t \in Thread, NEW c \in Thread, Starting!Launch(t, c)
    PROVE  LaunchInv'
  <1>1. c # t /\ state[c] = "absent" /\ state[t] = "running"
    BY DEF Starting!Launch
  <1>2. LaunchTyped'
    BY DEF LaunchInv, LaunchTyped, Starting!Launch, Starting!States
  <1>3. LaunchScopesOK'
    BY DEF LaunchInv, LaunchTyped, Starting!Launch, LaunchScopesOK
  <1>4. LaunchParentOK'
    <2> SUFFICES ASSUME NEW u \in Thread, state'[u] \in {"created", "copied"}
                 PROVE  /\ state'[parent'[u]] \in {"running", "waiting"}
                        /\ Alloc'[parent'[u]] = launched'[u]
                        /\ state'[u] = "copied" => Alloc'[u] = launched'[u]
      BY DEF LaunchParentOK
    <2>1. CASE u = c
      BY <1>1, <2>1 DEF LaunchInv, LaunchTyped, Starting!Launch
    <2>2. CASE u # c
      <3>1. /\ state[parent[u]] \in {"running", "waiting"} /\ Alloc[parent[u]] = launched[u]
            /\ state[u] = "copied" => Alloc[u] = launched[u]
            /\ parent[u] \in Thread /\ parent[u] # c
        BY <1>1, <2>2 DEF LaunchInv, LaunchTyped, Starting!Launch, LaunchParentOK
      <3>2. /\ parent'[u] = parent[u] /\ launched'[u] = launched[u] /\ state'[u] = state[u]
            /\ state'[parent[u]] = state[parent[u]] /\ Alloc' = Alloc
        BY <2>2, <3>1 DEF LaunchInv, LaunchTyped, Starting!Launch
      <3> QED
        BY <3>1, <3>2
    <2> QED
      BY <2>1, <2>2
  <1>5. Starting!StartsAsLaunched'
    <2> SUFFICES ASSUME NEW u \in Thread \ {Main}, state'[u] \in {"running", "waiting"}
                 PROVE  (IF scopes'[u] = <<>> THEN Alloc'[u] ELSE scopes'[u][1])
                            = IF launched'[u] = Starting!TempAlloc(parent'[u]) THEN Starting!TempAlloc(u) ELSE launched'[u]
      BY DEF Starting!StartsAsLaunched, Starting!Inherited, Starting!TempAlloc
    <2>1. u # c /\ state[u] \in {"running", "waiting"}
      BY <1>1 DEF LaunchInv, LaunchTyped, Starting!Launch
    <2>2. parent'[u] = parent[u] /\ launched'[u] = launched[u] /\ scopes' = scopes /\ Alloc' = Alloc
      BY <2>1 DEF LaunchInv, LaunchTyped, Starting!Launch
    <2> QED
      BY <2>1, <2>2 DEF LaunchInv, Starting!StartsAsLaunched, Starting!Inherited
  <1> QED
    BY <1>2, <1>3, <1>4, <1>5 DEF LaunchInv

\* A thread waits or goes on.
LEMMA WaitsOK ==
    ASSUME LaunchInv, NEW t \in Thread, NEW w \in {"running", "waiting"}, state[t] \in {"running", "waiting"},
           state' = [state EXCEPT ![t] = w], UNCHANGED <<Alloc, scopes, parent, infos, launched>>
    PROVE  LaunchInv'
  <1>1. LaunchTyped'
    BY DEF LaunchInv, LaunchTyped, Starting!States
  <1>2. \A u \in Thread : /\ state'[u] \in {"running", "waiting"} <=> state[u] \in {"running", "waiting"}
                          /\ state[u] \notin {"running", "waiting"} => state'[u] = state[u]
    BY DEF LaunchInv, LaunchTyped
  <1>3. LaunchScopesOK'
    BY <1>2 DEF LaunchInv, LaunchScopesOK, LaunchTyped
  <1>4. LaunchParentOK'
    BY <1>2 DEF LaunchInv, LaunchParentOK, LaunchTyped
  <1>5. Starting!StartsAsLaunched'
    BY <1>2 DEF LaunchInv, Starting!StartsAsLaunched, Starting!Inherited, Starting!TempAlloc
  <1> QED
    BY <1>1, <1>3, <1>4, <1>5 DEF LaunchInv

LEMMA CopyContextOK ==
    ASSUME LaunchInv, NEW c \in Thread, Starting!CopyContext(c)
    PROVE  LaunchInv'
  <1>1. /\ state[c] = "created" /\ state[parent[c]] \in {"running", "waiting"} /\ parent[c] \in Thread
        /\ parent[c] # c /\ Alloc[parent[c]] = launched[c] /\ launched[c] \in LaunchValues
    BY DEF LaunchInv, LaunchTyped, LaunchParentOK, Starting!CopyContext
  <1>2. Alloc' = [Alloc EXCEPT ![c] = launched[c]] /\ state' = [state EXCEPT ![c] = "copied"]
    BY <1>1 DEF Starting!CopyContext, Starting!ContextOf
  <1>3. LaunchTyped'
    BY <1>1, <1>2 DEF LaunchInv, LaunchTyped, Starting!States, Starting!CopyContext
  <1>4. LaunchScopesOK'
    BY <1>1, <1>2 DEF LaunchInv, LaunchTyped, LaunchScopesOK, Starting!CopyContext
  <1>5. LaunchParentOK'
    <2> SUFFICES ASSUME NEW u \in Thread, state'[u] \in {"created", "copied"}
                 PROVE  /\ state'[parent[u]] \in {"running", "waiting"}
                        /\ Alloc'[parent[u]] = launched[u]
                        /\ state'[u] = "copied" => Alloc'[u] = launched[u]
      BY DEF LaunchParentOK, Starting!CopyContext
    <2>1. state[u] \in {"created", "copied"}
      BY <1>1, <1>2 DEF LaunchInv, LaunchTyped
    <2>2. /\ state[parent[u]] \in {"running", "waiting"} /\ Alloc[parent[u]] = launched[u]
          /\ state[u] = "copied" => Alloc[u] = launched[u]
          /\ parent[u] \in Thread /\ parent[u] # c
      BY <1>1, <2>1 DEF LaunchInv, LaunchTyped, LaunchParentOK
    <2> QED
      BY <1>1, <1>2, <2>1, <2>2 DEF LaunchInv, LaunchTyped
  <1>6. Starting!StartsAsLaunched'
    <2> SUFFICES ASSUME NEW u \in Thread \ {Main}, state'[u] \in {"running", "waiting"}
                 PROVE  (IF scopes[u] = <<>> THEN Alloc'[u] ELSE scopes[u][1])
                            = IF launched[u] = Starting!TempAlloc(parent[u]) THEN Starting!TempAlloc(u) ELSE launched[u]
      BY DEF Starting!StartsAsLaunched, Starting!Inherited, Starting!TempAlloc, Starting!CopyContext
    <2>1. u # c /\ state[u] \in {"running", "waiting"}
      BY <1>1, <1>2 DEF LaunchInv, LaunchTyped
    <2>2. Alloc'[u] = Alloc[u]
      BY <1>2, <2>1 DEF LaunchInv, LaunchTyped
    <2> QED
      BY <2>1, <2>2 DEF LaunchInv, Starting!StartsAsLaunched, Starting!Inherited
  <1> QED
    BY <1>3, <1>4, <1>5, <1>6 DEF LaunchInv

LEMMA RunOK ==
    ASSUME LaunchInv, NEW c \in Thread, Starting!Run(c)
    PROVE  LaunchInv'
  <1> DEFINE a == IF launched[c] = Starting!TempAlloc(parent[c]) THEN Starting!TempAlloc(c) ELSE launched[c]
  <1>1. /\ state[c] = "copied" /\ state[parent[c]] \in {"running", "waiting"} /\ parent[c] \in Thread
        /\ parent[c] # c /\ Alloc[parent[c]] = launched[c] /\ Alloc[c] = launched[c] /\ scopes[c] = <<>>
    BY DEF LaunchInv, LaunchTyped, LaunchParentOK, LaunchScopesOK, Starting!Run
  <1>2. a \in LaunchValues
    <2>1. Starting!TempAlloc(c) \in LaunchValues
      BY DEF LaunchValues, Starting!Allocators
    <2>2. launched[c] \in LaunchValues
      BY DEF LaunchInv, LaunchTyped
    <2> QED
      BY <2>1, <2>2
  <1>3. Starting!UsesTemp(parent[c]) <=> launched[c] = Starting!TempAlloc(parent[c])
    BY <1>1 DEF Starting!UsesTemp, Starting!ContextOf
  <1>4. Alloc' = [Alloc EXCEPT ![c] = a] /\ state' = [state EXCEPT ![c] = "running"]
    BY <1>1, <1>3 DEF Starting!Run
  <1> HIDE DEF a
  <1>5. LaunchTyped'
    BY <1>2, <1>4 DEF LaunchInv, LaunchTyped, Starting!States, Starting!Run
  <1>6. LaunchScopesOK'
    BY <1>4 DEF LaunchInv, LaunchTyped, LaunchScopesOK, Starting!Run
  <1>7. LaunchParentOK'
    <2> SUFFICES ASSUME NEW u \in Thread, state'[u] \in {"created", "copied"}
                 PROVE  /\ state'[parent[u]] \in {"running", "waiting"}
                        /\ Alloc'[parent[u]] = launched[u]
                        /\ state'[u] = "copied" => Alloc'[u] = launched[u]
      BY DEF LaunchParentOK, Starting!Run
    <2>1. u # c /\ state[u] \in {"created", "copied"} /\ state'[u] = state[u]
      BY <1>4 DEF LaunchInv, LaunchTyped
    <2>2. /\ state[parent[u]] \in {"running", "waiting"} /\ Alloc[parent[u]] = launched[u]
          /\ state[u] = "copied" => Alloc[u] = launched[u]
          /\ parent[u] \in Thread /\ parent[u] # c
      BY <1>1, <2>1 DEF LaunchInv, LaunchTyped, LaunchParentOK
    <2> QED
      BY <1>4, <2>1, <2>2 DEF LaunchInv, LaunchTyped
  <1>8. Starting!StartsAsLaunched'
    <2> SUFFICES ASSUME NEW u \in Thread \ {Main}, state'[u] \in {"running", "waiting"}
                 PROVE  (IF scopes[u] = <<>> THEN Alloc'[u] ELSE scopes[u][1])
                            = IF launched[u] = Starting!TempAlloc(parent[u]) THEN Starting!TempAlloc(u) ELSE launched[u]
      BY DEF Starting!StartsAsLaunched, Starting!Inherited, Starting!TempAlloc, Starting!Run
    <2>1. CASE u = c
      BY <1>1, <1>4, <2>1 DEF LaunchInv, LaunchTyped, a
    <2>2. CASE u # c
      <3>1. state[u] \in {"running", "waiting"} /\ Alloc'[u] = Alloc[u]
        BY <1>4, <2>2 DEF LaunchInv, LaunchTyped
      <3> QED
        BY <3>1 DEF LaunchInv, Starting!StartsAsLaunched, Starting!Inherited
    <2> QED
      BY <2>1, <2>2
  <1> QED
    BY <1>5, <1>6, <1>7, <1>8 DEF LaunchInv

LEMMA EndOK ==
    ASSUME Stays, LaunchInv, NEW t \in Thread, Starting!End(t)
    PROVE  LaunchInv'
  <1>1. state[t] = "running" /\ Starting!Starting(t) = {} /\ state' = [state EXCEPT ![t] = "ended"]
    BY DEF Starting!End
  <1>2. LaunchTyped'
    BY <1>1 DEF LaunchInv, LaunchTyped, Starting!States, Starting!End
  <1>3. LaunchScopesOK'
    BY <1>1 DEF LaunchInv, LaunchTyped, LaunchScopesOK, Starting!End
  <1>4. LaunchParentOK'
    <2> SUFFICES ASSUME NEW u \in Thread, state'[u] \in {"created", "copied"}
                 PROVE  /\ state'[parent[u]] \in {"running", "waiting"}
                        /\ Alloc[parent[u]] = launched[u]
                        /\ state'[u] = "copied" => Alloc[u] = launched[u]
      BY DEF LaunchParentOK, Starting!End
    <2>1. state'[u] = state[u]
      BY <1>1 DEF LaunchInv, LaunchTyped
    <2>2. parent[u] # t
      BY <1>1, <2>1 DEF Starting!Starting
    <2>3. /\ state[parent[u]] \in {"running", "waiting"} /\ Alloc[parent[u]] = launched[u]
          /\ state[u] = "copied" => Alloc[u] = launched[u]
          /\ parent[u] \in Thread
      BY <2>1 DEF LaunchInv, LaunchTyped, LaunchParentOK
    <2> QED
      BY <1>1, <2>1, <2>2, <2>3 DEF LaunchInv, LaunchTyped
  <1>5. Starting!StartsAsLaunched'
    BY <1>1 DEF LaunchInv, LaunchTyped, Starting!StartsAsLaunched, Starting!Inherited, Starting!TempAlloc, Starting!End
  <1> QED
    BY <1>2, <1>3, <1>4, <1>5 DEF LaunchInv

-----------------------------------------------------------------------------
LEMMA LaunchNextOK == ASSUME Stays PROVE LaunchInv /\ [Starting!Next]_(Starting!vars) => LaunchInv'
  <1> SUFFICES ASSUME Stays, LaunchInv, [Starting!Next]_(Starting!vars) PROVE LaunchInv'
    OBVIOUS
  <1>1. CASE Starting!Next
    <2> SUFFICES ASSUME NEW t \in Thread, Starting!Does(t) PROVE LaunchInv'
      BY <1>1 DEF Starting!Next
    <2>1. CASE \E a \in Shared \cup {Starting!TempAlloc(t)} : Starting!PushAlloc(t, a)
      BY <2>1, PushAllocOK
    <2>2. CASE Starting!LeaveScope(t)
      BY <2>2, LeaveScopeOK
    <2>3. CASE Starting!WaitReturns(t)
      BY <2>3, WaitsOK DEF Starting!WaitReturns
    <2>4. CASE Starting!CopyContext(t)
      BY <2>4, CopyContextOK
    <2>5. CASE Starting!Run(t)
      BY <2>5, RunOK
    <2>6. CASE Starting!End(t)
      BY <2>6, EndOK
    <2>7. CASE \E c \in Thread : Starting!Launch(t, c)
      BY <2>7, LaunchOK
    <2>8. CASE \E c \in Thread : Starting!Wait(t, c)
      BY <2>8, WaitsOK DEF Starting!Wait
    <2> QED
      BY <2>1, <2>2, <2>3, <2>4, <2>5, <2>6, <2>7, <2>8 DEF Starting!Does
  <1>2. CASE UNCHANGED Starting!vars
    BY <1>2 DEF Starting!vars, LaunchInv, LaunchTyped, LaunchScopesOK, LaunchParentOK, Starting!StartsAsLaunched, Starting!Inherited, Starting!TempAlloc
  <1> QED
    BY <1>1, <1>2

\* windows_thread.cpp, lines 154-165: while parents keep their contexts until the threads they
\* launched run, every thread runs with the allocator of its parent at the launch, or with its own
\* temporary one where that was the parent's.
THEOREM ThreadsStartAsLaunched ==
    ASSUME Main \in Thread, Stays PROVE ProcessSpec => []StartsAsLaunched
  <1>1. ProcessInit => LaunchInv
    BY LaunchInitOK DEF ProcessInit
  <1>2. [ProcessNext]_processVars => [Starting!Next]_(Starting!vars)
    BY DEF ProcessNext, Of, processVars, starting, Starting!vars
  <1>3. LaunchInv /\ [Starting!Next]_(Starting!vars) => LaunchInv'
    BY LaunchNextOK
  <1>4. LaunchInv => StartsAsLaunched
    BY DEF LaunchInv, StartsAsLaunched
  <1> QED
    BY <1>1, <1>2, <1>3, <1>4, PTL DEF ProcessSpec

-----------------------------------------------------------------------------
(***************************************************************************)
(* The exit of the process: a thread in the loop holds the mutex, and what *)
(* it has run is what the array begins with, which nobody takes anything   *)
(* out of.                                                                 *)
(***************************************************************************)
Scheduled == ExitFunctions.items

ExitLoops == [step : {"none", "loop", "ends"}, block : Nat, at : Nat \ {0}, end : Nat]

ExitTyped ==
    /\ {"items", "block"} \subseteq DOMAIN ExitFunctions
    /\ Scheduled \in Seq(Function) /\ ExitFunctions.block \in Nat
    /\ loop \in [Thread -> ExitLoops]
    /\ ran \in [Thread -> Seq(Function \cup {Garbage})]
    /\ due \in Seq(Function)

Begins(s, n, whole) == n <= Len(s) /\ n <= Len(whole) /\ \A i \in 1..n : s[i] = whole[i]

\* A function that schedules others has been run by the thread.
HasScheduled(t) == \E i \in 1..Len(ran[t]) : ran[t][i] \in Function /\ MCLater[ran[t][i]] # <<>>

\* Where the loop is, and what is left of the array that it began with.
InLoop(t) == /\ ExitScheduleMutex = t
             /\ Len(ran[t]) = loop[t].at - 1
             /\ loop[t].at <= loop[t].end + 1 /\ loop[t].end <= Len(Scheduled)
             /\ Begins(ran[t], Len(ran[t]), Scheduled)
             /\ Len(due) <= loop[t].end
             /\ loop[t].block # ExitFunctions.block => HasScheduled(t)

ExitInv ==
    /\ ExitTyped
    /\ Begins(due, Len(due), Scheduled)
    /\ \A t \in Thread : /\ ExitScheduleMutex = t => loop[t].step = "loop"
                         /\ loop[t].step = "none" => ran[t] = <<>>
                         /\ loop[t].step = "ends" => Begins(due, Len(due), ran[t])
                         /\ loop[t].step = "loop" /\ process = "runs" => InLoop(t)
    /\ process = "exited" => \E t \in Thread : loop[t].step = "ends"
    /\ process = "crashed" => \E t \in Thread : HasScheduled(t)

\* Appending leaves what is in the array, and where it is if nothing is appended.
LEMMA AppendedKeeps ==
    ASSUME NEW a, {"items", "block"} \subseteq DOMAIN a, a.items \in Seq(Function), a.block \in Nat,
           NEW functions \in Seq(Function), NEW moves,
           NEW b, b = Exiting!Appended(a, functions, moves)
    PROVE  /\ {"items", "block"} \subseteq DOMAIN b /\ b.items \in Seq(Function) /\ b.block \in Nat
           /\ Len(b.items) >= Len(a.items) /\ \A i \in 1..Len(a.items) : b.items[i] = a.items[i]
           /\ functions = <<>> => b.block = a.block
  <1>1. PICK joined : joined = a.items \o functions
    OBVIOUS
  <1>2. /\ joined \in Seq(Function) /\ Len(joined) >= Len(a.items)
        /\ \A i \in 1..Len(a.items) : joined[i] = a.items[i]
    BY <1>1, ConcatProperties
  <1>3. CASE functions = <<>> \/ Len(joined) < a.allocated
    <2>1. b = [a EXCEPT !.items = joined]
      BY <1>1, <1>3 DEF Exiting!Appended
    <2> QED
      BY <1>2, <2>1
  <1>4. CASE ~(functions = <<>> \/ Len(joined) < a.allocated)
    <2>1. PICK m : m = Exiting!AtLeast(Len(joined) + 1)
      OBVIOUS
    <2>2. b = [items |-> joined, allocated |-> m,
               block |-> IF moves \/ a.allocated = 0 THEN a.block + 1 ELSE a.block]
      BY <1>1, <1>4, <2>1 DEF Exiting!Appended
    <2> QED
      BY <1>2, <1>4, <2>2
  <1> QED
    BY <1>3, <1>4

LEMMA ExitInitOK ==
    ASSUME Exiting!Init, NoThread \notin Thread
    PROVE  ExitInv
  <1>1. /\ ExitFunctions = [items |-> <<>>, block |-> 0, allocated |-> 0]
        /\ loop = [t \in Thread |-> [step |-> "none", block |-> 0, at |-> 1, end |-> 0]]
        /\ ran = [t \in Thread |-> <<>>] /\ due = <<>> /\ process = "runs" /\ ExitScheduleMutex = NoThread
    BY DEF Exiting!Init, Exiting!NoLoop
  <1>2. <<>> \in Seq(Function) /\ <<>> \in Seq(Function \cup {Garbage}) /\ Len(<<>>) = 0
    BY EmptySeq
  <1>3. ExitTyped
    BY <1>1, <1>2 DEF ExitTyped, ExitLoops, Scheduled
  <1> QED
    BY <1>1, <1>2, <1>3 DEF ExitInv, Begins, Scheduled

\* Another function is scheduled only while no thread is in the loop.
LEMMA ScheduleKeeps ==
    ASSUME ExitInv, NoThread \notin Thread, NEW t \in Thread, NEW g \in Function, Exiting!exit_schedule(t, g)
    PROVE  ExitInv'
  <1>1. /\ process = "runs" /\ loop[t].step = "none" /\ ExitScheduleMutex \in {NoThread, t}
        /\ UNCHANGED <<ExitScheduleMutex, loop, ran, due, process>>
    BY DEF Exiting!exit_schedule, Exiting!CanLock
  <1>2. PICK moves \in BOOLEAN : ExitFunctions' = Exiting!Appended(ExitFunctions, <<g>>, moves)
    BY DEF Exiting!exit_schedule
  <1>3. ExitTyped /\ <<g>> \in Seq(Function)
    BY DEF ExitInv
  <1>4. /\ {"items", "block"} \subseteq DOMAIN ExitFunctions' /\ Scheduled' \in Seq(Function)
        /\ ExitFunctions'.block \in Nat /\ Len(Scheduled') >= Len(Scheduled)
        /\ \A i \in 1..Len(Scheduled) : Scheduled'[i] = Scheduled[i]
    <2>1. /\ {"items", "block"} \subseteq DOMAIN ExitFunctions /\ ExitFunctions.items \in Seq(Function)
          /\ ExitFunctions.block \in Nat
      BY <1>3 DEF ExitTyped, Scheduled
    <2>2. PICK one \in Seq(Function) : one = <<g>>
      BY <1>3
    <2>3. PICK b : b = Exiting!Appended(ExitFunctions, one, moves)
      OBVIOUS
    <2>4. /\ {"items", "block"} \subseteq DOMAIN b /\ b.items \in Seq(Function) /\ b.block \in Nat
          /\ Len(b.items) >= Len(ExitFunctions.items)
          /\ \A i \in 1..Len(ExitFunctions.items) : b.items[i] = ExitFunctions.items[i]
      BY <2>1, <2>3, AppendedKeeps
    <2> QED
      BY <1>2, <2>2, <2>3, <2>4 DEF Scheduled
  <1>5. ExitTyped'
    BY <1>1, <1>3, <1>4 DEF ExitTyped
  <1>6. \A u \in Thread : loop[u].step # "loop"
    BY <1>1 DEF ExitInv, InLoop
  <1>7. Begins(due, Len(due), Scheduled)'
    <2>1. Begins(due, Len(due), Scheduled) /\ Len(due) \in Nat /\ Len(Scheduled) \in Nat /\ Len(Scheduled') \in Nat
      BY <1>3, <1>4 DEF ExitInv, ExitTyped
    <2> QED
      BY <2>1, <1>1, <1>4 DEF Begins
  <1> QED
    BY <1>1, <1>5, <1>6, <1>7 DEF ExitInv, Begins, HasScheduled

LEMMA ExitKeeps ==
    ASSUME ExitInv, NoThread \notin Thread, NEW t \in Thread, Exiting!exit(t)
    PROVE  ExitInv'
  <1>1. /\ process = "runs" /\ loop[t].step = "none" /\ ExitScheduleMutex = NoThread /\ ExitScheduleMutex' = t
        /\ loop' = [loop EXCEPT ![t] = [step |-> "loop", block |-> ExitFunctions.block,
                                        at |-> 1, end |-> Len(Scheduled)]]
        /\ due' = IF \A u \in Thread : loop[u].step = "none" THEN Scheduled ELSE due
        /\ UNCHANGED <<ExitFunctions, ran, process>>
    BY DEF Exiting!exit, Scheduled
  <1>2. ExitTyped /\ Len(Scheduled) \in Nat /\ Len(due) \in Nat
    BY DEF ExitInv, ExitTyped
  <1>3. ExitTyped'
    BY <1>1, <1>2 DEF ExitTyped, ExitLoops, Scheduled
  <1>4. Begins(due, Len(due), Scheduled)' /\ Len(due') <= Len(Scheduled)
    BY <1>1, <1>2 DEF ExitInv, Begins, Scheduled
  <1>5. \A u \in Thread : u # t => loop'[u] = loop[u] /\ loop[u].step # "loop"
    BY <1>1, <1>2 DEF ExitInv, InLoop, ExitTyped
  <1>6. /\ loop'[t].step = "loop" /\ loop'[t].at = 1 /\ loop'[t].end = Len(Scheduled)
        /\ loop'[t].block = ExitFunctions.block
    BY <1>1, <1>2 DEF ExitTyped
  <1>7. ran[t] = <<>> /\ Len(ran[t]) = 0
    BY <1>1, EmptySeq DEF ExitInv
  <1>8. InLoop(t)'
    BY <1>1, <1>2, <1>4, <1>6, <1>7 DEF InLoop, Begins, Scheduled
  <1>9. ASSUME NEW u \in Thread
        PROVE  /\ (ExitScheduleMutex = u => loop[u].step = "loop")'
               /\ (loop[u].step = "none" => ran[u] = <<>>)'
               /\ (loop[u].step = "ends" => Begins(due, Len(due), ran[u]))'
               /\ (loop[u].step = "loop" /\ process = "runs" => InLoop(u))'
    <2>1. CASE u = t
      BY <2>1, <1>1, <1>6, <1>8
    <2>2. CASE u # t
      <3>1. loop'[u] = loop[u] /\ loop[u].step # "loop" /\ ran'[u] = ran[u]
        BY <2>2, <1>1, <1>5
      <3>2. loop[u].step = "ends" => due' = due
        BY <1>1
      <3> QED
        BY <3>1, <3>2, <2>2, <1>1 DEF ExitInv, Begins
    <2> QED
      BY <2>1, <2>2
  <1>10. process' = "runs"
    BY <1>1
  <1> QED
    BY <1>3, <1>4, <1>9, <1>10 DEF ExitInv

\* The next function runs, or what it was damages the process.
LEMMA RunNextKeeps ==
    ASSUME ExitInv, NoThread \notin Thread, Garbage \notin Function, plain \in Function,
           NEW t \in Thread, Exiting!RunNext(t)
    PROVE  ExitInv'
  <1>1. PICK g : g = Exiting!Found(loop[t])
    OBVIOUS
  <1>2. /\ process = "runs" /\ loop[t].step = "loop" /\ loop[t].at <= loop[t].end
        /\ ran' = [ran EXCEPT ![t] = Append(@, g)]
        /\ UNCHANGED <<ExitScheduleMutex, due>>
    BY <1>1 DEF Exiting!RunNext
  <1>3. /\ ExitTyped /\ InLoop(t) /\ loop[t] \in ExitLoops /\ Begins(due, Len(due), Scheduled)
        /\ Scheduled \in Seq(Function) /\ Len(Scheduled) \in Nat /\ ran[t] \in Seq(Function \cup {Garbage})
        /\ Len(ran[t]) \in Nat /\ loop[t].at \in Nat \ {0} /\ loop[t].end \in Nat /\ Len(due) \in Nat
    BY <1>2 DEF ExitInv, ExitTyped, ExitLoops
  <1>4. /\ ExitScheduleMutex = t /\ Len(ran[t]) = loop[t].at - 1 /\ loop[t].at \in 1..Len(Scheduled)
        /\ loop[t].end <= Len(Scheduled) /\ Len(due) <= loop[t].end
        /\ \A i \in 1..Len(ran[t]) : ran[t][i] = Scheduled[i]
    BY <1>2, <1>3 DEF InLoop, Begins
  <1>5. \A u \in Thread : u # t => loop[u].step # "loop" /\ ran'[u] = ran[u]
    BY <1>2, <1>3, <1>4 DEF ExitInv, InLoop, ExitTyped
  <1>6. /\ g = Garbage \/ g = Scheduled[loop[t].at]
        /\ loop[t].block = ExitFunctions.block => g = Scheduled[loop[t].at]
        /\ loop[t].block # ExitFunctions.block => g = Garbage
    BY <1>1 DEF Exiting!Found, Scheduled
  <1>7. Scheduled[loop[t].at] \in Function /\ g \in Function \cup {Garbage}
    BY <1>3, <1>4, <1>6
  <1>8. /\ ran' \in [Thread -> Seq(Function \cup {Garbage})]
        /\ ran'[t] \in Seq(Function \cup {Garbage}) /\ Len(ran'[t]) = Len(ran[t]) + 1
        /\ ran'[t][Len(ran[t]) + 1] = g /\ \A i \in 1..Len(ran[t]) : ran'[t][i] = ran[t][i]
    <2>1. ran'[t] = Append(ran[t], g) /\ ran \in [Thread -> Seq(Function \cup {Garbage})]
      BY <1>2, <1>3 DEF ExitTyped
    <2>2. Append(ran[t], g) \in Seq(Function \cup {Garbage})
      BY <1>3, <1>7, AppendProperties
    <2>3. ran' \in [Thread -> Seq(Function \cup {Garbage})]
      BY <2>1, <2>2, <1>2
    <2> QED
      BY <2>1, <2>2, <2>3, <1>3, <1>7, AppendProperties
  <1>9. HasScheduled(t) => HasScheduled(t)'
    <2> SUFFICES ASSUME NEW i \in 1..Len(ran[t]), ran[t][i] \in Function, MCLater[ran[t][i]] # <<>>
                 PROVE  HasScheduled(t)'
      BY DEF HasScheduled
    <2>1. i \in 1..Len(ran'[t]) /\ ran'[t][i] = ran[t][i]
      BY <1>3, <1>8
    <2> QED
      BY <2>1 DEF HasScheduled
  <1>10. CASE g = Garbage
    <2>1. process' = "crashed" /\ UNCHANGED <<ExitFunctions, loop>>
      BY <1>10, <1>1 DEF Exiting!RunNext
    <2>2. ExitTyped'
      BY <1>2, <1>3, <1>8, <2>1 DEF ExitTyped, Scheduled
    <2>3. HasScheduled(t)'
      BY <1>3, <1>6, <1>7, <1>9, <1>10 DEF InLoop
    <2>4. Begins(due, Len(due), Scheduled)'
      BY <1>2, <1>3, <2>1 DEF Begins, Scheduled
    <2>5. ASSUME NEW u \in Thread
          PROVE  /\ (ExitScheduleMutex = u => loop[u].step = "loop")'
                 /\ (loop[u].step = "none" => ran[u] = <<>>)'
                 /\ (loop[u].step = "ends" => Begins(due, Len(due), ran[u]))'
      <3>1. CASE u = t
        BY <3>1, <2>1, <1>2
      <3>2. CASE u # t
        BY <3>2, <2>1, <1>2, <1>5 DEF ExitInv, Begins
      <3> QED
        BY <3>1, <3>2
    <2> QED
      BY <2>1, <2>2, <2>3, <2>4, <2>5 DEF ExitInv
  <1>11. CASE g # Garbage
    <2>1. g = Scheduled[loop[t].at] /\ g \in Function /\ loop[t].block = ExitFunctions.block
      BY <1>6, <1>7, <1>11
    <2>2. PICK moves \in BOOLEAN : ExitFunctions' = Exiting!Appended(ExitFunctions, MCLater[g], moves)
      BY <1>1, <1>11 DEF Exiting!RunNext
    <2>3. loop' = [loop EXCEPT ![t].at = @ + 1] /\ process' = "runs"
      BY <1>1, <1>2, <1>11 DEF Exiting!RunNext
    <2>4. MCLater[g] \in Seq(Function)
      <3>1. MCLater[g] = <<plain>> \/ MCLater[g] = <<>>
        BY <2>1 DEF MCLater
      <3>2. <<plain>> \in Seq(Function) /\ <<>> \in Seq(Function)
        BY EmptySeq
      <3> QED
        BY <3>1, <3>2
    <2>5. /\ {"items", "block"} \subseteq DOMAIN ExitFunctions' /\ Scheduled' \in Seq(Function)
          /\ ExitFunctions'.block \in Nat /\ Len(Scheduled') >= Len(Scheduled)
          /\ \A i \in 1..Len(Scheduled) : Scheduled'[i] = Scheduled[i]
          /\ MCLater[g] = <<>> => ExitFunctions'.block = ExitFunctions.block
      <3>1. /\ {"items", "block"} \subseteq DOMAIN ExitFunctions /\ ExitFunctions.items \in Seq(Function)
            /\ ExitFunctions.block \in Nat
        BY <1>3 DEF ExitTyped, Scheduled
      <3>2. PICK b : b = Exiting!Appended(ExitFunctions, MCLater[g], moves)
        OBVIOUS
      <3>3. /\ {"items", "block"} \subseteq DOMAIN b /\ b.items \in Seq(Function) /\ b.block \in Nat
            /\ Len(b.items) >= Len(ExitFunctions.items)
            /\ \A i \in 1..Len(ExitFunctions.items) : b.items[i] = ExitFunctions.items[i]
            /\ MCLater[g] = <<>> => b.block = ExitFunctions.block
        BY <2>4, <3>1, <3>2, AppendedKeeps
      <3> QED
        BY <2>2, <3>2, <3>3 DEF Scheduled
    <2>6. /\ loop' \in [Thread -> ExitLoops] /\ loop'[t].step = "loop" /\ loop'[t].at = loop[t].at + 1
          /\ loop'[t].end = loop[t].end /\ loop'[t].block = loop[t].block
          /\ \A u \in Thread : u # t => loop'[u] = loop[u]
      <3>1. loop \in [Thread -> ExitLoops] /\ loop[t].at + 1 \in Nat \ {0}
        BY <1>3 DEF ExitTyped
      <3>2. PICK l : l = [loop[t] EXCEPT !.at = @ + 1]
        OBVIOUS
      <3>3. l = [step |-> "loop", block |-> loop[t].block, at |-> loop[t].at + 1, end |-> loop[t].end]
        BY <1>2, <1>3, <3>2 DEF ExitLoops
      <3>4. l \in ExitLoops
        BY <1>3, <3>1, <3>3 DEF ExitLoops
      <3>5. loop' = [loop EXCEPT ![t] = l]
        BY <2>3, <3>1, <3>2
      <3>6. loop' \in [Thread -> ExitLoops] /\ loop'[t] = l /\ \A u \in Thread : u # t => loop'[u] = loop[u]
        BY <3>1, <3>4, <3>5
      <3> QED
        BY <3>3, <3>6
    <2>7. ExitTyped'
      BY <1>2, <1>3, <1>8, <2>5, <2>6 DEF ExitTyped
    <2>8. Len(Scheduled') \in Nat
      BY <2>5
    <2>9. Begins(due, Len(due), Scheduled)'
      BY <1>2, <1>3, <2>5, <2>8 DEF Begins
    <2>10. Begins(ran[t], Len(ran[t]), Scheduled)'
      <3>1. \A i \in 1..Len(ran'[t]) : i \in 1..Len(Scheduled) /\ ran'[t][i] = Scheduled[i]
        <4> SUFFICES ASSUME NEW i \in 1..Len(ran'[t]) PROVE i \in 1..Len(Scheduled) /\ ran'[t][i] = Scheduled[i]
          OBVIOUS
        <4>1. i \in 1..Len(ran[t]) \/ i = Len(ran[t]) + 1
          BY <1>3, <1>8
        <4>2. i \in 1..Len(Scheduled)
          BY <4>1, <1>3, <1>4
        <4>3. ran'[t][i] = Scheduled[i]
          BY <4>1, <1>3, <1>4, <1>8, <2>1
        <4> QED
          BY <4>2, <4>3
      <3>2. Len(ran'[t]) <= Len(Scheduled')
        BY <1>3, <1>4, <1>8, <2>5, <2>8
      <3> QED
        BY <3>1, <3>2, <2>5, <1>8 DEF Begins
    <2>11. ExitFunctions'.block # loop[t].block => HasScheduled(t)'
      <3> SUFFICES ASSUME ExitFunctions'.block # loop[t].block PROVE HasScheduled(t)'
        OBVIOUS
      <3>1. MCLater[g] # <<>>
        BY <2>1, <2>5
      <3>2. Len(ran[t]) + 1 \in 1..Len(ran'[t])
        BY <1>3, <1>8
      <3> QED
        BY <3>1, <3>2, <2>1, <1>8 DEF HasScheduled
    <2>12. InLoop(t)'
      <3>1. Len(ran'[t]) = loop'[t].at - 1 /\ loop'[t].at <= loop'[t].end + 1
        BY <1>2, <1>3, <1>4, <1>8, <2>1, <2>6 DEF InLoop
      <3>2. loop'[t].end <= Len(Scheduled') /\ Len(due') <= loop'[t].end
        BY <1>2, <1>3, <1>4, <2>5, <2>6, <2>8 DEF InLoop
      <3>3. loop'[t].block # ExitFunctions'.block => HasScheduled(t)'
        BY <2>6, <2>11
      <3>4. (ExitScheduleMutex = t)'
        BY <1>2, <1>4, <2>8 DEF InLoop
      <3> QED
        BY <3>1, <3>2, <3>3, <3>4, <2>10 DEF InLoop
    <2>13. ASSUME NEW u \in Thread
           PROVE  /\ (ExitScheduleMutex = u => loop[u].step = "loop")'
                  /\ (loop[u].step = "none" => ran[u] = <<>>)'
                  /\ (loop[u].step = "ends" => Begins(due, Len(due), ran[u]))'
                  /\ (loop[u].step = "loop" /\ process = "runs" => InLoop(u))'
      <3>1. CASE u = t
        BY <3>1, <2>6, <2>12
      <3>2. CASE u # t
        BY <3>2, <2>6, <1>2, <1>5 DEF ExitInv, Begins
      <3> QED
        BY <3>1, <3>2
    <2> QED
      BY <2>3, <2>7, <2>9, <2>13 DEF ExitInv
  <1> QED
    BY <1>10, <1>11

LEMMA EndLoopKeeps ==
    ASSUME ExitInv, NoThread \notin Thread, NEW t \in Thread, Exiting!EndLoop(t)
    PROVE  ExitInv'
  <1>1. /\ process = "runs" /\ loop[t].step = "loop" /\ loop[t].at > loop[t].end
        /\ ExitScheduleMutex' = NoThread
        /\ loop' = [loop EXCEPT ![t].step = "ends"]
        /\ UNCHANGED <<ExitFunctions, ran, due, process>>
    BY DEF Exiting!EndLoop
  <1>2. /\ ExitTyped /\ InLoop(t) /\ loop[t] \in ExitLoops /\ Begins(due, Len(due), Scheduled)
        /\ Len(ran[t]) \in Nat /\ loop[t].at \in Nat /\ loop[t].end \in Nat /\ Len(due) \in Nat
    BY <1>1 DEF ExitInv, ExitTyped, ExitLoops
  <1>3. /\ loop' \in [Thread -> ExitLoops] /\ loop'[t].step = "ends"
        /\ \A u \in Thread : u # t => loop'[u] = loop[u]
    BY <1>1, <1>2 DEF ExitTyped, ExitLoops
  <1>4. ExitTyped'
    BY <1>1, <1>2, <1>3 DEF ExitTyped, Scheduled
  <1>5. Begins(due, Len(due), ran[t])
    BY <1>1, <1>2 DEF InLoop, Begins
  <1>6. ASSUME NEW u \in Thread, u # t PROVE loop[u].step # "loop"
    BY <1>1, <1>2, <1>6 DEF ExitInv, InLoop
  <1>7. ASSUME NEW u \in Thread
        PROVE  /\ (ExitScheduleMutex = u => loop[u].step = "loop")'
               /\ (loop[u].step = "none" => ran[u] = <<>>)'
               /\ (loop[u].step = "ends" => Begins(due, Len(due), ran[u]))'
               /\ (loop[u].step = "loop" /\ process = "runs" => InLoop(u))'
    <2>1. CASE u = t
      BY <2>1, <1>1, <1>3, <1>5 DEF Begins
    <2>2. CASE u # t
      BY <2>2, <1>1, <1>3, <1>6 DEF ExitInv, Begins
    <2> QED
      BY <2>1, <2>2
  <1>8. Begins(due, Len(due), Scheduled)' /\ process' = "runs"
    BY <1>1, <1>2 DEF Begins, Scheduled
  <1> QED
    BY <1>4, <1>7, <1>8 DEF ExitInv

LEMMA ProcessEndKeeps ==
    ASSUME ExitInv, NEW t \in Thread, Exiting!ExitProcess(t) \/ Exiting!abort(t)
    PROVE  ExitInv'
  <1>1. /\ process = "runs" /\ process' \in {"exited", "aborted"}
        /\ process' = "exited" => loop[t].step = "ends"
        /\ UNCHANGED <<ExitFunctions, ExitScheduleMutex, loop, ran, due>>
    BY DEF Exiting!ExitProcess, Exiting!abort
  <1> QED
    BY <1>1 DEF ExitInv, ExitTyped, Begins, Scheduled

LEMMA ExitSteps == ProcessSpec => Exiting!Init /\ [][Exiting!Next]_(Exiting!vars)
  <1>1. ProcessInit => Exiting!Init
    BY DEF ProcessInit
  <1>2. [ProcessNext]_processVars => [Exiting!Next]_(Exiting!vars)
    BY DEF ProcessNext, Of, processVars, exiting, Exiting!vars
  <1> QED
    BY <1>1, <1>2, PTL DEF ProcessSpec

\* exit runs what was scheduled before it, in every thread that exits; a function is found
\* damaged only after one that has scheduled others.
THEOREM ExitRunsWhatWasScheduled ==
    ASSUME NoThread \notin Thread, Garbage \notin Function, plain \in Function
    PROVE  ProcessSpec => []ExitRunsScheduled
  <1>1. ExitInv /\ [Exiting!Next]_(Exiting!vars) => ExitInv'
    <2> SUFFICES ASSUME ExitInv, [Exiting!Next]_(Exiting!vars) PROVE ExitInv'
      OBVIOUS
    <2>1. CASE UNCHANGED Exiting!vars
      <3>1. UNCHANGED <<ExitFunctions, ExitScheduleMutex, loop, ran, due, process>>
        BY <2>1 DEF Exiting!vars
      <3> QED
        BY <3>1 DEF ExitInv, ExitTyped, Begins, Scheduled, InLoop, HasScheduled
    <2> QED
      BY <2>1, ScheduleKeeps, ExitKeeps, RunNextKeeps, EndLoopKeeps, ProcessEndKeeps DEF Exiting!Next
  <1>2. ExitInv => ExitRunsScheduled
    <2> SUFFICES ASSUME ExitInv PROVE Exiting!ExitRunsScheduled
      BY DEF ExitRunsScheduled
    <2>1. ASSUME NEW t \in Thread, loop[t].step = "ends" PROVE Exiting!IsPrefix(due, ran[t])
      <3>1. /\ Begins(due, Len(due), ran[t]) /\ Len(due) \in Nat /\ Len(ran[t]) \in Nat
            /\ due \in Seq(Function) /\ ran[t] \in Seq(Function \cup {Garbage})
        BY <2>1 DEF ExitInv, ExitTyped
      <3>2. Len(due) <= Len(ran[t]) /\ \A i \in 1..Len(due) : due[i] = ran[t][i]
        BY <3>1 DEF Begins
      <3>3. SubSeq(due, 1, Len(due)) = SubSeq(ran[t], 1, Len(due))
        BY <3>1, <3>2
      <3> QED
        BY <3>2, <3>3 DEF Exiting!IsPrefix
    <2>2. \A t \in Thread : loop[t].step = "loop" /\ process = "runs" => Len(ran[t]) = loop[t].at - 1
      BY DEF ExitInv, InLoop
    <2>3. ASSUME NEW t \in Thread, HasScheduled(t)
          PROVE  \E g \in Exiting!ToSet(ran[t]) : g # Garbage /\ MCLater[g] # <<>>
      <3>1. PICK i \in 1..Len(ran[t]) : ran[t][i] \in Function /\ MCLater[ran[t][i]] # <<>>
        BY <2>3 DEF HasScheduled
      <3>2. ran[t][i] \in Exiting!ToSet(ran[t])
        <4>1. DOMAIN ran[t] = 1..Len(ran[t])
          BY DEF ExitInv, ExitTyped
        <4> QED
          BY <4>1, <3>1 DEF Exiting!ToSet
      <3> QED
        BY <3>1, <3>2
    <2> QED
      BY <2>1, <2>2, <2>3 DEF ExitInv, Exiting!ExitRunsScheduled
  <1> QED
    BY <1>1, <1>2, ExitInitOK, ExitSteps, PTL

-----------------------------------------------------------------------------
(***************************************************************************)
(* The console: what was written is what was shown and, behind it, what is *)
(* in the buffer, as long as nothing has been written over the buffer.     *)
(***************************************************************************)
Waiting(w) == writers[w].BufferSize - writers[w].Available
Start(w) == IF w = "COUT" THEN 0 ELSE CONSOLE_BUFFER_SIZE

Writers == [Buffer : Int, Current : Int, Available : Int, BufferSize : Int]
Cells == {"COUT", "CERR", "none"} \X Nat

\* A buffer that is not there yet, or one that is filled from its start.
BufferOK(w) ==
    \/ writers[w] = [Buffer |-> -1, Current |-> -1, Available |-> 0, BufferSize |-> 0]
    \/ /\ writers[w].Buffer = Start(w) /\ writers[w].BufferSize = CONSOLE_BUFFER_SIZE
       /\ writers[w].Current = Start(w) + Waiting(w)
       /\ writers[w].Available <= CONSOLE_BUFFER_SIZE

ConsoleTyped ==
    /\ cells \in [0..4 * CONSOLE_BUFFER_SIZE -> Cells]
    /\ writers \in [{"COUT", "CERR"} -> Writers]
    /\ shown \in [{"COUT", "CERR"} -> Seq(Cells)]
    /\ output \in [{"COUT", "CERR"} -> Seq(Cells)]
    /\ largest \in [{"COUT", "CERR"} -> Nat]

\* What no write so far can have damaged.
Unharmed(w) ==
    IF w = "COUT" THEN \/ largest["COUT"] <= CONSOLE_BUFFER_SIZE
                       \/ output["CERR"] = <<>>
    ELSE largest["COUT"] <= CONSOLE_BUFFER_SIZE

ShownFirst(w) ==
    /\ \A i \in 1..Len(shown[w]) : shown[w][i] = output[w][i]
    /\ \A i \in 1..Waiting(w) : cells[Start(w) + i - 1] = output[w][Len(shown[w]) + i]

HandlesOK == largest["CERR"] <= CONSOLE_BUFFER_SIZE
                => \A i \in 2 * CONSOLE_BUFFER_SIZE..4 * CONSOLE_BUFFER_SIZE : cells[i] = <<"none", 0>>

WriterOK(w) == /\ BufferOK(w)
               /\ Waiting(w) \in 0..2 * CONSOLE_BUFFER_SIZE
               /\ Waiting(w) <= CONSOLE_BUFFER_SIZE \/ Waiting(w) <= largest[w]
               /\ Len(output[w]) = Len(shown[w]) + Waiting(w)
               /\ Unharmed(w) => ShownFirst(w)

ConsoleInv == ConsoleTyped /\ HandlesOK /\ \A w \in {"COUT", "CERR"} : WriterOK(w)

LEMMA ConsoleInitOK ==
    ASSUME CONSOLE_BUFFER_SIZE \in Nat, Printing!Init
    PROVE  ConsoleInv
  <1>1. /\ cells = [i \in 0..4 * CONSOLE_BUFFER_SIZE |-> <<"none", 0>>]
        /\ writers = [w \in {"COUT", "CERR"} |-> [Buffer |-> -1, Current |-> -1, Available |-> 0, BufferSize |-> 0]]
        /\ shown = [w \in {"COUT", "CERR"} |-> <<>>]
        /\ output = [w \in {"COUT", "CERR"} |-> <<>>]
        /\ largest = [w \in {"COUT", "CERR"} |-> 0]
    BY DEF Printing!Init, Printing!Outputs, Printing!Untouched
  <1>2. <<>> \in Seq(Cells) /\ Len(<<>>) = 0
    BY EmptySeq
  <1>3. ConsoleTyped
    BY <1>1, <1>2 DEF ConsoleTyped, Writers, Cells
  <1>4. HandlesOK
    BY <1>1 DEF HandlesOK
  <1>5. ASSUME NEW w \in {"COUT", "CERR"} PROVE WriterOK(w)
    <2>1. writers[w] = [Buffer |-> -1, Current |-> -1, Available |-> 0, BufferSize |-> 0] /\ Waiting(w) = 0
      BY <1>1 DEF Waiting
    <2>2. shown[w] = <<>> /\ output[w] = <<>> /\ largest[w] = 0
      BY <1>1
    <2> QED
      BY <1>2, <2>1, <2>2 DEF WriterOK, BufferOK, ShownFirst
  <1> QED
    BY <1>3, <1>4, <1>5 DEF ConsoleInv

\* What is shown once the buffer is flushed: all that was written.
LEMMA FlushShows ==
    ASSUME CONSOLE_BUFFER_SIZE \in Nat, ConsoleInv, NEW w \in {"COUT", "CERR"}, NEW s, s = shown[w] \o Printing!Pending(w)
    PROVE  /\ s \in Seq(Cells) /\ Len(s) = Len(output[w])
           /\ Unharmed(w) => s = output[w]
  <1>1. /\ WriterOK(w) /\ ConsoleTyped /\ shown[w] \in Seq(Cells) /\ output[w] \in Seq(Cells)
        /\ Len(shown[w]) \in Nat /\ Waiting(w) \in Nat /\ Start(w) \in Nat /\ Len(output[w]) = Len(shown[w]) + Waiting(w)
    BY DEF ConsoleInv, ConsoleTyped, Start, WriterOK
  <1>2. Printing!Pending(w) = [i \in 1..Waiting(w) |-> cells[writers[w].Buffer + i - 1]]
    BY DEF Printing!Pending, Waiting
  <1>3. CASE Waiting(w) = 0
    <2>1. Printing!Pending(w) = <<>>
      BY <1>2, <1>3
    <2>2. s = shown[w]
      BY <2>1, <1>1
    <2>3. Unharmed(w) => \A i \in 1..Len(s) : s[i] = output[w][i]
      BY <1>1, <2>2 DEF WriterOK, ShownFirst
    <2> QED
      BY <1>1, <1>3, <2>2, <2>3, SeqEqual
  <1>4. CASE Waiting(w) # 0
    <2>1. writers[w].Buffer = Start(w) /\ Start(w) + Waiting(w) <= 3 * CONSOLE_BUFFER_SIZE
      BY <1>1, <1>4 DEF WriterOK, BufferOK, Waiting, Start
    <2>2. \A i \in 1..Waiting(w) : Start(w) + i - 1 \in 0..4 * CONSOLE_BUFFER_SIZE
      BY <1>1, <2>1
    <2>3. PICK p : p = Printing!Pending(w)
      OBVIOUS
    <2>4. p \in [1..Waiting(w) -> Cells] /\ \A i \in 1..Waiting(w) : p[i] = cells[Start(w) + i - 1]
      BY <1>1, <1>2, <2>1, <2>2, <2>3 DEF ConsoleTyped
    <2>5. p \in Seq(Cells) /\ Len(p) = Waiting(w)
      BY <2>4, <1>1, SeqDef, LenProperties
    <2>6. /\ s \in Seq(Cells) /\ Len(s) = Len(output[w])
          /\ \A i \in 1..Len(output[w]) : s[i] = IF i <= Len(shown[w]) THEN shown[w][i] ELSE p[i - Len(shown[w])]
      BY <1>1, <2>3, <2>5, ConcatProperties
    <2>7. ASSUME Unharmed(w), NEW i \in 1..Len(output[w]) PROVE s[i] = output[w][i]
      <3>1. ShownFirst(w)
        BY <1>1, <2>7 DEF WriterOK
      <3>2. CASE i <= Len(shown[w])
        BY <3>1, <3>2, <1>1, <2>6 DEF ShownFirst
      <3>3. CASE i > Len(shown[w])
        <4>1. PICK k : k = i - Len(shown[w])
          OBVIOUS
        <4>2. k \in 1..Waiting(w) /\ Len(shown[w]) + k = i
          BY <3>3, <4>1, <1>1
        <4>3. s[i] = p[k]
          BY <3>3, <4>1, <1>1, <2>6
        <4>4. p[k] = output[w][Len(shown[w]) + k]
          BY <3>1, <4>2, <2>4 DEF ShownFirst
        <4> QED
          BY <4>2, <4>3, <4>4
      <3>4. i <= Len(shown[w]) \/ i > Len(shown[w])
        BY <1>1
      <3> QED
        BY <3>2, <3>3, <3>4, Zenon
    <2> QED
      BY <2>6, <2>7, <1>1, SeqEqual
  <1> QED
    BY <1>1, <1>3, <1>4

\* A buffer that has been flushed and another one as it was.
LEMMA FlushKeeps ==
    ASSUME CONSOLE_BUFFER_SIZE \in Nat, ConsoleInv, NEW w \in {"COUT", "CERR"}, Printing!flush(w)
    PROVE  ConsoleInv'
  <1>1. PICK s : s = shown[w] \o Printing!Pending(w)
    OBVIOUS
  <1>2. PICK f0 : f0 = [Buffer |-> Start(w), Current |-> Start(w), Available |-> CONSOLE_BUFFER_SIZE,
                        BufferSize |-> CONSOLE_BUFFER_SIZE]
    OBVIOUS
  <1>3. /\ shown' = [shown EXCEPT ![w] = s] /\ writers' = [writers EXCEPT ![w] = f0]
        /\ UNCHANGED <<cells, output, largest>>
    BY <1>1, <1>2 DEF Printing!flush, Printing!Flushed, Printing!BufferOf, Start, ConsoleInv, ConsoleTyped
  <1>4. ConsoleTyped /\ s \in Seq(Cells) /\ Len(s) = Len(output[w]) /\ (Unharmed(w) => s = output[w])
    BY <1>1, FlushShows DEF ConsoleInv
  <1>5. f0 \in Writers /\ Start(w) \in Nat
    BY <1>2 DEF Writers, Start
  <1>6. ConsoleTyped'
    BY <1>3, <1>4, <1>5 DEF ConsoleTyped
  <1>7. shown'[w] = s /\ writers'[w] = f0 /\ Waiting(w)' = 0
    BY <1>2, <1>3, <1>4 DEF ConsoleTyped, Waiting
  <1>8. WriterOK(w)'
    <2>1. BufferOK(w)'
      BY <1>2, <1>5, <1>7 DEF BufferOK, Start
    <2>2. Unharmed(w)' => ShownFirst(w)'
      BY <1>3, <1>4, <1>7 DEF ShownFirst, Unharmed
    <2>3. Len(output'[w]) = Len(shown'[w]) /\ Len(output'[w]) \in Nat
      BY <1>3, <1>4, <1>7 DEF ConsoleTyped
    <2> QED
      BY <2>1, <2>2, <2>3, <1>7 DEF WriterOK
  <1>9. ASSUME NEW v \in {"COUT", "CERR"}, v # w PROVE WriterOK(v)'
    <2>1. writers'[v] = writers[v] /\ shown'[v] = shown[v]
      BY <1>3, <1>4, <1>9 DEF ConsoleTyped
    <2>2. /\ Waiting(v)' = Waiting(v) /\ output'[v] = output[v] /\ largest'[v] = largest[v]
          /\ BufferOK(v)' <=> BufferOK(v)
          /\ Unharmed(v)' <=> Unharmed(v)
      BY <2>1, <1>3 DEF BufferOK, Waiting, Unharmed, Start
    <2>3. ShownFirst(v)' <=> ShownFirst(v)
      BY <2>1, <2>2, <1>3 DEF ShownFirst, Start
    <2> QED
      BY <2>1, <2>2, <2>3 DEF ConsoleInv, WriterOK
  <1>10. HandlesOK'
    BY <1>3 DEF ConsoleInv, HandlesOK
  <1> QED
    BY <1>6, <1>8, <1>9, <1>10 DEF ConsoleInv

\* A write of n bytes in a buffer of which p bytes are waiting, when s is what is shown then.
Adds(w, n, bytes) ==
    /\ bytes = [i \in 1..n |-> <<w, Len(output[w]) + i>>]
    /\ output' = [output EXCEPT ![w] = @ \o bytes]
    /\ largest' = [largest EXCEPT ![w] = IF n > @ THEN n ELSE @]

Fills(w, n, p, bytes) ==
    /\ writers' = [writers EXCEPT ![w] = [Buffer |-> Start(w), Current |-> Start(w) + p + n,
                                          Available |-> CONSOLE_BUFFER_SIZE - p - n,
                                          BufferSize |-> CONSOLE_BUFFER_SIZE]]
    /\ cells' = [i \in DOMAIN cells |->
                    IF i - (Start(w) + p) \in 0..n - 1 THEN bytes[i - (Start(w) + p) + 1] ELSE cells[i]]

Follows(w, p, s) ==
    /\ Len(output[w]) = Len(s) + p
    /\ Unharmed(w) => /\ \A i \in 1..Len(s) : s[i] = output[w][i]
                      /\ \A i \in 1..p : cells[Start(w) + i - 1] = output[w][Len(s) + i]

LEMMA WrittenInOrder ==
    ASSUME CONSOLE_BUFFER_SIZE \in Nat, ConsoleInv, NEW w \in {"COUT", "CERR"}, NEW n \in 0..2 * CONSOLE_BUFFER_SIZE,
           NEW p \in Nat, NEW s \in Seq(Cells), NEW bytes,
           p + n <= CONSOLE_BUFFER_SIZE \/ p = 0,
           Follows(w, p, s), Adds(w, n, bytes), Fills(w, n, p, bytes),
           shown' = [shown EXCEPT ![w] = s]
    PROVE  ConsoleInv'
  <1>1. /\ ConsoleTyped /\ shown[w] \in Seq(Cells) /\ output[w] \in Seq(Cells) /\ Len(output[w]) \in Nat
        /\ largest[w] \in Nat /\ Len(s) \in Nat /\ Start(w) \in {0, CONSOLE_BUFFER_SIZE}
        /\ DOMAIN cells = 0..4 * CONSOLE_BUFFER_SIZE
    BY DEF ConsoleInv, ConsoleTyped, Start
  <1>2. bytes \in Seq(Cells) /\ Len(bytes) = n /\ bytes \in [1..n -> Cells]
    <2>1. bytes \in [1..n -> Cells] /\ n \in Nat
      BY <1>1 DEF Cells, Adds
    <2> QED
      BY <2>1, SeqDef, LenProperties
  <1>3. /\ output' \in [{"COUT", "CERR"} -> Seq(Cells)]
        /\ Len(output'[w]) = Len(output[w]) + n
        /\ \A i \in 1..Len(output[w]) : output'[w][i] = output[w][i]
        /\ \A i \in 1..n : output'[w][Len(output[w]) + i] = bytes[i]
    <2>1. PICK joined : joined = output[w] \o bytes
      OBVIOUS
    <2>2. /\ joined \in Seq(Cells) /\ Len(joined) = Len(output[w]) + n
          /\ \A i \in 1..Len(output[w]) : joined[i] = output[w][i]
          /\ \A i \in 1..n : joined[Len(output[w]) + i] = bytes[i]
      <3>1. /\ joined \in Seq(Cells) /\ Len(joined) = Len(output[w]) + n
            /\ \A i \in 1..Len(output[w]) + n :
                   joined[i] = IF i <= Len(output[w]) THEN output[w][i] ELSE bytes[i - Len(output[w])]
        BY <1>1, <1>2, <2>1, ConcatProperties
      <3>2. ASSUME NEW i \in 1..n PROVE joined[Len(output[w]) + i] = bytes[i]
        <4>1. PICK k : k = Len(output[w]) + i
          OBVIOUS
        <4>2. k \in 1..Len(output[w]) + n /\ ~(k <= Len(output[w])) /\ k - Len(output[w]) = i
          BY <4>1, <1>1
        <4> QED
          BY <3>1, <4>1, <4>2
      <3>3. \A i \in 1..Len(output[w]) : joined[i] = output[w][i]
        BY <3>1, <1>1
      <3> QED
        BY <3>1, <3>2, <3>3
    <2>3. output' = [output EXCEPT ![w] = joined]
      BY <2>1, <1>1 DEF ConsoleTyped, Adds
    <2> QED
      BY <2>2, <2>3, <1>1 DEF ConsoleTyped
  <1>4. cells' \in [0..4 * CONSOLE_BUFFER_SIZE -> Cells]
    <2> SUFFICES ASSUME NEW i \in 0..4 * CONSOLE_BUFFER_SIZE PROVE cells'[i] \in Cells
      BY <1>1 DEF Fills
    <2>1. CASE i - (Start(w) + p) \in 0..n - 1
      <3>1. i - (Start(w) + p) + 1 \in 1..n
        BY <2>1, <1>1
      <3> QED
        BY <3>1, <2>1, <1>1, <1>2 DEF Fills
    <2>2. CASE ~(i - (Start(w) + p) \in 0..n - 1)
      BY <2>2, <1>1 DEF ConsoleTyped, Fills
    <2> QED
      BY <2>1, <2>2
  <1>5. /\ writers'[w] = [Buffer |-> Start(w), Current |-> Start(w) + p + n,
                          Available |-> CONSOLE_BUFFER_SIZE - p - n, BufferSize |-> CONSOLE_BUFFER_SIZE]
        /\ writers' \in [{"COUT", "CERR"} -> Writers]
        /\ shown' \in [{"COUT", "CERR"} -> Seq(Cells)] /\ shown'[w] = s
        /\ largest' \in [{"COUT", "CERR"} -> Nat]
        /\ largest'[w] \in Nat /\ largest'[w] >= n /\ largest'[w] >= largest[w]
    <2>1. PICK it : it = [Buffer |-> Start(w), Current |-> Start(w) + p + n,
                          Available |-> CONSOLE_BUFFER_SIZE - p - n, BufferSize |-> CONSOLE_BUFFER_SIZE]
      OBVIOUS
    <2>2. it \in Writers
      BY <2>1, <1>1 DEF Writers
    <2>3. writers' = [writers EXCEPT ![w] = it]
      BY <2>1 DEF Fills
    <2>4. writers'[w] = it /\ writers' \in [{"COUT", "CERR"} -> Writers]
      BY <2>2, <2>3, <1>1 DEF ConsoleTyped
    <2>5. /\ largest' \in [{"COUT", "CERR"} -> Nat]
          /\ largest'[w] \in Nat /\ largest'[w] >= n /\ largest'[w] >= largest[w]
      BY <1>1 DEF ConsoleTyped, Adds
    <2> QED
      BY <2>1, <2>4, <2>5, <1>1 DEF ConsoleTyped
  <1>6. ConsoleTyped'
    BY <1>3, <1>4, <1>5 DEF ConsoleTyped
  <1>7. Waiting(w)' = p + n
    BY <1>5 DEF Waiting
  <1>8. ASSUME NEW i \in 1..p, Start(w) + i - 1 \in 0..4 * CONSOLE_BUFFER_SIZE
        PROVE  cells'[Start(w) + i - 1] = cells[Start(w) + i - 1]
    BY <1>1, <1>8 DEF Fills
  <1>9. ASSUME NEW i \in 1..n
        PROVE  cells'[Start(w) + p + i - 1] = bytes[i]
    <2>1. PICK place : place = Start(w) + p + i - 1
      OBVIOUS
    <2>2. place \in 0..4 * CONSOLE_BUFFER_SIZE /\ place - (Start(w) + p) \in 0..n - 1 /\ place - (Start(w) + p) + 1 = i
      BY <2>1, <1>1
    <2> QED
      BY <2>1, <2>2, <1>1 DEF Fills
  <1>10. WriterOK(w)'
    <2>1. Unharmed(w)' => Unharmed(w)
      <3>1. w = "COUT" => output'["CERR"] = output["CERR"]
        BY <1>1 DEF ConsoleTyped, Adds
      <3>2. w = "CERR" => largest'["COUT"] = largest["COUT"]
        BY <1>1 DEF ConsoleTyped, Adds
      <3>3. largest["COUT"] \in Nat /\ largest'["COUT"] \in Nat
        BY <1>1, <1>5 DEF ConsoleTyped
      <3>4. largest["COUT"] <= largest'["COUT"]
        BY <3>2, <3>3, <1>1, <1>5
      <3>5. largest'["COUT"] <= CONSOLE_BUFFER_SIZE => largest["COUT"] <= CONSOLE_BUFFER_SIZE
        BY <3>3, <3>4, <1>1
      <3> QED
        BY <3>1, <3>5 DEF Unharmed
    <2>2. ASSUME Unharmed(w) PROVE ShownFirst(w)'
      <3>1. \A i \in 1..Len(s) : s[i] = output'[w][i]
        <4>1. \A i \in 1..Len(s) : s[i] = output[w][i]
          BY <2>2 DEF Follows
        <4>2. Len(s) <= Len(output[w])
          BY <1>1 DEF Follows
        <4>3. \A i \in 1..Len(s) : i \in 1..Len(output[w])
          BY <4>2, <1>1
        <4> QED
          BY <4>1, <4>3, <1>3
      <3>2. ASSUME NEW i \in 1..(p + n) PROVE cells'[Start(w) + i - 1] = output'[w][Len(s) + i]
        <4>1. CASE i <= p
          <5>1. i \in 1..p /\ Start(w) + i - 1 \in 0..4 * CONSOLE_BUFFER_SIZE /\ Len(s) + i \in 1..Len(output[w])
            BY <4>1, <1>1 DEF Follows
          <5> QED
            BY <5>1, <2>2, <1>1, <1>3, <1>8 DEF Follows
        <4>2. CASE i > p
          <5>1. PICK k : k = i - p
            OBVIOUS
          <5>2. k \in 1..n /\ Start(w) + i - 1 = Start(w) + p + k - 1 /\ Len(s) + i = Len(output[w]) + k
            BY <4>2, <5>1, <1>1 DEF Follows
          <5> QED
            BY ZenonT(40), <5>2, <1>3, <1>9
        <4> QED
          BY <4>1, <4>2
      <3> QED
        BY <3>1, <3>2, <1>5, <1>7 DEF ShownFirst, Start
    <2>3. BufferOK(w)'
      BY <1>1, <1>5, <1>7 DEF BufferOK, Start
    <2>4. /\ p + n \in 0..2 * CONSOLE_BUFFER_SIZE
          /\ p + n <= CONSOLE_BUFFER_SIZE \/ p + n <= largest'[w]
      BY <1>5
    <2>5. Len(output'[w]) = Len(shown'[w]) + (p + n)
      <3>1. Len(output[w]) = Len(s) + p
        BY DEF Follows
      <3>2. Len(output'[w]) = (Len(s) + p) + n
        BY <3>1, <1>3
      <3>3. (Len(s) + p) + n = Len(s) + (p + n)
        BY <1>1
      <3> QED
        BY <3>2, <3>3, <1>5
    <2> QED
      BY <2>1, <2>2, <2>3, <2>4, <2>5, <1>7 DEF WriterOK
  <1>11. ASSUME NEW v \in {"COUT", "CERR"}, v # w PROVE WriterOK(v)'
    <2>1. /\ writers'[v] = writers[v] /\ shown'[v] = shown[v] /\ output'[v] = output[v] /\ largest'[v] = largest[v]
          /\ WriterOK(v) /\ Waiting(v) \in 0..2 * CONSOLE_BUFFER_SIZE /\ largest[v] \in Nat
      BY <1>1, <1>11 DEF ConsoleTyped, ConsoleInv, WriterOK, Adds, Fills
    <2>2. Waiting(v)' = Waiting(v) /\ (BufferOK(v)' <=> BufferOK(v))
      BY <2>1 DEF BufferOK, Waiting, Start
    <2>3. ASSUME Unharmed(v)' PROVE Unharmed(v) /\ ShownFirst(v)'
      <3>1. CASE n = 0
        <4>1. cells' = cells
          <5>1. \A i \in DOMAIN cells : cells'[i] = cells[i]
            BY <3>1, <1>1 DEF Fills
          <5> QED
            BY <5>1, <1>1, <1>4 DEF ConsoleTyped
        <4>2. output' = output
          <5>1. bytes = <<>>
            BY <3>1, <1>2
          <5>2. output[w] \o bytes = output[w]
            BY <5>1, <1>1
          <5> QED
            BY <5>2, <1>1 DEF ConsoleTyped, Adds
        <4>3. largest' = largest
          BY <3>1, <1>1 DEF ConsoleTyped, Adds
        <4>4. Unharmed(v)
          BY <2>3, <4>2, <4>3 DEF Unharmed
        <4> QED
          BY <4>1, <4>4, <2>1, <2>2 DEF WriterOK, ShownFirst, Start
      <3>2. CASE n # 0
        <4>1. output'[w] # <<>>
          BY <3>2, <1>3, <1>1
        <4>2. largest'["COUT"] <= CONSOLE_BUFFER_SIZE
          BY <2>3, <4>1, <1>11 DEF Unharmed
        <4>3. largest["COUT"] <= CONSOLE_BUFFER_SIZE
          BY <4>2, <1>5, <2>1, <1>1, <1>11 DEF ConsoleTyped, Adds
        <4>4. Unharmed(v) /\ ShownFirst(v)
          BY <4>3, <2>1 DEF Unharmed, WriterOK
        <4>5. ASSUME NEW i \in 1..Waiting(v) PROVE cells'[Start(v) + i - 1] = cells[Start(v) + i - 1]
          <5>1. PICK place : place = Start(v) + i - 1
            OBVIOUS
          <5>2. CASE w = "COUT"
            <6>1. Start(w) = 0 /\ Start(v) = CONSOLE_BUFFER_SIZE /\ n <= CONSOLE_BUFFER_SIZE
              BY <5>2, <4>2, <1>5, <1>11 DEF Start
            <6>2. place \in 0..4 * CONSOLE_BUFFER_SIZE /\ ~(place - (Start(w) + p) \in 0..n - 1)
              BY SMTT(30), <5>1, <6>1, <2>1
            <6> QED
              BY <5>1, <6>2, <1>1 DEF Fills
          <5>3. CASE w = "CERR"
            <6>1. Start(w) = CONSOLE_BUFFER_SIZE /\ Start(v) = 0 /\ Waiting(v) <= CONSOLE_BUFFER_SIZE
              BY <5>3, <4>3, <2>1, <1>11 DEF Start, WriterOK
            <6>2. place \in 0..4 * CONSOLE_BUFFER_SIZE /\ ~(place - (Start(w) + p) \in 0..n - 1)
              BY <5>1, <6>1, <2>1
            <6> QED
              BY <5>1, <6>2, <1>1 DEF Fills
          <5> QED
            BY <5>2, <5>3
        <4> QED
          BY <4>4, <4>5, <2>1, <2>2 DEF ShownFirst, Start
      <3> QED
        BY <3>1, <3>2
    <2> QED
      BY <2>1, <2>2, <2>3 DEF WriterOK
  <1>12. HandlesOK'
    <2> SUFFICES ASSUME largest'["CERR"] <= CONSOLE_BUFFER_SIZE,
                        NEW i \in 2 * CONSOLE_BUFFER_SIZE..4 * CONSOLE_BUFFER_SIZE
                 PROVE  cells'[i] = <<"none", 0>>
      BY DEF HandlesOK
    <2>1. largest["CERR"] <= largest'["CERR"] /\ largest["CERR"] \in Nat /\ largest'["CERR"] \in Nat
      BY SMTT(30), <1>1, <1>5 DEF ConsoleTyped, Adds
    <2>2. cells[i] = <<"none", 0>>
      BY <2>1 DEF ConsoleInv, HandlesOK
    <2>3. ~(i - (Start(w) + p) \in 0..n - 1)
      <3>1. CASE w = "COUT"
        BY <3>1, <1>1 DEF Start
      <3>2. CASE w = "CERR"
        BY <3>2, <1>1, <1>5 DEF Start
      <3> QED
        BY <3>1, <3>2
    <2> QED
      BY <2>2, <2>3, <1>1 DEF Fills
  <1> QED
    BY <1>6, <1>10, <1>11, <1>12 DEF ConsoleInv

LEMMA MovedOn ==
    ASSUME NEW it \in Writers, NEW n \in Nat, NEW c, c = it.Current + n, NEW a, a = it.Available - n
    PROVE  [it EXCEPT !.Current = @ + n, !.Available = @ - n]
             = [Buffer |-> it.Buffer, Current |-> c, Available |-> a, BufferSize |-> it.BufferSize]
  <1>1. [it EXCEPT !.Current = @ + n, !.Available = @ - n] = [it EXCEPT !.Current = c, !.Available = a]
    OBVIOUS
  <1>2. PICK b : b = it.Buffer
    OBVIOUS
  <1>3. PICK z : z = it.BufferSize
    OBVIOUS
  <1>4. PICK k : k = it.Current
    OBVIOUS
  <1>5. PICK l : l = it.Available
    OBVIOUS
  <1>6. it = [Buffer |-> b, Current |-> k, Available |-> l, BufferSize |-> z]
    BY <1>2, <1>3, <1>4, <1>5 DEF Writers
  <1>7. PICK moved : moved = [it EXCEPT !.Current = c]
    OBVIOUS
  <1>8. moved = [Buffer |-> b, Current |-> c, Available |-> l, BufferSize |-> z]
    BY <1>6, <1>7
  <1>9. [moved EXCEPT !.Available = a] = [Buffer |-> b, Current |-> c, Available |-> a, BufferSize |-> z]
    BY <1>8
  <1>10. [it EXCEPT !.Current = c, !.Available = a] = [moved EXCEPT !.Available = a]
    BY <1>7
  <1> QED
    BY <1>1, <1>2, <1>3, <1>9, <1>10

LEMMA WriteKeeps ==
    ASSUME CONSOLE_BUFFER_SIZE \in Nat, ConsoleInv, NEW w \in {"COUT", "CERR"}, NEW n \in 0..2 * CONSOLE_BUFFER_SIZE,
           Printing!write(w, n)
    PROVE  ConsoleInv'
  <1>1. PICK bytes : bytes = [i \in 1..n |-> <<w, Len(output[w]) + i>>]
    OBVIOUS
  <1>2. /\ ConsoleTyped /\ WriterOK(w) /\ writers[w] \in Writers /\ DOMAIN writers = {"COUT", "CERR"}
        /\ DOMAIN shown = {"COUT", "CERR"} /\ output[w] \in Seq(Cells) /\ Len(output[w]) \in Nat
        /\ shown[w] \in Seq(Cells) /\ Waiting(w) \in Nat /\ Start(w) \in Nat
        /\ Len(output[w]) = Len(shown[w]) + Waiting(w)
    BY DEF ConsoleInv, ConsoleTyped, WriterOK, Start
  <1>3. Adds(w, n, bytes)
    BY <1>1 DEF Printing!write, Printing!Bytes, Adds
  <1>4. CASE n <= writers[w].Available
    <2>1. /\ shown' = shown /\ writers' = [writers EXCEPT ![w] = [writers[w] EXCEPT !.Current = @ + n, !.Available = @ - n]]
          /\ cells' = [i \in DOMAIN cells |->
                IF i - writers[w].Current \in 0..n - 1 THEN bytes[i - writers[w].Current + 1] ELSE cells[i]]
      BY <1>1, <1>4 DEF Printing!write, Printing!Fits, Printing!Bytes
    <2>2. CASE writers[w] = [Buffer |-> -1, Current |-> -1, Available |-> 0, BufferSize |-> 0]
      <3>1. n = 0
        BY <2>2, <1>4
      <3>2. writers' = writers
        <4>1. [writers[w] EXCEPT !.Current = @ + n, !.Available = @ - n] = writers[w]
          <5>1. writers[w].Current + n = writers[w].Current /\ writers[w].Available - n = writers[w].Available
            BY <3>1, <2>2
          <5> QED
            BY <5>1, <2>2, <1>2, MovedOn
        <4>2. writers' = [writers EXCEPT ![w] = writers[w]]
          BY <2>1, <4>1
        <4> QED
          BY <4>2, <1>2 DEF ConsoleTyped
      <3>3. cells' = cells
        <4>1. \A i \in DOMAIN cells : cells'[i] = cells[i]
          BY <3>1, <2>1, <2>2, <1>2 DEF ConsoleTyped
        <4> QED
          BY <4>1, <2>1, <1>2 DEF ConsoleTyped
      <3>4. output' = output
        <4>1. bytes = <<>>
          BY <3>1, <1>1
        <4>2. output[w] \o bytes = output[w]
          BY <4>1, <1>2
        <4> QED
          BY <4>2, <1>2, <1>3 DEF ConsoleTyped, Adds
      <3>5. largest' = largest
        BY <3>1, <1>2, <1>3 DEF ConsoleTyped, Adds
      <3> QED
        BY ZenonT(40), <3>2, <3>3, <3>4, <3>5, <2>1
        DEF ConsoleInv, ConsoleTyped, HandlesOK, WriterOK, BufferOK, Waiting, Unharmed, ShownFirst, Start
    <2>3. CASE ~(writers[w] = [Buffer |-> -1, Current |-> -1, Available |-> 0, BufferSize |-> 0])
      <3>1. /\ writers[w].Buffer = Start(w) /\ writers[w].BufferSize = CONSOLE_BUFFER_SIZE
            /\ writers[w].Current = Start(w) + Waiting(w)
            /\ writers[w].Available = CONSOLE_BUFFER_SIZE - Waiting(w)
        BY <2>3, <1>2 DEF WriterOK, BufferOK, Waiting, Writers
      <3>2. Waiting(w) + n <= CONSOLE_BUFFER_SIZE
        BY <3>1, <1>2, <1>4
      <3>3. writers' = [writers EXCEPT ![w] = [Buffer |-> Start(w), Current |-> Start(w) + Waiting(w) + n,
                                              Available |-> CONSOLE_BUFFER_SIZE - Waiting(w) - n,
                                              BufferSize |-> CONSOLE_BUFFER_SIZE]]
        <4>1. [writers[w] EXCEPT !.Current = @ + n, !.Available = @ - n]
                = [Buffer |-> Start(w), Current |-> Start(w) + Waiting(w) + n,
                   Available |-> CONSOLE_BUFFER_SIZE - Waiting(w) - n, BufferSize |-> CONSOLE_BUFFER_SIZE]
          <5>1. writers[w].Available - n = CONSOLE_BUFFER_SIZE - Waiting(w) - n
            BY <3>1
          <5>2. PICK it \in Writers : it = writers[w]
            BY <1>2
          <5>3. PICK c : c = it.Current + n
            OBVIOUS
          <5>4. PICK a : a = it.Available - n
            OBVIOUS
          <5>5. n \in Nat
            OBVIOUS
          <5>6. [it EXCEPT !.Current = @ + n, !.Available = @ - n]
                  = [Buffer |-> it.Buffer, Current |-> c, Available |-> a, BufferSize |-> it.BufferSize]
            BY <5>3, <5>4, <5>5, MovedOn
          <5> QED
            BY <5>1, <5>2, <5>3, <5>4, <5>6, <3>1
        <4> QED
          BY <2>1, <4>1
      <3>4. shown' = [shown EXCEPT ![w] = shown[w]]
        BY <2>1, <1>2 DEF ConsoleTyped
      <3>5. cells' = [i \in DOMAIN cells |->
                        IF i - (Start(w) + Waiting(w)) \in 0..n - 1
                        THEN bytes[i - (Start(w) + Waiting(w)) + 1] ELSE cells[i]]
        BY <2>1, <3>1
      <3>6. PICK p \in Nat : p = Waiting(w)
        BY <1>2
      <3>7. PICK s \in Seq(Cells) : s = shown[w]
        BY <1>2
      <3>8. Follows(w, p, s)
        BY <3>6, <3>7, <1>2 DEF WriterOK, ShownFirst, Follows
      <3>9. Fills(w, n, p, bytes)
        BY <3>3, <3>5, <3>6 DEF Fills
      <3>10. p + n <= CONSOLE_BUFFER_SIZE /\ shown' = [shown EXCEPT ![w] = s]
        BY <3>2, <3>4, <3>6, <3>7
      <3> QED
        BY <3>8, <3>9, <3>10, <1>3, WrittenInOrder
    <2> QED
      BY <2>2, <2>3
  <1>5. CASE ~(n <= writers[w].Available)
    <2>1. PICK s : s = shown[w] \o Printing!Pending(w)
      OBVIOUS
    <2>2. s \in Seq(Cells) /\ Len(s) = Len(output[w]) /\ (Unharmed(w) => s = output[w])
      BY <2>1, FlushShows DEF ConsoleInv
    <2>3. /\ shown' = [shown EXCEPT ![w] = s]
          /\ writers' = [writers EXCEPT ![w] = [Printing!Flushed(w) EXCEPT !.Current = @ + n, !.Available = @ - n]]
          /\ cells' = [i \in DOMAIN cells |->
                IF i - Printing!Flushed(w).Current \in 0..n - 1
                THEN bytes[i - Printing!Flushed(w).Current + 1] ELSE cells[i]]
      BY <1>1, <1>2, <1>5, <2>1 DEF Printing!write, Printing!Fits, Printing!Bytes
    <2>4. Printing!Flushed(w) = [Buffer |-> Start(w), Current |-> Start(w), Available |-> CONSOLE_BUFFER_SIZE,
                                 BufferSize |-> CONSOLE_BUFFER_SIZE]
      BY DEF Printing!Flushed, Printing!BufferOf, Start
    <2>5. PICK p \in Nat : p = 0
      OBVIOUS
    <2>6. Follows(w, p, s)
      BY <2>2, <2>5, <1>2 DEF Follows
    <2>7. Fills(w, n, p, bytes)
      <3>1. [Printing!Flushed(w) EXCEPT !.Current = @ + n, !.Available = @ - n]
              = [Buffer |-> Start(w), Current |-> Start(w) + p + n,
                 Available |-> CONSOLE_BUFFER_SIZE - p - n, BufferSize |-> CONSOLE_BUFFER_SIZE]
        <4>1. Printing!Flushed(w) \in Writers
          BY <2>4, <1>2 DEF Writers
        <4>2. /\ Start(w) + n = Start(w) + p + n
              /\ CONSOLE_BUFFER_SIZE - n = CONSOLE_BUFFER_SIZE - p - n
          BY <2>5, <1>2
        <4>3. PICK it \in Writers : it = Printing!Flushed(w)
          BY <4>1
        <4>4. PICK c : c = it.Current + n
          OBVIOUS
        <4>5. PICK a : a = it.Available - n
          OBVIOUS
        <4>6. n \in Nat
          OBVIOUS
        <4>7. [it EXCEPT !.Current = @ + n, !.Available = @ - n]
                = [Buffer |-> it.Buffer, Current |-> c, Available |-> a, BufferSize |-> it.BufferSize]
          BY <4>4, <4>5, <4>6, MovedOn
        <4> QED
          BY <4>2, <4>3, <4>4, <4>5, <4>7, <2>4
      <3>2. Printing!Flushed(w).Current = Start(w) + p
        BY <2>4, <2>5, <1>2
      <3> QED
        BY <2>3, <3>1, <3>2 DEF Fills
    <2> QED
      BY <2>2, <2>3, <2>5, <2>6, <2>7, <1>3, WrittenInOrder
  <1> QED
    BY <1>4, <1>5

LEMMA ConsoleSteps == ProcessSpec => Printing!Init /\ [][Printing!Next]_(Printing!vars)
  <1>1. ProcessInit => Printing!Init
    BY DEF ProcessInit
  <1>2. [ProcessNext]_processVars => [Printing!Next]_(Printing!vars)
    BY DEF ProcessNext, Of, processVars, printing, Printing!vars
  <1> QED
    BY <1>1, <1>2, PTL DEF ProcessSpec

\* The console gets what was written to it, as long as no write went over the other buffer.
THEOREM ConsoleKeepsOutput ==
    ASSUME CONSOLE_BUFFER_SIZE \in Nat, Sizes \subseteq 0..2 * CONSOLE_BUFFER_SIZE
    PROVE  ProcessSpec => []OutputKept
  <1>1. ConsoleInv /\ [Printing!Next]_(Printing!vars) => ConsoleInv'
    <2> SUFFICES ASSUME ConsoleInv, [Printing!Next]_(Printing!vars) PROVE ConsoleInv'
      OBVIOUS
    <2>1. CASE UNCHANGED Printing!vars
      <3>1. UNCHANGED <<cells, writers, shown, output, largest>>
        BY <2>1 DEF Printing!vars
      <3> QED
        BY <3>1 DEF ConsoleInv, ConsoleTyped, HandlesOK, WriterOK, BufferOK, Waiting, Unharmed, ShownFirst
    <2> QED
      BY <2>1, FlushKeeps, WriteKeeps DEF Printing!Next, Printing!Outputs
  <1>2. ConsoleInv => OutputKept
    <2> SUFFICES ASSUME ConsoleInv PROVE Printing!OutputKept
      BY DEF OutputKept
    <2>1. ASSUME NEW w \in {"COUT", "CERR"}, Unharmed(w) PROVE Printing!Kept(w)
      <3>1. PICK s : s = shown[w] \o Printing!Pending(w)
        OBVIOUS
      <3>2. s = output[w]
        BY <2>1, <3>1, FlushShows DEF ConsoleInv
      <3> QED
        BY <3>1, <3>2 DEF Printing!Kept
    <2>2. largest["COUT"] \in Nat /\ largest["CERR"] \in Nat
      BY DEF ConsoleInv, ConsoleTyped
    <2>3. largest["COUT"] <= CONSOLE_BUFFER_SIZE => Printing!Kept("COUT") /\ Printing!Kept("CERR")
      BY <2>1 DEF Unharmed
    <2>4. output["CERR"] = <<>> => Printing!Kept("COUT")
      BY <2>1 DEF Unharmed
    <2>5. largest["CERR"] <= CONSOLE_BUFFER_SIZE => Printing!HandlesKept
      BY DEF ConsoleInv, HandlesOK, Printing!HandlesKept, Printing!Handles, Printing!Untouched
    <2> QED
      BY <2>2, <2>3, <2>4, <2>5 DEF Printing!OutputKept
  <1> QED
    BY <1>1, <1>2, ConsoleInitOK, ConsoleSteps, PTL

-----------------------------------------------------------------------------
(***************************************************************************)
(* The destructors of a thread: the nodes are full but the last one, and   *)
(* the functions in them, one node after the other, are those registered.  *)
(***************************************************************************)
NodesOK(D) == /\ D \in Seq(Seq(Nat))
              /\ \A k \in 1..Len(D) : /\ Len(D[k]) \in 1..FUNCS_PER_NODE
                                      /\ k # Len(D) => Len(D[k]) = FUNCS_PER_NODE

\* No function is in the nodes twice.
Once(D) == \A k, l \in 1..Len(D) : \A i \in 1..Len(D[k]), j \in 1..Len(D[l]) :
                D[k][i] = D[l][j] => k = l /\ i = j

UpTo(D, r) == \A k \in 1..Len(D) : \A i \in 1..Len(D[k]) : D[k][i] <= r

\* E is D, or D with g behind its last function.
Grows(D, E, g) ==
    /\ NodesOK(E) /\ Len(E) >= Len(D)
    /\ \A k \in 1..Len(D) : Len(E[k]) >= Len(D[k]) /\ \A i \in 1..Len(D[k]) : E[k][i] = D[k][i]
    /\ \A k \in 1..Len(E) : \A i \in 1..Len(E[k]) :
            \/ k <= Len(D) /\ i <= Len(D[k])
            \/ k = Len(E) /\ i = Len(E[k]) /\ E[k][i] = g

LEMMA GrowsKeeps ==
    ASSUME NEW D, NodesOK(D), Once(D), NEW r \in Nat, UpTo(D, r), NEW E, Grows(D, E, r + 1)
    PROVE  Once(E) /\ UpTo(E, r + 1)
  <1>1. /\ Len(D) \in Nat /\ Len(E) \in Nat
        /\ \A k \in 1..Len(D) : Len(D[k]) \in Nat /\ \A i \in 1..Len(D[k]) : D[k][i] \in Nat
        /\ \A k \in 1..Len(E) : Len(E[k]) \in Nat
    <2>1. D \in Seq(Seq(Nat)) /\ E \in Seq(Seq(Nat))
      BY DEF NodesOK, Grows
    <2>2. \A k \in 1..Len(D) : D[k] \in Seq(Nat)
      BY <2>1
    <2>3. \A k \in 1..Len(E) : E[k] \in Seq(Nat)
      BY <2>1
    <2> QED
      BY <2>1, <2>2, <2>3
  <1>2. ASSUME NEW k \in 1..Len(E), NEW i \in 1..Len(E[k])
        PROVE  /\ E[k][i] \in Nat
               /\ \/ k \in 1..Len(D) /\ i \in 1..Len(D[k]) /\ E[k][i] = D[k][i] /\ E[k][i] <= r
                  \/ k = Len(E) /\ i = Len(E[k]) /\ E[k][i] = r + 1
    <2>1. CASE k <= Len(D) /\ i <= Len(D[k])
      <3>1. k \in 1..Len(D) /\ i \in 1..Len(D[k])
        BY <2>1, <1>1
      <3> QED
        BY <3>1, <1>1 DEF Grows, UpTo
    <2>2. CASE k = Len(E) /\ i = Len(E[k]) /\ E[k][i] = r + 1
      BY <2>2
    <2> QED
      BY <2>1, <2>2 DEF Grows
  <1>3. UpTo(E, r + 1)
    <2> SUFFICES ASSUME NEW k \in 1..Len(E), NEW i \in 1..Len(E[k]) PROVE E[k][i] <= r + 1
      BY DEF UpTo
    <2>1. E[k][i] \in Nat /\ (E[k][i] <= r \/ E[k][i] = r + 1)
      BY <1>2
    <2> QED
      BY <2>1
  <1>4. Once(E)
    <2> SUFFICES ASSUME NEW k \in 1..Len(E), NEW l \in 1..Len(E), NEW i \in 1..Len(E[k]), NEW j \in 1..Len(E[l]),
                        E[k][i] = E[l][j]
                 PROVE  k = l /\ i = j
      BY DEF Once
    <2>1. r + 1 \in Nat /\ ~(r + 1 <= r)
      OBVIOUS
    <2>2. CASE k \in 1..Len(D) /\ i \in 1..Len(D[k]) /\ E[k][i] = D[k][i] /\ E[k][i] <= r
      <3>1. l \in 1..Len(D) /\ j \in 1..Len(D[l]) /\ E[l][j] = D[l][j]
        <4>1. ~(E[l][j] = r + 1)
          BY <2>1, <2>2
        <4> QED
          BY <1>2, <4>1
      <3>2. D[k][i] = D[l][j]
        BY <2>2, <3>1
      <3> QED
        BY <2>2, <3>1, <3>2 DEF Once
    <2>3. CASE k = Len(E) /\ i = Len(E[k]) /\ E[k][i] = r + 1
      <3>1. l = Len(E) /\ j = Len(E[l])
        <4>1. ~(E[l][j] <= r)
          BY <2>1, <2>3
        <4> QED
          BY <1>2, <4>1
      <3> QED
        BY <2>3, <3>1
    <2> QED
      BY <1>2, <2>2, <2>3
  <1> QED
    BY <1>3, <1>4

\* What __tlregdtor makes of the nodes.
LEMMA RegisteredGrows ==
    ASSUME FUNCS_PER_NODE \in Nat \ {0}, NodesOK(dtor_list), NEW g \in Nat, NEW refused \in BOOLEAN,
           NEW E, E = Destroying!Registered(g, refused)
    PROVE  /\ Grows(dtor_list, E, g)
           /\ \/ E = dtor_list
              \/ /\ dtor_list = <<>> /\ Len(E) = 1 /\ Len(E[1]) = 1 /\ E[1][1] = g
              \/ /\ dtor_list # <<>> /\ Len(E) = Len(dtor_list) /\ Len(E[Len(E)]) = Len(dtor_list[Len(E)]) + 1
                 /\ E[Len(E)][Len(E[Len(E)])] = g
              \/ /\ dtor_list # <<>> /\ Len(dtor_list[Len(dtor_list)]) = FUNCS_PER_NODE
                 /\ Len(E) = Len(dtor_list) + 1 /\ Len(E[Len(E)]) = 1 /\ E[Len(E)][1] = g
  <1> DEFINE D == dtor_list
             N == Len(D)
  <1>1. /\ D \in Seq(Seq(Nat)) /\ N \in Nat /\ (D # <<>> => N \in 1..N)
        /\ \A k \in 1..N : D[k] \in Seq(Nat) /\ Len(D[k]) \in 1..FUNCS_PER_NODE
        /\ \A k \in 1..N : k # N => Len(D[k]) = FUNCS_PER_NODE
    BY EmptySeq DEF NodesOK
  <1>2. PICK one : one = <<g>>
    OBVIOUS
  <1>3. one \in Seq(Nat) /\ Len(one) = 1 /\ one[1] = g
    BY <1>2
  <1>4. CASE D = <<>>
    <2>1. E = <<one>>
      BY <1>2, <1>4 DEF Destroying!Registered
    <2>2. E \in Seq(Seq(Nat)) /\ Len(E) = 1 /\ E[1] = one /\ N = 0
      BY <2>1, <1>3, <1>4, EmptySeq
    <2>3. NodesOK(E)
      <3>1. \A k \in 1..Len(E) : k = 1
        BY <2>2
      <3>2. Len(E[1]) \in 1..FUNCS_PER_NODE
        BY <2>2, <1>3
      <3> QED
        BY <2>2, <3>1, <3>2 DEF NodesOK
    <2>4. \A k \in 1..Len(E) : \A i \in 1..Len(E[k]) : k = Len(E) /\ i = Len(E[k]) /\ E[k][i] = g
      <3> SUFFICES ASSUME NEW k \in 1..Len(E), NEW i \in 1..Len(E[k]) PROVE k = 1 /\ i = 1
        BY <2>2, <1>3
      <3>1. k = 1
        BY <2>2
      <3>2. i \in 1..1
        BY <2>2, <3>1, <1>3
      <3> QED
        BY <3>1, <3>2
    <2>5. Grows(D, E, g)
      BY <2>2, <2>3, <2>4 DEF Grows
    <2> QED
      BY <2>2, <2>5, <1>3, <1>4
  <1>5. CASE D # <<>> /\ Len(D[N]) < FUNCS_PER_NODE
    <2>1. PICK longer : longer = Append(D[N], g)
      OBVIOUS
    <2>2. /\ longer \in Seq(Nat) /\ Len(longer) = Len(D[N]) + 1 /\ longer[Len(D[N]) + 1] = g
          /\ \A i \in 1..Len(D[N]) : longer[i] = D[N][i]
      BY <1>1, <1>5, <2>1, AppendProperties
    <2>3. E = [D EXCEPT ![N] = longer]
      BY <1>5, <2>1 DEF Destroying!Registered, Destroying!Last
    <2>4. /\ E \in Seq(Seq(Nat)) /\ Len(E) = N /\ E[N] = longer
          /\ \A k \in 1..N : k # N => E[k] = D[k]
      BY <1>1, <1>5, <2>2, <2>3, ExceptSeq
    <2>5. NodesOK(E)
      <3>1. ASSUME NEW k \in 1..N
            PROVE  Len(E[k]) \in 1..FUNCS_PER_NODE /\ (k # N => Len(E[k]) = FUNCS_PER_NODE)
        <4>1. CASE k = N
          BY <4>1, <1>1, <1>5, <2>2, <2>4
        <4>2. CASE k # N
          BY <4>2, <1>1, <2>4
        <4> QED
          BY <4>1, <4>2
      <3> QED
        BY <3>1, <2>4 DEF NodesOK
    <2>6. ASSUME NEW k \in 1..N
          PROVE  /\ Len(E[k]) >= Len(D[k]) /\ \A i \in 1..Len(D[k]) : E[k][i] = D[k][i]
                 /\ \A i \in 1..Len(E[k]) : i <= Len(D[k]) \/ (k = N /\ i = Len(E[k]) /\ E[k][i] = g)
      <3>1. CASE k = N
        BY <3>1, <1>1, <1>5, <2>2, <2>4
      <3>2. CASE k # N
        BY <3>2, <1>1, <2>4
      <3> QED
        BY <3>1, <3>2
    <2>7. Grows(D, E, g)
      BY <1>1, <2>4, <2>5, <2>6 DEF Grows
    <2> QED
      BY <1>5, <2>2, <2>4, <2>7
  <1>6. CASE D # <<>> /\ ~(Len(D[N]) < FUNCS_PER_NODE) /\ refused
    <2>1. E = D
      BY <1>6 DEF Destroying!Registered, Destroying!Last
    <2>2. Grows(D, D, g)
      BY <1>1 DEF Grows, NodesOK
    <2> QED
      BY <2>1, <2>2
  <1>7. CASE D # <<>> /\ ~(Len(D[N]) < FUNCS_PER_NODE) /\ ~refused
    <2>1. E = Append(D, one) /\ Len(D[N]) = FUNCS_PER_NODE
      <3>1. Len(D[N]) \in 1..FUNCS_PER_NODE
        BY <1>1, <1>7
      <3>2. E = Append(D, one)
        BY <1>2, <1>7 DEF Destroying!Registered, Destroying!Last
      <3> QED
        BY <3>1, <3>2, <1>7
    <2>2. /\ E \in Seq(Seq(Nat)) /\ Len(E) = N + 1 /\ E[N + 1] = one
          /\ \A k \in 1..N : E[k] = D[k]
      BY <1>1, <1>3, <2>1, AppendProperties
    <2>3. NodesOK(E)
      <3>1. ASSUME NEW k \in 1..(N + 1)
            PROVE  Len(E[k]) \in 1..FUNCS_PER_NODE /\ (k # N + 1 => Len(E[k]) = FUNCS_PER_NODE)
        <4>1. CASE k = N + 1
          <5>1. E[k] = one /\ 1 \in 1..FUNCS_PER_NODE
            BY <4>1, <2>2
          <5> QED
            BY <4>1, <5>1, <1>3
        <4>2. CASE k # N + 1
          <5>1. k \in 1..N
            BY <4>2, <1>1
          <5> QED
            BY <4>2, <5>1, <1>1, <2>1, <2>2
        <4> QED
          BY <4>1, <4>2
      <3> QED
        BY <3>1, <2>2 DEF NodesOK
    <2>4. ASSUME NEW k \in 1..Len(E), NEW i \in 1..Len(E[k])
          PROVE  \/ k <= N /\ i <= Len(D[k])
                 \/ k = Len(E) /\ i = Len(E[k]) /\ E[k][i] = g
      <3>1. CASE k = N + 1
        <4>1. Len(E[k]) = 1 /\ E[k][1] = g /\ k = Len(E)
          BY <3>1, <1>3, <2>2
        <4>2. i = 1
          BY <4>1
        <4> QED
          BY <4>1, <4>2
      <3>2. CASE k # N + 1
        <4>1. k \in 1..N /\ k <= N
          BY <3>2, <1>1, <2>2
        <4>2. i \in 1..Len(D[k]) /\ i <= Len(D[k])
          BY <4>1, <1>1, <2>2
        <4> QED
          BY <4>1, <4>2
      <3> QED
        BY <3>1, <3>2
    <2>5. \A k \in 1..N : Len(E[k]) >= Len(D[k]) /\ \A i \in 1..Len(D[k]) : E[k][i] = D[k][i]
      BY <1>1, <2>2
    <2>6. Grows(D, E, g)
      BY <1>1, <2>2, <2>3, <2>4, <2>5 DEF Grows
    <2> QED
      BY <1>1, <1>3, <1>7, <2>1, <2>2, <2>6
  <1> QED
    BY <1>4, <1>5, <1>6, <1>7

\* Where the functions of a node begin among all of them.
Offset(k) == (k - 1) * FUNCS_PER_NODE

LEMMA Offsets ==
    ASSUME FUNCS_PER_NODE \in Nat \ {0}, NEW k \in Nat \ {0}
    PROVE  /\ Offset(k) \in Nat /\ Offset(1) = 0 /\ Offset(k + 1) = Offset(k) + FUNCS_PER_NODE
           /\ \A l \in Nat \ {0} : l < k => Offset(l) + FUNCS_PER_NODE <= Offset(k)
  <1>1. Offset(k) \in Nat /\ Offset(1) = 0 /\ Offset(k + 1) = Offset(k) + FUNCS_PER_NODE
    BY DEF Offset
  <1>2. ASSUME NEW l \in Nat \ {0}, l < k PROVE Offset(l) + FUNCS_PER_NODE <= Offset(k)
    <2>1. PICK m \in Nat : k = l + 1 + m
      <3>1. k - l - 1 \in Nat /\ k = l + 1 + (k - l - 1)
        BY <1>2
      <3> QED
        BY <3>1
    <2>2. (k - 1) * FUNCS_PER_NODE = (l - 1) * FUNCS_PER_NODE + FUNCS_PER_NODE + m * FUNCS_PER_NODE
      BY <2>1
    <2>3. m * FUNCS_PER_NODE \in Nat /\ (l - 1) * FUNCS_PER_NODE \in Int
      BY <2>1
    <2> QED
      BY <2>2, <2>3 DEF Offset
  <1> QED
    BY <1>1, <1>2

\* How many functions of node k are in front of the place i in node p, that one included.
InFront(D, k, p, i) == IF k = p THEN i ELSE Len(D[k])

\* Up to the place i in node p there are n functions, the first of U.
InOrder(D, p, i, n, U) ==
    /\ n = IF p = 0 THEN 0 ELSE Offset(p) + i
    /\ n <= Len(U)
    /\ \A k \in 1..p : \A j \in 1..InFront(D, k, p, i) : D[k][j] = U[Offset(k) + j]
    /\ \A x \in 1..n : \E k \in 1..p : \E j \in 1..InFront(D, k, p, i) : D[k][j] = U[x]

LastPlace(D) == IF D = <<>> THEN 0 ELSE Len(D[Len(D)])

RunsOK == /\ destroyed = <<>> /\ pnode = 0
          /\ InOrder(dtor_list, Len(dtor_list), LastPlace(dtor_list), Len(toDestroy), toDestroy)

\* The registered functions are called from the last one on; what is registered meanwhile stays behind.
Ends(D, p, n, U, R) ==
    /\ Len(R) <= Len(U)
    /\ InOrder(D, p, n, Len(U) - Len(R), U)
    /\ \A i \in 1..Len(R) : R[i] = U[Len(U) + 1 - i]
    /\ \A k \in 1..Len(D) : k > p => \A i \in 1..Len(D[k]), x \in 1..Len(U) : D[k][i] # U[x]

EndsOK == Ends(dtor_list, pnode, next, toDestroy, destroyed)

GoneOK == /\ Len(destroyed) = Len(toDestroy)
          /\ \A i \in 1..Len(destroyed) : destroyed[i] = toDestroy[Len(toDestroy) + 1 - i]

\* What is still to be called.
Ahead(D, p, n, g) == \E k \in 1..p : \E i \in 1..InFront(D, k, p, n) : D[k][i] = g

Covered(D, p, n, U, R) ==
    \A x \in 1..Len(U) : (\E i \in 1..Len(R) : R[i] = U[x]) \/ Ahead(D, p, n, U[x])

\* The first m calls are different, so are the later ones, and only those in W are made twice.
Repeats(D, p, n, R, m, W) ==
    /\ \A i, j \in 1..Len(R) : i < j /\ R[i] = R[j] => i <= m /\ m < j /\ R[j] \in W
    /\ \A i \in 1..Len(R) : Ahead(D, p, n, R[i]) => i <= m /\ R[i] \in W

Exits(D, p, n, U, R) ==
    /\ Covered(D, p, n, U, R)
    /\ \E m \in Nat, W \in SUBSET Nat : /\ m <= Len(R)
                                       /\ IsFiniteSet(W) /\ Cardinality(W) <= FUNCS_PER_NODE
                                       /\ Repeats(D, p, n, R, m, W)

ExitsOK == Exits(dtor_list, pnode, next, toDestroy, destroyed)

DtorTyped ==
    /\ NodesOK(dtor_list) /\ pnode \in 0..Len(dtor_list) /\ next \in Nat
    /\ pnode > 0 => next <= Len(dtor_list[pnode])
    /\ phase \in {"runs", "ends", "exits", "gone", "exited"}
    /\ registered \in Nat /\ toDestroy \in Seq(Nat) /\ destroyed \in Seq(Nat)

\* The functions are numbered as they are registered.
Numbered(U, R, r) == /\ \A x \in 1..Len(U) : U[x] <= r
                     /\ \A i \in 1..Len(R) : R[i] <= r
                     /\ \A x, y \in 1..Len(U) : U[x] = U[y] => x = y

DtorInv ==
    /\ DtorTyped /\ Once(dtor_list) /\ UpTo(dtor_list, registered)
    /\ Numbered(toDestroy, destroyed, registered)
    /\ phase = "runs" => RunsOK
    /\ phase = "ends" => EndsOK
    /\ phase = "gone" => GoneOK
    /\ phase \in {"exits", "exited"} => ExitsOK
    /\ phase \in {"gone", "exited"} => pnode = 0

LEMMA DtorInitOK == Destroying!Init => DtorInv
  <1> SUFFICES ASSUME Destroying!Init PROVE DtorInv
    OBVIOUS
  <1>1. /\ dtor_list = <<>> /\ pnode = 0 /\ next = 0 /\ phase = "runs" /\ registered = 0
        /\ toDestroy = <<>> /\ destroyed = <<>>
    BY DEF Destroying!Init
  <1>2. <<>> \in Seq(Seq(Nat)) /\ <<>> \in Seq(Nat) /\ Len(<<>>) = 0
    BY EmptySeq
  <1>3. NodesOK(dtor_list) /\ Once(dtor_list) /\ UpTo(dtor_list, registered)
    BY <1>1, <1>2 DEF NodesOK, Once, UpTo
  <1>4. RunsOK
    BY <1>1, <1>2 DEF RunsOK, InOrder, LastPlace
  <1> QED
    BY <1>1, <1>2, <1>3, <1>4 DEF DtorInv, DtorTyped, Numbered

\* What an appended function leaves as it was.
LEMMA InFrontGrows ==
    ASSUME NEW D, NodesOK(D), NEW E, NEW g, Grows(D, E, g), NEW p \in 0..Len(D), NEW i \in Nat,
           p > 0 => i <= Len(D[p])
    PROVE  \A k \in 1..p : /\ InFront(E, k, p, i) = InFront(D, k, p, i)
                           /\ InFront(D, k, p, i) \in 0..Len(D[k])
                           /\ \A j \in 1..InFront(D, k, p, i) : E[k][j] = D[k][j]
  <1>1. /\ Len(D) \in Nat /\ Len(E) \in Nat /\ Len(E) >= Len(D)
        /\ \A k \in 1..Len(D) : Len(D[k]) \in 1..FUNCS_PER_NODE /\ Len(D[k]) \in Nat
                               /\ (k # Len(D) => Len(D[k]) = FUNCS_PER_NODE)
        /\ \A k \in 1..Len(E) : Len(E[k]) \in 1..FUNCS_PER_NODE /\ Len(E[k]) \in Nat
                               /\ (k # Len(E) => Len(E[k]) = FUNCS_PER_NODE)
    <2>1. NodesOK(E) /\ Len(E) >= Len(D)
      BY DEF Grows
    <2>2. \A F : NodesOK(F) => /\ Len(F) \in Nat
                              /\ \A k \in 1..Len(F) : Len(F[k]) \in 1..FUNCS_PER_NODE /\ Len(F[k]) \in Nat
                                                     /\ (k # Len(F) => Len(F[k]) = FUNCS_PER_NODE)
      BY DEF NodesOK
    <2> QED
      BY <2>1, <2>2
  <1>2. ASSUME NEW k \in 1..p
        PROVE  /\ InFront(E, k, p, i) = InFront(D, k, p, i)
               /\ InFront(D, k, p, i) \in 0..Len(D[k])
               /\ \A j \in 1..InFront(D, k, p, i) : E[k][j] = D[k][j]
    <2>1. k \in 1..Len(D) /\ k \in 1..Len(E) /\ p \in 1..Len(D)
      BY <1>1
    <2>2. \A j \in 1..Len(D[k]) : E[k][j] = D[k][j]
      BY <2>1 DEF Grows
    <2>3. CASE k = p
      BY <2>1, <2>2, <2>3, <1>1 DEF InFront
    <2>4. CASE k # p
      <3>1. k # Len(D) /\ k # Len(E)
        BY <2>1, <2>4, <1>1
      <3> QED
        BY <2>1, <2>2, <2>4, <3>1, <1>1 DEF InFront
    <2> QED
      BY <2>3, <2>4
  <1> QED
    BY <1>2

LEMMA InOrderGrows ==
    ASSUME NEW D, NodesOK(D), NEW E, NEW g, Grows(D, E, g), NEW p \in 0..Len(D), NEW i \in Nat,
           p > 0 => i <= Len(D[p]), NEW n, NEW U, InOrder(D, p, i, n, U)
    PROVE  InOrder(E, p, i, n, U)
  <1>1. \A k \in 1..p : /\ InFront(E, k, p, i) = InFront(D, k, p, i)
                        /\ \A j \in 1..InFront(D, k, p, i) : E[k][j] = D[k][j]
    BY InFrontGrows
  <1>2. \A k \in 1..p : \A j \in 1..InFront(E, k, p, i) : E[k][j] = U[Offset(k) + j]
    BY <1>1 DEF InOrder
  <1>3. ASSUME NEW x \in 1..n PROVE \E k \in 1..p : \E j \in 1..InFront(E, k, p, i) : E[k][j] = U[x]
    <2>1. PICK k \in 1..p : \E j \in 1..InFront(D, k, p, i) : D[k][j] = U[x]
      BY DEF InOrder
    <2>2. PICK j \in 1..InFront(D, k, p, i) : D[k][j] = U[x]
      BY <2>1
    <2>3. j \in 1..InFront(E, k, p, i) /\ E[k][j] = U[x]
      BY <2>2, <1>1
    <2> QED
      BY <2>3
  <1> QED
    BY <1>2, <1>3 DEF InOrder

LEMMA InOrderInside ==
    ASSUME FUNCS_PER_NODE \in Nat \ {0}, NEW D, NodesOK(D), NEW p \in 1..Len(D), NEW i \in 1..Len(D[p]),
           NEW k \in 1..p, NEW j \in 1..InFront(D, k, p, i)
    PROVE  /\ Offset(k) + j \in 1..(Offset(p) + i)
           /\ k # p => Offset(k) + j <= Offset(p)
           /\ k \in 1..Len(D) /\ j \in 1..Len(D[k])
  <1>1. /\ Len(D) \in Nat /\ \A l \in 1..Len(D) : Len(D[l]) \in 1..FUNCS_PER_NODE
        /\ \A l \in 1..Len(D) : l # Len(D) => Len(D[l]) = FUNCS_PER_NODE
    BY DEF NodesOK
  <1>2. Offset(p) \in Nat /\ Offset(k) \in Nat /\ (k < p => Offset(k) + FUNCS_PER_NODE <= Offset(p))
    <2>1. p \in Nat \ {0} /\ k \in Nat \ {0}
      BY <1>1
    <2> QED
      BY <2>1, Offsets
  <1>3. CASE k = p
    BY <1>1, <1>2, <1>3 DEF InFront
  <1>4. CASE k # p
    <2>1. k \in 1..Len(D) /\ k # Len(D) /\ k < p
      BY <1>1, <1>4
    <2>2. Len(D[k]) = FUNCS_PER_NODE /\ j \in 1..FUNCS_PER_NODE
      BY <1>1, <1>4, <2>1 DEF InFront
    <2> QED
      BY <1>2, <1>4, <2>1, <2>2
  <1> QED
    BY <1>3, <1>4

\* __tlregdtor of the thread while it runs: another function is the last one.
LEMMA RegisterRuns ==
    ASSUME FUNCS_PER_NODE \in Nat \ {0}, DtorInv, Destroying!__tlregdtor
    PROVE  DtorInv'
  <1> DEFINE D == dtor_list
             E == dtor_list'
             N == Len(D)
             U == toDestroy
  <1>1. PICK refused \in BOOLEAN : /\ dtor_list' = Destroying!Registered(registered + 1, refused)
                                 /\ registered' = registered + 1
                                 /\ toDestroy' = IF dtor_list' # dtor_list THEN Append(toDestroy, registered + 1) ELSE toDestroy
    BY DEF Destroying!__tlregdtor, Destroying!Register
  <1>2. /\ phase = "runs" /\ RunsOK /\ DtorTyped /\ NodesOK(D) /\ registered + 1 \in Nat /\ registered \in Nat
        /\ U \in Seq(Nat) /\ Len(U) \in Nat /\ N \in Nat
        /\ UNCHANGED <<pnode, next, phase, destroyed>>
    BY DEF Destroying!__tlregdtor, DtorInv, DtorTyped, NodesOK
  <1>3. /\ Grows(D, E, registered + 1)
        /\ \/ E = D
           \/ /\ D = <<>> /\ Len(E) = 1 /\ Len(E[1]) = 1 /\ E[1][1] = registered + 1
           \/ /\ D # <<>> /\ Len(E) = Len(D) /\ Len(E[Len(E)]) = Len(D[Len(E)]) + 1
              /\ E[Len(E)][Len(E[Len(E)])] = registered + 1
           \/ /\ D # <<>> /\ Len(D[Len(D)]) = FUNCS_PER_NODE
              /\ Len(E) = Len(D) + 1 /\ Len(E[Len(E)]) = 1 /\ E[Len(E)][1] = registered + 1
    <2>1. PICK e : e = Destroying!Registered(registered + 1, refused)
      OBVIOUS
    <2> QED
      BY <1>1, <1>2, <2>1, RegisteredGrows
  <1>4. NodesOK(E) /\ Once(E) /\ UpTo(E, registered + 1)
    BY <1>2, <1>3, GrowsKeeps DEF DtorInv, Grows
  <1>5. pnode = 0 /\ destroyed = <<>> /\ 0 \in 0..Len(E)
    BY <1>2, <1>4 DEF RunsOK, NodesOK
  <1>6. CASE E = D
    <2>1. toDestroy' = toDestroy
      BY <1>1, <1>6
    <2>2. RunsOK'
      BY <2>1, <1>2, <1>6 DEF RunsOK
    <2>3. DtorTyped'
      BY <2>1, <1>1, <1>2, <1>6 DEF DtorTyped
    <2>4. \A x \in 1..Len(U) : U[x] <= registered + 1
      <3> SUFFICES ASSUME NEW x \in 1..Len(U) PROVE U[x] <= registered + 1
        OBVIOUS
      <3>1. U[x] \in Nat /\ U[x] <= registered
        BY <1>2 DEF DtorInv, Numbered
      <3> QED
        BY <3>1, <1>2
    <2>5. \A i \in 1..Len(destroyed) : destroyed[i] <= registered + 1
      BY <1>5, EmptySeq
    <2> QED
      BY <1>1, <1>2, <1>4, <1>6, <2>1, <2>2, <2>3, <2>4, <2>5 DEF DtorInv, Numbered
  <1>7. CASE E # D
    <2>1. PICK V : V = toDestroy'
      OBVIOUS
    <2>2. /\ V \in Seq(Nat) /\ Len(V) = Len(U) + 1 /\ V[Len(U) + 1] = registered + 1
          /\ \A x \in 1..Len(U) : V[x] = U[x]
      <3>1. V = Append(U, registered + 1)
        BY <1>1, <1>7, <2>1
      <3> QED
        BY <1>2, <3>1, AppendProperties
    <2>3. \A x \in 1..Len(U) : U[x] \in Nat /\ U[x] <= registered
      BY <1>2 DEF DtorInv, Numbered
    <2>4. \A x \in 1..Len(V) : V[x] <= registered + 1
      <3> SUFFICES ASSUME NEW x \in 1..Len(V) PROVE V[x] <= registered + 1
        OBVIOUS
      <3>1. CASE x \in 1..Len(U)
        BY SMTT(30), <3>1, <1>2, <2>2, <2>3
      <3>2. CASE x = Len(U) + 1
        BY <3>2, <1>2, <2>2
      <3> QED
        BY <3>1, <3>2, <1>2, <2>2
    <2>5. \A x, y \in 1..Len(V) : V[x] = V[y] => x = y
      <3> SUFFICES ASSUME NEW x \in 1..Len(V), NEW y \in 1..Len(V), V[x] = V[y] PROVE x = y
        OBVIOUS
      <3>1. /\ x \in 1..Len(U) \/ x = Len(U) + 1
            /\ y \in 1..Len(U) \/ y = Len(U) + 1
        BY <1>2, <2>2
      <3>2. \A z \in 1..Len(U) : V[z] # registered + 1
        BY <1>2, <2>2, <2>3
      <3>3. CASE x \in 1..Len(U) /\ y \in 1..Len(U)
        BY <3>3, <2>2 DEF DtorInv, Numbered
      <3> QED
        BY <3>1, <3>2, <3>3, <2>2
    <2> DEFINE M == Len(E)
               L == Len(E[M])
    <2>6. M \in Nat \ {0} /\ L \in Nat \ {0} /\ E[M][L] = registered + 1 /\ E # <<>> /\ M \in 1..Len(E) /\ L \in 1..Len(E[M])
      <3>1. M \in Nat \ {0} /\ E[M][L] = registered + 1
        <4>1. Len(E) \in Nat
          BY <1>4 DEF NodesOK
        <4>2. Len(E) # 0
          BY <4>1, <1>2, <1>3, <1>7, EmptySeq DEF NodesOK
        <4> QED
          <5>1. \/ Len(E) = 1 /\ Len(E[1]) = 1 /\ E[1][1] = registered + 1
                \/ Len(E[Len(E)]) = 1 /\ E[Len(E)][1] = registered + 1
                \/ E[Len(E)][Len(E[Len(E)])] = registered + 1
            BY <1>3, <1>7
          <5>2. E[Len(E)][Len(E[Len(E)])] = registered + 1
            BY <5>1
          <5>3. Len(E) \in Nat \ {0}
            BY <4>1, <4>2
          <5> QED
            BY <5>2, <5>3
      <3>2. L \in Nat \ {0}
        <4>1. M \in 1..Len(E)
          BY <3>1
        <4>2. Len(E[M]) \in 1..FUNCS_PER_NODE
          BY <4>1, <1>4 DEF NodesOK
        <4> QED
          BY <4>2
      <3>3. E # <<>>
        BY <3>1, EmptySeq
      <3> QED
        BY <3>1, <3>2, <3>3
    <2>7. Offset(M) + L = Len(U) + 1
      <3>1. Offset(1) = 0
        BY DEF Offset
      <3>2. CASE D = <<>> /\ Len(E) = 1 /\ Len(E[1]) = 1
        <4>1. Len(U) = 0
          BY <3>2, <1>2, EmptySeq DEF RunsOK, InOrder
        <4> QED
          BY <3>1, <3>2, <4>1
      <3>3. CASE D # <<>> /\ Len(E) = Len(D) /\ Len(E[Len(E)]) = Len(D[Len(E)]) + 1
        <4>1. Len(D) # 0 /\ Len(D[N]) \in Nat
          BY <3>3, <1>2, <2>6 DEF NodesOK
        <4>2. Len(U) = Offset(N) + Len(D[N]) /\ Offset(N) \in Int
          BY <3>3, <4>1, <1>2 DEF RunsOK, InOrder, LastPlace, Offset
        <4> QED
          BY <3>3, <4>1, <4>2
      <3>4. CASE D # <<>> /\ Len(D[Len(D)]) = FUNCS_PER_NODE /\ Len(E) = Len(D) + 1 /\ Len(E[Len(E)]) = 1
        <4>1. N \in Nat \ {0}
          BY <3>4, <1>2, EmptySeq DEF NodesOK
        <4>2. Len(U) = Offset(N) + FUNCS_PER_NODE
          BY <3>4, <4>1, <1>2 DEF RunsOK, InOrder, LastPlace
        <4>3. Offset(N + 1) = Offset(N) + FUNCS_PER_NODE
          BY <4>1, Offsets
        <4> QED
          BY <3>4, <4>2, <4>3
      <3> QED
        BY <3>2, <3>3, <3>4, <1>3, <1>7
    <2>8. ASSUME NEW k \in 1..M, NEW j \in 1..InFront(E, k, M, L)
          PROVE  E[k][j] = V[Offset(k) + j]
      <3>1. k \in 1..Len(E) /\ j \in 1..Len(E[k]) /\ Offset(k) + j \in 1..(Len(U) + 1)
        BY <2>6, <2>7, <1>4, InOrderInside
      <3>2. CASE k <= N /\ j <= Len(D[k])
        <4>1. k \in 1..N /\ Len(D[k]) \in Nat /\ j \in 1..Len(D[k]) /\ N \in 1..N /\ Len(D[N]) \in 1..Len(D[N]) /\ D # <<>>
          BY SMTT(30), <3>1, <3>2, <1>2, EmptySeq DEF NodesOK
        <4>2. j \in 1..InFront(D, k, N, LastPlace(D)) /\ LastPlace(D) = Len(D[N])
          BY <4>1 DEF InFront, LastPlace
        <4>3. Offset(k) + j \in 1..(Offset(N) + Len(D[N]))
          BY <4>1, <4>2, <1>2, InOrderInside
        <4>4. Offset(N) + Len(D[N]) = Len(U)
          BY <4>1, <4>2, <1>2 DEF RunsOK, InOrder
        <4>5. D[k][j] = U[Offset(k) + j]
          BY <4>1, <4>2, <1>2 DEF RunsOK, InOrder
        <4>6. E[k][j] = D[k][j]
          BY <4>1, <1>3 DEF Grows
        <4> QED
          BY <4>3, <4>4, <4>5, <4>6, <2>2
      <3>3. CASE k = Len(E) /\ j = Len(E[k])
        BY <3>3, <2>2, <2>6, <2>7
      <3> QED
        BY <3>1, <3>2, <3>3, <1>3 DEF Grows
    <2>9. ASSUME NEW x \in 1..(Len(U) + 1)
          PROVE  \E k \in 1..M : \E j \in 1..InFront(E, k, M, L) : E[k][j] = V[x]
      <3>1. CASE x \in 1..Len(U)
        <4>1. PICK k \in 1..N : \E j \in 1..InFront(D, k, N, LastPlace(D)) : D[k][j] = U[x]
          BY <3>1, <1>2 DEF RunsOK, InOrder
        <4>2. PICK j \in 1..InFront(D, k, N, LastPlace(D)) : D[k][j] = U[x]
          BY <4>1
        <4>3. InFront(D, k, N, LastPlace(D)) = Len(D[k]) /\ Len(D[k]) \in Nat /\ Len(E[k]) >= Len(D[k]) /\ M >= N
          <5>1. D # <<>> /\ k \in 1..N
            BY <1>2, EmptySeq
          <5>2. Len(D[k]) \in Nat
            BY <5>1, <1>2 DEF NodesOK
          <5>3. Len(E[k]) >= Len(D[k]) /\ M >= N
            BY <5>1, <1>3 DEF Grows
          <5> QED
            BY <5>1, <5>2, <5>3 DEF InFront, LastPlace
        <4>4. k \in 1..M /\ j \in 1..Len(D[k])
          BY <4>3, <1>2, <2>6
        <4>5. Len(E[k]) \in Nat
          BY <4>4, <1>4 DEF NodesOK
        <4>6. j \in 1..InFront(E, k, M, L)
          BY <4>3, <4>4, <4>5 DEF InFront
        <4>7. E[k][j] = D[k][j]
          BY <4>4, <1>3 DEF Grows
        <4> QED
          BY <4>2, <4>4, <4>6, <4>7, <3>1, <2>2
      <3>2. CASE x = Len(U) + 1
        <4>1. L \in 1..InFront(E, M, M, L)
          BY <2>6 DEF InFront
        <4> QED
          BY <4>1, <3>2, <2>2, <2>6
      <3> QED
        BY <3>1, <3>2, <1>2
    <2>10. RunsOK'
      <3>1. LastPlace(E) = L
        BY <2>6 DEF LastPlace
      <3>2. InOrder(E, M, L, Len(V), V)
        BY <1>2, <2>2, <2>6, <2>7, <2>8, <2>9 DEF InOrder
      <3> QED
        BY <3>1, <3>2, <1>2, <1>5, <2>1 DEF RunsOK
    <2>11. DtorTyped'
      BY <1>1, <1>2, <1>4, <1>5, <2>1, <2>2 DEF DtorTyped
    <2> QED
      BY <1>1, <1>2, <1>4, <1>5, <2>1, <2>4, <2>5, <2>10, <2>11 DEF DtorInv, Numbered
  <1> QED
    BY <1>6, <1>7

LEMMA ThreadEndsKeeps ==
    ASSUME DtorInv, Destroying!ThreadEnds
    PROVE  DtorInv'
  <1>1. /\ phase = "runs" /\ phase' = "ends" /\ pnode' = Len(dtor_list) /\ next' = LastPlace(dtor_list)
        /\ UNCHANGED <<dtor_list, registered, toDestroy, destroyed>>
    <2>1. NodesOK(dtor_list)
      BY DEF DtorInv, DtorTyped
    <2>2. dtor_list = <<>> <=> Len(dtor_list) = 0
      BY <2>1, EmptySeq DEF NodesOK
    <2> QED
      BY <2>2 DEF Destroying!ThreadEnds, Destroying!EnterAt, Destroying!FunctionsOf, LastPlace
  <1>2. /\ DtorTyped /\ RunsOK /\ Len(dtor_list) \in Nat /\ destroyed = <<>> /\ Len(destroyed) = 0
        /\ Len(toDestroy) \in Nat
    BY <1>1, EmptySeq DEF DtorInv, RunsOK, DtorTyped, NodesOK
  <1>3. next' \in Nat /\ (pnode' > 0 => next' <= Len(dtor_list'[pnode']))
    <2>1. CASE dtor_list = <<>>
      BY <2>1, <1>1, EmptySeq DEF LastPlace
    <2>2. CASE dtor_list # <<>>
      <3>1. Len(dtor_list) \in 1..Len(dtor_list)
        BY <2>2, <1>2, EmptySeq DEF DtorTyped, NodesOK
      <3> QED
        BY <2>2, <3>1, <1>1, <1>2 DEF LastPlace, DtorTyped, NodesOK
    <2> QED
      BY <2>1, <2>2
  <1>4. DtorTyped'
    BY <1>1, <1>2, <1>3 DEF DtorTyped
  <1>5. EndsOK'
    <2>1. InOrder(dtor_list, Len(dtor_list), LastPlace(dtor_list), Len(toDestroy), toDestroy)
      BY <1>2 DEF RunsOK
    <2>2. \A k \in 1..Len(dtor_list) : ~(k > Len(dtor_list))
      BY <1>2
    <2>3. Len(toDestroy) - Len(destroyed) = Len(toDestroy) /\ Len(destroyed) <= Len(toDestroy)
      BY <1>2
    <2> QED
      BY <2>1, <2>2, <2>3, <1>1, <1>2 DEF EndsOK, Ends
  <1> QED
    BY <1>1, <1>4, <1>5 DEF DtorInv, Numbered

\* What is in front after the last function in front has been called.
LEMMA InFrontOfNext ==
    ASSUME FUNCS_PER_NODE \in Nat \ {0}, NEW D, NodesOK(D), Once(D), NEW p \in 1..Len(D), NEW i \in 1..Len(D[p])
    PROVE  /\ \A k \in 1..p : \A j \in 1..InFront(D, k, p, i) :
                  (k = p /\ j = i) \/ (j \in 1..InFront(D, k, p, i - 1) /\ D[k][j] # D[p][i])
           /\ \A k \in 1..p : \A j \in 1..InFront(D, k, p, i - 1) :
                  j \in 1..InFront(D, k, p, i) /\ D[k][j] # D[p][i]
  <1>1. /\ Len(D) \in Nat /\ \A l \in 1..Len(D) : Len(D[l]) \in Nat
    BY DEF NodesOK
  <1>2. ASSUME NEW k \in 1..p, NEW j \in 1..InFront(D, k, p, i)
        PROVE  (k = p /\ j = i) \/ (j \in 1..InFront(D, k, p, i - 1) /\ D[k][j] # D[p][i])
    <2>1. k \in 1..Len(D)
      BY <1>1
    <2>2. CASE k = p
      <3>1. j \in 1..i /\ j \in 1..Len(D[k])
        BY <2>2, <1>1 DEF InFront
      <3>2. D[k][j] = D[p][i] => j = i
        BY <2>1, <3>1 DEF Once
      <3> QED
        BY <2>2, <3>1, <3>2 DEF InFront
    <2>3. CASE k # p
      BY <2>1, <2>3 DEF InFront, Once
    <2> QED
      BY <2>2, <2>3
  <1>3. ASSUME NEW k \in 1..p, NEW j \in 1..InFront(D, k, p, i - 1)
        PROVE  j \in 1..InFront(D, k, p, i) /\ D[k][j] # D[p][i]
    <2>1. k \in 1..Len(D)
      BY <1>1
    <2>2. CASE k = p
      <3>1. j \in 1..i /\ j \in 1..Len(D[k]) /\ j # i
        BY <2>2, <1>1 DEF InFront
      <3> QED
        BY <2>1, <2>2, <3>1 DEF InFront, Once
    <2>3. CASE k # p
      BY <2>1, <2>3 DEF InFront, Once
    <2> QED
      BY <2>2, <2>3
  <1> QED
    BY <1>2, <1>3

\* The next function is called in D, where there are functions up to r; it may have made E of D.
Place(D, p, n, E, r) ==
    /\ NodesOK(D) /\ Once(D) /\ UpTo(D, r) /\ p \in 1..Len(D) /\ n \in 1..Len(D[p]) /\ r \in Nat
    /\ Grows(D, E, r + 1)

LEMMA PlaceFacts ==
    ASSUME FUNCS_PER_NODE \in Nat \ {0}, NEW D, NEW p, NEW n, NEW E, NEW r, Place(D, p, n, E, r)
    PROVE  /\ NodesOK(D) /\ Once(D) /\ r \in Nat
           /\ Len(D) \in Nat /\ \A k \in 1..Len(D) : Len(D[k]) \in Nat /\ \A j \in 1..Len(D[k]) : D[k][j] \in Nat
           /\ p \in Nat \ {0} /\ n \in Nat \ {0} /\ n - 1 \in Nat /\ p \in 1..Len(D) /\ n \in 1..Len(D[p])
           /\ D[p][n] \in Nat /\ D[p][n] <= r
           /\ \A k \in 1..p : \A j \in 1..InFront(D, k, p, n) :
                  (k = p /\ j = n) \/ (j \in 1..InFront(D, k, p, n - 1) /\ D[k][j] # D[p][n])
           /\ \A k \in 1..p : \A j \in 1..InFront(D, k, p, n - 1) :
                  j \in 1..InFront(D, k, p, n) /\ D[k][j] # D[p][n]
           /\ \A k \in 1..p : /\ InFront(E, k, p, n - 1) = InFront(D, k, p, n - 1)
                              /\ \A j \in 1..InFront(D, k, p, n - 1) : E[k][j] = D[k][j]
           /\ \A m, U : InOrder(D, p, n - 1, m, U) => InOrder(E, p, n - 1, m, U)
           /\ p \in 1..p /\ n \in 1..InFront(D, p, p, n)
           /\ p \in 0..Len(E) /\ n - 1 <= Len(E[p])
  <1>1. /\ NodesOK(D) /\ Once(D) /\ UpTo(D, r) /\ p \in 1..Len(D) /\ n \in 1..Len(D[p]) /\ r \in Nat
        /\ Grows(D, E, r + 1)
    BY DEF Place
  <1>2. Len(D) \in Nat /\ \A k \in 1..Len(D) : Len(D[k]) \in Nat /\ \A j \in 1..Len(D[k]) : D[k][j] \in Nat
    <2>1. D \in Seq(Seq(Nat)) /\ Len(D) \in Nat
      BY <1>1 DEF NodesOK
    <2>2. \A k \in 1..Len(D) : D[k] \in Seq(Nat)
      BY <2>1
    <2> QED
      BY <2>1, <2>2
  <1>3. p \in Nat \ {0} /\ n \in Nat \ {0} /\ n - 1 \in Nat /\ p \in 1..p /\ p \in 0..Len(D) /\ n - 1 <= Len(D[p])
    BY <1>1, <1>2
  <1>4. D[p][n] \in Nat /\ D[p][n] <= r
    BY <1>1, <1>2 DEF UpTo
  <1>5. n \in 1..InFront(D, p, p, n)
    BY <1>3 DEF InFront
  <1>6. /\ \A k \in 1..p : \A j \in 1..InFront(D, k, p, n) :
               (k = p /\ j = n) \/ (j \in 1..InFront(D, k, p, n - 1) /\ D[k][j] # D[p][n])
        /\ \A k \in 1..p : \A j \in 1..InFront(D, k, p, n - 1) :
               j \in 1..InFront(D, k, p, n) /\ D[k][j] # D[p][n]
    BY <1>1, InFrontOfNext
  <1>7. PICK n1 : n1 = n - 1
    OBVIOUS
  <1>8. n1 \in Nat /\ n1 <= Len(D[p])
    BY <1>3, <1>7
  <1>9. \A k \in 1..p : /\ InFront(E, k, p, n1) = InFront(D, k, p, n1)
                        /\ \A j \in 1..InFront(D, k, p, n1) : E[k][j] = D[k][j]
    <2>1. \A k \in 1..p : /\ InFront(E, k, p, n1) = InFront(D, k, p, n1)
                          /\ InFront(D, k, p, n1) \in 0..Len(D[k])
                          /\ \A j \in 1..InFront(D, k, p, n1) : E[k][j] = D[k][j]
      BY <1>1, <1>3, <1>8, InFrontGrows
    <2> QED
      BY <2>1
  <1>10. ASSUME NEW m, NEW U, InOrder(D, p, n1, m, U) PROVE InOrder(E, p, n1, m, U)
    BY <1>1, <1>3, <1>8, <1>10, InOrderGrows
  <1>11. p \in 0..Len(E) /\ n - 1 <= Len(E[p])
    <2>1. Len(E) \in Nat /\ Len(E) >= Len(D) /\ Len(E[p]) >= Len(D[p])
      BY <1>1 DEF Grows, NodesOK
    <2>2. p \in 1..Len(E)
      BY <2>1, <1>1, <1>2
    <2>3. Len(E[p]) \in Nat
      BY <2>2, <1>1 DEF Grows, NodesOK
    <2> QED
      BY <2>1, <2>2, <2>3, <1>1, <1>2
  <1> QED
    BY <1>1, <1>2, <1>3, <1>4, <1>5, <1>6, <1>7, <1>9, <1>10, <1>11

\* What is called while the thread ends is the last function that has not been called.
LEMMA NextIsLast ==
    ASSUME FUNCS_PER_NODE \in Nat \ {0}, NEW D, NEW p, NEW n, NEW E, NEW r, Place(D, p, n, E, r),
           NEW U \in Seq(Nat), NEW R \in Seq(Nat), Ends(D, p, n, U, R)
    PROVE  /\ D[p][n] = U[Len(U) - Len(R)]
           /\ Len(U) - Len(R) = Offset(p) + n /\ Offset(p) \in Nat
           /\ Len(U) - Len(R) \in 1..Len(U)
  <1>1. p \in Nat \ {0} /\ n \in Nat \ {0} /\ Len(U) \in Nat /\ Len(R) \in Nat /\ p \in 1..p /\ n \in 1..InFront(D, p, p, n)
        /\ p # 0
    BY PlaceFacts
  <1>2. D[p][n] = U[Offset(p) + n]
    BY <1>1 DEF Ends, InOrder
  <1>3. Len(U) - Len(R) = Offset(p) + n
    BY <1>1 DEF Ends, InOrder
  <1>4. Offset(p) \in Nat
    BY <1>1, Offsets
  <1>5. Len(U) - Len(R) \in 1..Len(U)
    BY <1>1, <1>3, <1>4
  <1> QED
    BY <1>2, <1>3, <1>4, <1>5

\* While the thread ends, its calls are different functions.
LEMMA CallsDiffer ==
    ASSUME NEW U \in Seq(Nat), NEW R \in Seq(Nat), \A x, y \in 1..Len(U) : U[x] = U[y] => x = y,
           Len(R) <= Len(U), \A i \in 1..Len(R) : R[i] = U[Len(U) + 1 - i]
    PROVE  \A i, j \in 1..Len(R) : R[i] = R[j] => i = j
  <1> SUFFICES ASSUME NEW i \in 1..Len(R), NEW j \in 1..Len(R), R[i] = R[j] PROVE i = j
    OBVIOUS
  <1>1. Len(R) \in Nat /\ Len(U) \in Nat
    BY SMTT(30)
  <1>2. PICK x : x = Len(U) + 1 - i
    OBVIOUS
  <1>3. PICK y : y = Len(U) + 1 - j
    OBVIOUS
  <1>4. x \in 1..Len(U) /\ y \in 1..Len(U)
    <2>1. PICK u, r : u = Len(U) /\ r = Len(R)
      OBVIOUS
    <2>2. u \in Nat /\ r \in Nat /\ r <= u /\ i \in 1..r /\ j \in 1..r
      BY <1>1, <2>1
    <2>3. u + 1 - i \in 1..u
      BY <2>2
    <2>4. u + 1 - j \in 1..u
      BY <2>2
    <2> QED
      BY <1>2, <1>3, <2>1, <2>3, <2>4
  <1>5. U[x] = U[y]
    BY <1>2, <1>3
  <1>6. x = y
    BY <1>4, <1>5
  <1> QED
    BY <1>1, <1>2, <1>3, <1>6

LEMMA EndsGoOn ==
    ASSUME FUNCS_PER_NODE \in Nat \ {0}, NEW D, NEW p, NEW n, NEW E, NEW r, Place(D, p, n, E, r),
           NEW U \in Seq(Nat), NEW R \in Seq(Nat), Ends(D, p, n, U, R), Numbered(U, R, r)
    PROVE  Ends(E, p, n - 1, U, Append(R, D[p][n]))
  <1>1. PICK g, S : g = D[p][n] /\ S = Append(R, g)
    OBVIOUS
  <1>2. g \in Nat /\ p \in Nat \ {0} /\ n \in Nat \ {0} /\ r \in Nat /\ Len(U) \in Nat /\ Len(R) \in Nat /\ Len(D) \in Nat
    BY <1>1, PlaceFacts
  <1>3. /\ Len(S) = Len(R) + 1 /\ S[Len(R) + 1] = g /\ \A i \in 1..Len(R) : S[i] = R[i]
    BY <1>1, <1>2, AppendProperties
  <1>4. /\ g = U[Len(U) - Len(R)] /\ Len(U) - Len(R) = Offset(p) + n /\ Offset(p) \in Nat
        /\ Len(U) - Len(R) \in 1..Len(U)
    BY <1>1, NextIsLast
  <1>5. PICK m, m1 : m = Len(U) - Len(R) /\ m1 = Len(U) - Len(S)
    OBVIOUS
  <1>6. /\ m \in 1..Len(U) /\ m \in Nat /\ m1 \in Nat /\ m1 = m - 1 /\ m1 = Offset(p) + (n - 1) /\ m1 <= Len(U)
        /\ Len(S) <= Len(U)
    <2>1. m \in 1..Len(U) /\ m \in Nat /\ m = Offset(p) + n
      BY <1>2, <1>4, <1>5
    <2>2. m1 = m - 1
      BY <1>2, <1>3, <1>5
    <2>3. Len(S) <= Len(U)
      BY <2>1, <1>2, <1>3, <1>5
    <2>4. m1 = Offset(p) + (n - 1)
      BY <2>1, <2>2, <1>2, <1>4
    <2> QED
      BY <2>1, <2>2, <2>3, <2>4, <1>2
  <1>7. InOrder(D, p, n - 1, m1, U)
    <2>1. \A k \in 1..p : \A j \in 1..InFront(D, k, p, n - 1) : D[k][j] = U[Offset(k) + j]
      <3> SUFFICES ASSUME NEW k \in 1..p, NEW j \in 1..InFront(D, k, p, n - 1) PROVE D[k][j] = U[Offset(k) + j]
        OBVIOUS
      <3>1. j \in 1..InFront(D, k, p, n)
        BY PlaceFacts
      <3> QED
        BY <3>1 DEF Ends, InOrder
    <2>2. ASSUME NEW x \in 1..m1
          PROVE  \E k \in 1..p : \E j \in 1..InFront(D, k, p, n - 1) : D[k][j] = U[x]
      <3>1. x \in 1..m /\ x \in 1..Len(U) /\ x # m
        BY <1>2, <1>6
      <3>2. PICK k \in 1..p : \E j \in 1..InFront(D, k, p, n) : D[k][j] = U[x]
        BY <3>1, <1>5 DEF Ends, InOrder
      <3>3. PICK j \in 1..InFront(D, k, p, n) : D[k][j] = U[x]
        BY <3>2
      <3>4. D[k][j] # D[p][n]
        BY <3>1, <3>3, <1>1, <1>4, <1>5 DEF Numbered
      <3>5. j \in 1..InFront(D, k, p, n - 1)
        BY <3>4, PlaceFacts
      <3> QED
        BY <3>3, <3>5
    <2>3. p # 0
      BY <1>2
    <2> QED
      BY <2>1, <2>2, <2>3, <1>6 DEF InOrder
  <1>8. InOrder(E, p, n - 1, Len(U) - Len(S), U)
    BY <1>5, <1>7, PlaceFacts
  <1>9. ASSUME NEW i \in 1..Len(S) PROVE S[i] = U[Len(U) + 1 - i]
    <2>1. CASE i \in 1..Len(R)
      BY <2>1, <1>3 DEF Ends
    <2>2. CASE i = Len(R) + 1
      <3>1. Len(U) + 1 - i = Len(U) - Len(R)
        BY <2>2, <1>2
      <3> QED
        BY <2>2, <3>1, <1>3, <1>4
    <2>3. i \in 1..Len(R) \/ i = Len(R) + 1
      BY <1>2, <1>3
    <2> QED
      BY <2>1, <2>2, <2>3
  <1>10. ASSUME NEW k \in 1..Len(E), k > p, NEW i \in 1..Len(E[k]), NEW x \in 1..Len(U) PROVE E[k][i] # U[x]
    <2>1. Grows(D, E, r + 1)
      BY DEF Place
    <2>2. CASE k <= Len(D) /\ i <= Len(D[k])
      <3>1. k \in 1..Len(D)
        BY <2>2, <1>2
      <3>2. i \in 1..Len(D[k])
        BY <2>2, <3>1, PlaceFacts
      <3>3. E[k][i] = D[k][i]
        BY <3>1, <3>2, <2>1 DEF Grows
      <3>4. D[k][i] # U[x]
        BY <1>10, <3>1, <3>2 DEF Ends
      <3> QED
        BY <3>3, <3>4
    <2>3. CASE E[k][i] = r + 1
      <3>1. U[x] \in Nat /\ U[x] <= r
        BY DEF Numbered
      <3> QED
        BY <2>3, <3>1, <1>2
    <2> QED
      BY <2>1, <2>2, <2>3 DEF Grows
  <1>11. Ends(E, p, n - 1, U, S)
    BY <1>6, <1>8, <1>9, <1>10 DEF Ends
  <1> QED
    BY <1>1, <1>11

LEMMA ExitsGoOn ==
    ASSUME FUNCS_PER_NODE \in Nat \ {0}, NEW D, NEW p, NEW n, NEW E, NEW r, Place(D, p, n, E, r),
           NEW U \in Seq(Nat), NEW R \in Seq(Nat), Exits(D, p, n, U, R)
    PROVE  Exits(E, p, n - 1, U, Append(R, D[p][n]))
  <1>1. PICK g, S : g = D[p][n] /\ S = Append(R, g)
    OBVIOUS
  <1>2. g \in Nat /\ Len(R) \in Nat
    BY <1>1, PlaceFacts
  <1>3. /\ Len(S) = Len(R) + 1 /\ S[Len(R) + 1] = g /\ \A i \in 1..Len(R) : S[i] = R[i]
    BY <1>1, <1>2, AppendProperties
  <1>4. Ahead(D, p, n, g)
    BY <1>1, PlaceFacts DEF Ahead
  <1>5. ASSUME NEW h, Ahead(D, p, n, h), h # g PROVE Ahead(E, p, n - 1, h)
    <2>1. PICK k \in 1..p : \E j \in 1..InFront(D, k, p, n) : D[k][j] = h
      BY <1>5 DEF Ahead
    <2>2. PICK j \in 1..InFront(D, k, p, n) : D[k][j] = h
      BY <2>1
    <2>3. j \in 1..InFront(D, k, p, n - 1)
      <3>1. (k = p /\ j = n) \/ j \in 1..InFront(D, k, p, n - 1)
        BY PlaceFacts
      <3>2. ~(k = p /\ j = n)
        BY <1>1, <1>5, <2>2
      <3> QED
        BY <3>1, <3>2
    <2>4. j \in 1..InFront(E, k, p, n - 1) /\ E[k][j] = h
      BY SMTT(30), <2>2, <2>3, PlaceFacts
    <2> QED
      BY <2>4 DEF Ahead
  <1>6. ASSUME NEW h, Ahead(E, p, n - 1, h) PROVE Ahead(D, p, n, h) /\ h # g
    <2>1. PICK k \in 1..p : \E j \in 1..InFront(E, k, p, n - 1) : E[k][j] = h
      BY <1>6 DEF Ahead
    <2>2. PICK j \in 1..InFront(E, k, p, n - 1) : E[k][j] = h
      BY <2>1
    <2>3. j \in 1..InFront(D, k, p, n - 1) /\ D[k][j] = h
      BY <2>2, PlaceFacts
    <2>4. j \in 1..InFront(D, k, p, n) /\ D[k][j] # D[p][n]
      BY SMTT(30), <2>3, PlaceFacts
    <2> QED
      BY <2>3, <2>4, <1>1 DEF Ahead
  <1>7. Covered(E, p, n - 1, U, S)
    <2> SUFFICES ASSUME NEW x \in 1..Len(U) PROVE (\E i \in 1..Len(S) : S[i] = U[x]) \/ Ahead(E, p, n - 1, U[x])
      BY DEF Covered
    <2>1. CASE \E i \in 1..Len(R) : R[i] = U[x]
      <3>1. PICK i \in 1..Len(R) : R[i] = U[x]
        BY <2>1
      <3>2. i \in 1..Len(S) /\ S[i] = U[x]
        BY <3>1, <1>2, <1>3
      <3> QED
        BY <3>2
    <2>2. CASE Ahead(D, p, n, U[x]) /\ U[x] # g
      BY <2>2, <1>5
    <2>3. CASE U[x] = g
      <3>1. Len(R) + 1 \in 1..Len(S)
        BY <1>2, <1>3
      <3> QED
        BY <2>3, <3>1, <1>3
    <2> QED
      BY <2>1, <2>2, <2>3 DEF Exits, Covered
  <1>8. PICK m \in Nat, W \in SUBSET Nat : /\ m <= Len(R)
                                          /\ IsFiniteSet(W) /\ Cardinality(W) <= FUNCS_PER_NODE
                                          /\ Repeats(D, p, n, R, m, W)
    BY DEF Exits
  <1>9. Repeats(E, p, n - 1, S, m, W)
    <2>1. ASSUME NEW i \in 1..Len(S), NEW j \in 1..Len(S), i < j, S[i] = S[j]
          PROVE  i <= m /\ m < j /\ S[j] \in W
      <3>1. i \in 1..Len(R) /\ S[i] = R[i]
        BY <2>1, <1>2, <1>3
      <3>2. CASE j \in 1..Len(R)
        <4>1. S[j] = R[j] /\ R[i] = R[j]
          BY <3>1, <3>2, <2>1, <1>3
        <4> QED
          BY <3>1, <3>2, <4>1, <2>1, <1>8 DEF Repeats
      <3>3. CASE j = Len(R) + 1
        <4>1. R[i] = g /\ S[j] = g
          BY <3>1, <3>3, <2>1, <1>3
        <4>2. i <= m /\ R[i] \in W
          BY <3>1, <4>1, <1>4, <1>8 DEF Repeats
        <4>3. m < j
          BY <3>3, <1>2, <1>8
        <4> QED
          BY <4>1, <4>2, <4>3
      <3>4. j \in 1..Len(R) \/ j = Len(R) + 1
        <4>1. PICK last : last = Len(R)
          OBVIOUS
        <4>2. last \in Nat /\ j \in 1..last + 1
          BY <4>1, <1>2, <1>3
        <4>3. j \in 1..last \/ j = last + 1
          BY <4>2
        <4> QED
          BY <4>1, <4>3
      <3> QED
        BY <3>2, <3>3, <3>4
    <2>2. ASSUME NEW i \in 1..Len(S), Ahead(E, p, n - 1, S[i]) PROVE i <= m /\ S[i] \in W
      <3>1. PICK h : h = S[i]
        OBVIOUS
      <3>2. Ahead(D, p, n, h) /\ h # g
        BY <3>1, <2>2, <1>6
      <3>3. i # Len(R) + 1
        BY <3>1, <3>2, <1>3
      <3>4. i \in 1..Len(R) /\ S[i] = R[i]
        BY <3>3, <1>2, <1>3
      <3> QED
        BY <3>1, <3>2, <3>4, <1>8 DEF Repeats
    <2> QED
      BY <2>1, <2>2 DEF Repeats
  <1>10. m <= Len(S)
    BY <1>2, <1>3, <1>8
  <1>11. Exits(E, p, n - 1, U, S)
    BY <1>7, <1>8, <1>9, <1>10 DEF Exits
  <1> QED
    BY <1>1, <1>11

\* A destructor ends the process: what is called from now on begins again at the last function.
LEMMA EndsExit ==
    ASSUME FUNCS_PER_NODE \in Nat \ {0}, NEW D, NEW p, NEW n, NEW E, NEW r, Place(D, p, n, E, r),
           NEW U \in Seq(Nat), NEW R \in Seq(Nat), Ends(D, p, n, U, R), Numbered(U, R, r)
    PROVE  Exits(D, Len(D), Len(D[Len(D)]), U, Append(R, D[p][n]))
  <1>1. PICK g, S, N, L : g = D[p][n] /\ S = Append(R, g) /\ N = Len(D) /\ L = Len(D[N])
    OBVIOUS
  <1>2. g \in Nat /\ Len(U) \in Nat /\ Len(R) \in Nat /\ N \in Nat \ {0} /\ N \in 1..N /\ L \in 1..FUNCS_PER_NODE
        /\ p \in 1..N /\ n \in 1..Len(D[p]) /\ NodesOK(D) /\ Once(D)
        /\ \A k \in 1..N : Len(D[k]) \in 1..FUNCS_PER_NODE /\ D[k] \in Seq(Nat)
    <2>1. g \in Nat /\ p \in 1..N /\ N \in Nat /\ n \in 1..Len(D[p]) /\ NodesOK(D) /\ Once(D)
      BY <1>1, PlaceFacts
    <2>2. N \in Nat \ {0} /\ N \in 1..N
      BY <2>1
    <2>3. \A k \in 1..N : Len(D[k]) \in 1..FUNCS_PER_NODE /\ D[k] \in Seq(Nat)
      BY <2>1, <1>1 DEF NodesOK
    <2> QED
      BY SMTT(30), <2>1, <2>2, <2>3, <1>1
  <1>3. /\ S \in Seq(Nat) /\ Len(S) = Len(R) + 1 /\ S[Len(R) + 1] = g /\ \A i \in 1..Len(R) : S[i] = R[i]
    BY <1>1, <1>2, AppendProperties
  <1>4. /\ g = U[Len(U) - Len(R)] /\ Len(U) - Len(R) = Offset(p) + n /\ Offset(p) \in Nat
        /\ Len(U) - Len(R) \in 1..Len(U)
    BY <1>1, NextIsLast
  <1>5. \A k \in 1..N : InFront(D, k, N, L) = Len(D[k])
    BY <1>1 DEF InFront
  <1>6. PICK m : m = Len(S)
    OBVIOUS
  <1>7. m \in Nat /\ m = Len(R) + 1 /\ m <= Len(U)
    BY <1>2, <1>3, <1>4, <1>6
  <1>8. ASSUME NEW i \in 1..Len(S) PROVE S[i] = U[Len(U) + 1 - i]
    <2>1. CASE i \in 1..Len(R)
      BY <2>1, <1>3 DEF Ends
    <2>2. CASE i = Len(R) + 1
      <3>1. Len(U) + 1 - i = Len(U) - Len(R)
        BY <2>2, <1>2
      <3> QED
        BY <2>2, <3>1, <1>3, <1>4
    <2>3. i \in 1..Len(R) \/ i = Len(R) + 1
      BY <1>2, <1>3
    <2> QED
      BY <2>1, <2>2, <2>3
  <1>9. Covered(D, N, L, U, S)
    <2> SUFFICES ASSUME NEW x \in 1..Len(U) PROVE (\E i \in 1..Len(S) : S[i] = U[x]) \/ Ahead(D, N, L, U[x])
      BY DEF Covered
    <2>1. CASE x <= Len(U) - Len(R)
      <3>1. x \in 1..(Len(U) - Len(R))
        BY <2>1, <1>2
      <3>2. PICK k \in 1..p : \E j \in 1..InFront(D, k, p, n) : D[k][j] = U[x]
        BY <3>1 DEF Ends, InOrder
      <3>3. PICK j \in 1..InFront(D, k, p, n) : D[k][j] = U[x]
        BY <3>2
      <3>4. k \in 1..N /\ j \in 1..Len(D[k])
        <4>1. k \in 1..Len(D) /\ j \in 1..Len(D[k])
          BY <1>1, <1>2, InOrderInside
        <4> QED
          BY <4>1, <1>1
      <3> QED
        BY <3>3, <3>4, <1>5 DEF Ahead
    <2>2. CASE ~(x <= Len(U) - Len(R))
      <3>1. PICK i : i = Len(U) + 1 - x
        OBVIOUS
      <3>2. i \in 1..Len(R) /\ Len(U) + 1 - i = x
        BY <3>1, <2>2, <1>2
      <3>3. R[i] = U[x]
        BY <3>2 DEF Ends
      <3> QED
        BY <3>2, <3>3, <1>2, <1>3
    <2> QED
      BY <2>1, <2>2
  <1> DEFINE V == {h \in Nat : \E j \in 1..Len(D[p]) : D[p][j] = h}
  <1>10. V \in SUBSET Nat /\ IsFiniteSet(V) /\ Cardinality(V) <= FUNCS_PER_NODE
    <2>1. PICK q, d1 : q = Len(D[p]) /\ d1 = D[p]
      OBVIOUS
    <2>2. q \in Nat /\ q <= FUNCS_PER_NODE /\ d1 \in Seq(Nat) /\ Len(d1) = q
      BY <2>1, <1>2
    <2>3. V = {h \in Nat : \E j \in 1..q : d1[j] = h}
      BY <2>1
    <2>4. IsFiniteSet(1..q) /\ Cardinality(1..q) = q
      <3>1. 1 \in Int /\ q \in Int
        BY <2>2
      <3> QED
        BY <3>1, <2>2, FS_Interval
    <2>5. d1 \in Surjection(1..q, V)
      <3>1. \A j \in 1..q : d1[j] \in Nat
        BY <2>2
      <3>2. d1 \in [1..q -> V]
        <4>1. \A j \in 1..q : d1[j] \in V
          BY <2>3, <3>1
        <4>2. d1 \in [1..q -> Nat]
          BY <2>2
        <4> HIDE DEF V
        <4> QED
          BY <4>1, <4>2
      <3>3. \A h \in V : \E j \in 1..q : d1[j] = h
        BY <2>3
      <3> QED
        BY <3>2, <3>3 DEF Surjection
    <2>6. IsFiniteSet(V) /\ Cardinality(V) <= q
      BY <2>4, <2>5, FS_Surjection
    <2>7. Cardinality(V) \in Nat
      BY <2>6, FS_CardinalityType
    <2> QED
      BY <2>2, <2>6, <2>7
  <1>11. Repeats(D, N, L, S, m, V)
    <2>1. \A i, j \in 1..Len(S) : S[i] = S[j] => i = j
      <3>1. \A x, y \in 1..Len(U) : U[x] = U[y] => x = y
        BY DEF Numbered
      <3> QED
        BY <3>1, <1>3, <1>6, <1>7, <1>8, CallsDiffer
    <2>2. ASSUME NEW i \in 1..Len(S), Ahead(D, N, L, S[i]) PROVE i <= m /\ S[i] \in V
      <3>1. PICK x : x = Len(U) + 1 - i
        OBVIOUS
      <3>2. x \in 1..Len(U) /\ x \in Nat /\ S[i] = U[x] /\ x >= Offset(p) + n /\ i <= m
        <4>1. i \in 1..m
          BY <1>6
        <4>2. i <= m /\ x \in 1..Len(U) /\ x >= Len(U) - Len(R) /\ x \in Nat
          BY SMTT(30), <4>1, <3>1, <1>2, <1>7
        <4> QED
          BY <4>2, <3>1, <1>4, <1>8
      <3>3. PICK k \in 1..N : \E j \in 1..InFront(D, k, N, L) : D[k][j] = U[x]
        BY <3>2, <2>2 DEF Ahead
      <3>4. PICK j \in 1..Len(D[k]) : D[k][j] = U[x]
        BY <3>3, <1>5
      <3>5. ~(k > p)
        BY <1>1, <3>2, <3>4 DEF Ends
      <3>6. ~(k < p)
        <4>1. SUFFICES ASSUME k < p PROVE FALSE
          OBVIOUS
        <4>2. k \in 1..p /\ k # p
          BY <4>1, <1>2
        <4>3. j \in 1..InFront(D, k, p, n)
          BY <4>2 DEF InFront
        <4>4. D[k][j] = U[Offset(k) + j]
          BY <4>2, <4>3 DEF Ends, InOrder
        <4>5. Offset(k) + j <= Offset(p) /\ Offset(k) + j \in 1..(Offset(p) + n)
          BY <4>2, <4>3, <1>1, <1>2, InOrderInside
        <4>6. PICK y : y = Offset(k) + j
          OBVIOUS
        <4>7. y \in 1..Len(U) /\ y <= Offset(p) /\ y \in Nat
          <5>1. PICK o, e : o = Offset(p) /\ e = Len(U) - Len(R)
            OBVIOUS
          <5>2. e = o + n /\ o \in Nat /\ e \in 1..Len(U) /\ y \in 1..(o + n) /\ y <= o
            BY <4>5, <4>6, <5>1, <1>4
          <5> QED
            BY <5>1, <5>2, <1>2
        <4>8. y = x
          BY <4>4, <4>6, <4>7, <3>2, <3>4 DEF Numbered
        <4> QED
          BY <4>7, <4>8, <3>2, <1>2, <1>4
      <3>7. k = p
        BY <3>5, <3>6, <1>2
      <3>8. S[i] \in Nat
        BY <1>3
      <3> QED
        BY <3>2, <3>4, <3>7, <3>8
    <2> QED
      BY <2>1, <2>2 DEF Repeats
  <1>12. Exits(D, N, L, U, S)
    BY <1>6, <1>7, <1>9, <1>10, <1>11 DEF Exits
  <1> QED
    BY <1>1, <1>12

\* The node that __dyn_tls_dtor has come to the beginning of leaves the list.
Cut(D, p, E) == NodesOK(D) /\ Once(D) /\ p \in 1..Len(D) /\ E = SubSeq(D, 1, p - 1)

LEMMA Shorter ==
    ASSUME FUNCS_PER_NODE \in Nat \ {0}, NEW D, NEW p, NEW E, Cut(D, p, E)
    PROVE  /\ NodesOK(E) /\ Once(E) /\ (\A r : UpTo(D, r) => UpTo(E, r)) /\ Len(E) = p - 1 /\ p - 1 \in Nat
           /\ \A k \in 1..(p - 1) : E[k] = D[k]
           /\ \A k \in 1..p : \A j \in 1..InFront(D, k, p, 0) : k \in 1..(p - 1) /\ j \in 1..Len(D[k])
           /\ \A k \in 1..(p - 1) : /\ InFront(E, k, p - 1, LastPlace(E)) = Len(D[k])
                                    /\ InFront(D, k, p, 0) = Len(D[k])
           /\ LastPlace(E) = (IF p - 1 = 0 THEN 0 ELSE FUNCS_PER_NODE)
  <1>0. NodesOK(D) /\ Once(D) /\ p \in 1..Len(D) /\ E = SubSeq(D, 1, p - 1)
    BY DEF Cut
  <1>1. /\ D \in Seq(Seq(Nat)) /\ Len(D) \in Nat /\ p \in Nat \ {0} /\ p - 1 \in Nat
        /\ \A k \in 1..Len(D) : Len(D[k]) \in 1..FUNCS_PER_NODE /\ (k # Len(D) => Len(D[k]) = FUNCS_PER_NODE)
    BY <1>0 DEF NodesOK
  <1>2. PICK q : q = p - 1
    OBVIOUS
  <1>3. q \in Nat /\ q < p /\ q < Len(D) /\ \A k \in 1..q : k \in 1..Len(D) /\ k # Len(D) /\ k # p /\ k \in 1..p
    BY <1>0, <1>1, <1>2
  <1>4. /\ E \in Seq(Seq(Nat)) /\ Len(E) = q /\ \A k \in 1..q : E[k] = D[k]
    <2>1. E \in Seq(Seq(Nat)) /\ Len(E) = IF 1 <= q THEN q - 1 + 1 ELSE 0
      BY <1>0, <1>1, <1>2, <1>3, SubSeqProperties
    <2>2. Len(E) = q
      BY <2>1, <1>3
    <2>3. \A k \in 1..q : E[k] = D[k]
      BY <2>2, <1>0, <1>1, <1>2, <1>3
    <2> QED
      BY <2>1, <2>2, <2>3
  <1>5. \A k \in 1..q : Len(D[k]) = FUNCS_PER_NODE /\ FUNCS_PER_NODE \in 1..FUNCS_PER_NODE
    BY <1>1, <1>3
  <1>6. NodesOK(E)
    BY <1>4, <1>5 DEF NodesOK
  <1>7. Once(E) /\ \A r : UpTo(D, r) => UpTo(E, r)
    <2>1. Once(E)
      <3> SUFFICES ASSUME NEW k \in 1..q, NEW l \in 1..q, NEW i \in 1..Len(E[k]), NEW j \in 1..Len(E[l]),
                          E[k][i] = E[l][j]
                   PROVE  k = l /\ i = j
        BY <1>4 DEF Once
      <3>1. k \in 1..Len(D) /\ l \in 1..Len(D) /\ E[k] = D[k] /\ E[l] = D[l]
        BY <1>3, <1>4
      <3>2. i \in 1..Len(D[k]) /\ j \in 1..Len(D[l]) /\ D[k][i] = D[l][j]
        BY <3>1
      <3> QED
        BY <3>1, <3>2, <1>0 DEF Once
    <2>2. \A r : UpTo(D, r) => UpTo(E, r)
      BY <1>3, <1>4 DEF UpTo
    <2> QED
      BY <2>1, <2>2
  <1>8. ASSUME NEW k \in 1..p, NEW j \in 1..InFront(D, k, p, 0) PROVE k \in 1..q /\ j \in 1..Len(D[k])
    <2>1. k # p
      BY DEF InFront
    <2>2. InFront(D, k, p, 0) = Len(D[k])
      BY <2>1 DEF InFront
    <2> QED
      BY <2>1, <2>2, <1>1, <1>2, <1>3
  <1>9. LastPlace(E) = IF q = 0 THEN 0 ELSE FUNCS_PER_NODE
    <2>1. CASE q = 0
      <3>1. E = <<>>
        BY <2>1, <1>4, EmptySeq
      <3> QED
        BY <2>1, <3>1 DEF LastPlace
    <2>2. CASE q # 0
      <3>1. q \in 1..q /\ E # <<>>
        BY <2>2, <1>3, <1>4, EmptySeq
      <3> QED
        BY <2>2, <3>1, <1>4, <1>5 DEF LastPlace
    <2> QED
      BY <2>1, <2>2
  <1>10. ASSUME NEW k \in 1..q
         PROVE  /\ InFront(E, k, q, LastPlace(E)) = Len(D[k])
                /\ InFront(D, k, p, 0) = Len(D[k])
    <2>1. q # 0 /\ k # p
      BY <1>3
    <2>2. LastPlace(E) = FUNCS_PER_NODE
      BY <2>1, <1>9
    <2> QED
      BY <2>1, <2>2, <1>4, <1>5 DEF InFront
  <1> QED
    BY <1>2, <1>3, <1>4, <1>6, <1>7, <1>8, <1>9, <1>10

LEMMA EndsShorter ==
    ASSUME FUNCS_PER_NODE \in Nat \ {0}, NEW D, NEW p, NEW E, Cut(D, p, E), NEW U \in Seq(Nat), NEW R \in Seq(Nat),
           Ends(D, p, 0, U, R)
    PROVE  Ends(E, p - 1, LastPlace(E), U, R)
  <1>1. PICK q, L, m : q = p - 1 /\ L = LastPlace(E) /\ m = Len(U) - Len(R)
    OBVIOUS
  <1>2. /\ Len(E) = q /\ q \in Nat /\ p # 0 /\ p \in Nat \ {0} /\ p = q + 1
        /\ \A k \in 1..q : E[k] = D[k] /\ InFront(E, k, q, L) = Len(D[k]) /\ InFront(D, k, p, 0) = Len(D[k])
        /\ \A k \in 1..p : \A j \in 1..InFront(D, k, p, 0) : k \in 1..q /\ j \in 1..Len(D[k])
        /\ L = (IF q = 0 THEN 0 ELSE FUNCS_PER_NODE)
    <2>1. Len(D) \in Nat /\ p \in 1..Len(D)
      BY DEF Cut, NodesOK
    <2>2. /\ \A k \in 1..(p - 1) : E[k] = D[k]
          /\ \A k \in 1..(p - 1) : InFront(E, k, p - 1, LastPlace(E)) = Len(D[k]) /\ InFront(D, k, p, 0) = Len(D[k])
          /\ \A k \in 1..p : \A j \in 1..InFront(D, k, p, 0) : k \in 1..(p - 1) /\ j \in 1..Len(D[k])
          /\ Len(E) = p - 1 /\ p - 1 \in Nat /\ LastPlace(E) = (IF p - 1 = 0 THEN 0 ELSE FUNCS_PER_NODE)
      BY Shorter
    <2>3. p \in Nat \ {0} /\ p # 0 /\ p = q + 1
      BY <2>1, <1>1
    <2> QED
      BY <2>2, <2>3, <1>1
  <1>3. m = Offset(p) + 0 /\ m <= Len(U) /\ Offset(p) \in Nat
    BY <1>1, <1>2, Offsets DEF Ends, InOrder
  <1>4. m = IF q = 0 THEN 0 ELSE Offset(q) + L
    <2>1. CASE q = 0
      BY <2>1, <1>2, <1>3, Offsets
    <2>2. CASE q # 0
      <3>1. Offset(q + 1) = Offset(q) + FUNCS_PER_NODE
        BY <2>2, <1>2, Offsets
      <3> QED
        BY <2>2, <3>1, <1>2, <1>3
    <2> QED
      BY <2>1, <2>2
  <1>5. \A k \in 1..q : \A j \in 1..InFront(E, k, q, L) : E[k][j] = U[Offset(k) + j]
    <2> SUFFICES ASSUME NEW k \in 1..q, NEW j \in 1..InFront(E, k, q, L) PROVE E[k][j] = U[Offset(k) + j]
      OBVIOUS
    <2>1. k \in 1..p /\ j \in 1..InFront(D, k, p, 0) /\ E[k] = D[k]
      BY <1>2
    <2>2. D[k][j] = U[Offset(k) + j]
      BY <2>1 DEF Ends, InOrder
    <2> QED
      BY <2>1, <2>2
  <1>6. ASSUME NEW x \in 1..m PROVE \E k \in 1..q : \E j \in 1..InFront(E, k, q, L) : E[k][j] = U[x]
    <2>1. PICK k \in 1..p : \E j \in 1..InFront(D, k, p, 0) : D[k][j] = U[x]
      BY <1>1 DEF Ends, InOrder
    <2>2. PICK j \in 1..InFront(D, k, p, 0) : D[k][j] = U[x]
      BY <2>1
    <2>3. k \in 1..q /\ j \in 1..InFront(E, k, q, L) /\ E[k] = D[k]
      BY <2>2, <1>2
    <2> QED
      BY <2>2, <2>3
  <1>7. InOrder(E, q, L, m, U)
    BY <1>3, <1>4, <1>5, <1>6 DEF InOrder
  <1>8. \A k \in 1..Len(E) : ~(k > q)
    BY <1>2
  <1> QED
    BY <1>1, <1>7, <1>8 DEF Ends

LEMMA ExitsShorter ==
    ASSUME FUNCS_PER_NODE \in Nat \ {0}, NEW D, NEW p, NEW E, Cut(D, p, E), NEW U \in Seq(Nat), NEW R \in Seq(Nat),
           Exits(D, p, 0, U, R)
    PROVE  Exits(E, p - 1, LastPlace(E), U, R)
  <1>1. PICK q, L : q = p - 1 /\ L = LastPlace(E)
    OBVIOUS
  <1>2. /\ q \in Nat /\ p = q + 1
        /\ \A k \in 1..q : E[k] = D[k] /\ InFront(E, k, q, L) = Len(D[k]) /\ InFront(D, k, p, 0) = Len(D[k])
        /\ \A k \in 1..p : \A j \in 1..InFront(D, k, p, 0) : k \in 1..q /\ j \in 1..Len(D[k])
    <2>1. Len(D) \in Nat /\ p \in 1..Len(D)
      BY DEF Cut, NodesOK
    <2>2. /\ \A k \in 1..(p - 1) : E[k] = D[k]
          /\ \A k \in 1..(p - 1) : InFront(E, k, p - 1, LastPlace(E)) = Len(D[k]) /\ InFront(D, k, p, 0) = Len(D[k])
          /\ \A k \in 1..p : \A j \in 1..InFront(D, k, p, 0) : k \in 1..(p - 1) /\ j \in 1..Len(D[k])
          /\ Len(E) = p - 1 /\ p - 1 \in Nat /\ LastPlace(E) = (IF p - 1 = 0 THEN 0 ELSE FUNCS_PER_NODE)
      BY Shorter
    <2>3. p \in Nat \ {0} /\ p # 0 /\ p = q + 1
      BY <2>1, <1>1
    <2> QED
      BY <2>2, <2>3, <1>1
  <1>3. ASSUME NEW h, Ahead(D, p, 0, h) PROVE Ahead(E, q, L, h)
    <2>1. PICK k \in 1..p : \E j \in 1..InFront(D, k, p, 0) : D[k][j] = h
      BY <1>3 DEF Ahead
    <2>2. PICK j \in 1..InFront(D, k, p, 0) : D[k][j] = h
      BY <2>1
    <2> QED
      BY <2>2, <1>2 DEF Ahead
  <1>4. ASSUME NEW h, Ahead(E, q, L, h) PROVE Ahead(D, p, 0, h)
    <2>1. PICK k \in 1..q : \E j \in 1..InFront(E, k, q, L) : E[k][j] = h
      BY <1>4 DEF Ahead
    <2>2. PICK j \in 1..InFront(E, k, q, L) : E[k][j] = h
      BY <2>1
    <2>3. k \in 1..p /\ j \in 1..InFront(D, k, p, 0) /\ D[k][j] = h
      BY <2>2, <1>2
    <2> QED
      BY <2>3 DEF Ahead
  <1>5. Covered(E, q, L, U, R)
    BY <1>3 DEF Exits, Covered
  <1>6. \A m, W : Repeats(D, p, 0, R, m, W) => Repeats(E, q, L, R, m, W)
    BY <1>4 DEF Repeats
  <1> QED
    BY <1>1, <1>5, <1>6 DEF Exits

LEMMA EndNodeKeeps ==
    ASSUME FUNCS_PER_NODE \in Nat \ {0}, DtorInv, Destroying!EndNode
    PROVE  DtorInv'
  <1>1. PICK D, p, r, U, R, E : /\ D = dtor_list /\ p = pnode /\ r = registered /\ U = toDestroy /\ R = destroyed
                               /\ E = dtor_list'
    OBVIOUS
  <1>2. /\ phase \in {"ends", "exits"} /\ p > 0 /\ next = 0 /\ E = SubSeq(D, 1, p - 1) /\ pnode' = p - 1
        /\ next' = (IF p - 1 = 0 THEN 0 ELSE Len(D[p - 1]))
        /\ UNCHANGED <<phase, registered, toDestroy, destroyed>>
    BY <1>1 DEF Destroying!EndNode, Destroying!EnterAt, Destroying!Older, Destroying!FunctionsOf, Destroying!Detaching
  <1>3. /\ NodesOK(D) /\ Once(D) /\ UpTo(D, r) /\ p \in 1..Len(D) /\ Numbered(U, R, r)
        /\ U \in Seq(Nat) /\ R \in Seq(Nat) /\ r \in Nat /\ Len(D) \in Nat
    BY <1>1, <1>2 DEF DtorInv, DtorTyped, NodesOK
  <1>4. /\ NodesOK(E) /\ Once(E) /\ UpTo(E, r) /\ Len(E) = p - 1 /\ p - 1 \in Nat
        /\ (\A k \in 1..(p - 1) : E[k] = D[k]) /\ Cut(D, p, E)
    <2>1. Cut(D, p, E)
      BY <1>2, <1>3 DEF Cut
    <2>2. /\ NodesOK(E) /\ Once(E) /\ (\A s : UpTo(D, s) => UpTo(E, s)) /\ Len(E) = p - 1 /\ p - 1 \in Nat
          /\ \A k \in 1..(p - 1) : E[k] = D[k]
      BY <2>1, Shorter
    <2> QED
      BY <2>1, <2>2, <1>3
  <1>5. next' = LastPlace(E)
    <2>1. p - 1 = 0 => E = <<>>
      BY <1>4, EmptySeq DEF NodesOK
    <2>2. p - 1 # 0 => E # <<>> /\ E[p - 1] = D[p - 1]
      <3>1. PICK q : q = p - 1
        OBVIOUS
      <3>2. q \in Nat
        BY <3>1, <1>4
      <3>3. q # 0 => q \in 1..q
        BY <3>2
      <3> QED
        BY <3>1, <3>3, <1>4, EmptySeq
    <2> QED
      BY <2>1, <2>2, <1>2, <1>4 DEF LastPlace
  <1>6. DtorTyped'
    <2>1. p - 1 \in 0..Len(E)
      BY <1>4
    <2>2. LastPlace(E) \in Nat /\ (p - 1 > 0 => LastPlace(E) <= Len(E[p - 1]))
      <3>1. CASE p - 1 = 0
        <4>1. E = <<>>
          BY <3>1, <1>4, EmptySeq DEF NodesOK
        <4> QED
          BY <3>1, <4>1 DEF LastPlace
      <3>2. CASE p - 1 # 0
        <4>1. E # <<>> /\ p - 1 \in 1..Len(E)
          <5>1. PICK q : q = p - 1
            OBVIOUS
          <5>2. q \in Nat /\ q # 0
            BY <5>1, <3>2, <1>4
          <5>3. q \in 1..q
            BY <5>2
          <5> QED
            BY <5>1, <5>2, <5>3, <1>4, EmptySeq
        <4>2. Len(E[p - 1]) \in 1..FUNCS_PER_NODE
          BY <4>1, <1>4 DEF NodesOK
        <4> QED
          BY <4>1, <4>2, <1>4 DEF LastPlace
      <3> QED
        BY <3>1, <3>2
    <2> QED
      BY <2>1, <2>2, <1>1, <1>2, <1>3, <1>4, <1>5 DEF DtorTyped
  <1>7. CASE phase = "ends"
    <2>1. Ends(D, p, 0, U, R)
      BY <1>1, <1>2, <1>7 DEF DtorInv, EndsOK
    <2>2. Ends(E, p - 1, LastPlace(E), U, R)
      BY <2>1, <1>3, <1>4, EndsShorter
    <2>3. EndsOK'
      BY <2>2, <1>1, <1>2, <1>5 DEF EndsOK
    <2> QED
      BY <2>3, <1>1, <1>2, <1>3, <1>4, <1>6, <1>7 DEF DtorInv
  <1>8. CASE phase = "exits"
    <2>1. Exits(D, p, 0, U, R)
      BY <1>1, <1>2, <1>8 DEF DtorInv, ExitsOK
    <2>2. Exits(E, p - 1, LastPlace(E), U, R)
      BY <2>1, <1>3, <1>4, ExitsShorter
    <2>3. ExitsOK'
      BY <2>2, <1>1, <1>2, <1>5 DEF ExitsOK
    <2> QED
      BY <2>3, <1>1, <1>2, <1>3, <1>4, <1>6, <1>8 DEF DtorInv
  <1> QED
    BY <1>2, <1>7, <1>8

\* A destructor returns; it may have registered another function.
GoesOn(E, rr) ==
    /\ dtor_list' = E /\ registered' = rr /\ next' = next - 1
    /\ destroyed' = Append(destroyed, dtor_list[pnode][next])
    /\ UNCHANGED <<pnode, phase, toDestroy>>

LEMMA GoesOnKeeps ==
    ASSUME FUNCS_PER_NODE \in Nat \ {0}, DtorInv, phase \in {"ends", "exits"}, NEW E, NEW rr \in Nat,
           Place(dtor_list, pnode, next, E, registered), Once(E), UpTo(E, rr), rr >= registered, GoesOn(E, rr)
    PROVE  DtorInv'
  <1>1. PICK D, p, n, r, U, R, S : /\ D = dtor_list /\ p = pnode /\ n = next /\ r = registered
                                  /\ U = toDestroy /\ R = destroyed /\ S = Append(R, D[p][n])
    OBVIOUS
  <1>2. Place(D, p, n, E, r) /\ rr \in Nat /\ rr >= r
    BY <1>1
  <1>3. /\ dtor_list' = E /\ registered' = rr /\ pnode' = p /\ next' = n - 1 /\ destroyed' = S /\ toDestroy' = U
        /\ phase' = phase
    BY <1>1 DEF GoesOn
  <1>4. Numbered(U, R, r) /\ U \in Seq(Nat) /\ R \in Seq(Nat)
    BY <1>1 DEF DtorInv, DtorTyped
  <1>5. /\ D[p][n] \in Nat /\ D[p][n] <= r /\ r \in Nat /\ n - 1 \in Nat /\ p \in 0..Len(E) /\ n - 1 <= Len(E[p])
        /\ NodesOK(E)
    BY <1>2, PlaceFacts DEF Place, Grows
  <1>6. /\ S \in Seq(Nat) /\ Len(S) = Len(R) + 1 /\ S[Len(R) + 1] = D[p][n] /\ \A i \in 1..Len(R) : S[i] = R[i]
        /\ Len(R) \in Nat
    BY <1>1, <1>4, <1>5, AppendProperties
  <1>7. Numbered(U, S, rr)
    <2>1. ASSUME NEW x \in 1..Len(U) PROVE U[x] <= rr
      <3>1. U[x] \in Nat /\ U[x] <= r
        BY <1>4 DEF Numbered
      <3> QED
        BY <3>1, <1>2, <1>5
    <2>2. ASSUME NEW i \in 1..Len(S) PROVE S[i] <= rr
      <3>1. i \in 1..Len(R) \/ i = Len(R) + 1
        BY <1>6
      <3>2. S[i] \in Nat /\ S[i] <= r
        <4>1. CASE i \in 1..Len(R)
          <5>1. R[i] \in Nat /\ R[i] <= r /\ S[i] = R[i]
            BY <4>1, <1>4, <1>6 DEF Numbered
          <5> QED
            BY <5>1
        <4>2. CASE i = Len(R) + 1
          BY <4>2, <1>5, <1>6
        <4> QED
          BY <3>1, <4>1, <4>2
      <3> QED
        BY <3>2, <1>2, <1>5
    <2> QED
      BY <2>1, <2>2, <1>4 DEF Numbered
  <1>8. DtorTyped'
    <2>1. phase \in {"runs", "ends", "exits", "gone", "exited"}
      OBVIOUS
    <2> QED
      BY <2>1, <1>2, <1>3, <1>4, <1>5, <1>6 DEF DtorTyped
  <1>9. CASE phase = "ends"
    <2>1. Ends(D, p, n, U, R)
      BY <1>1, <1>9 DEF DtorInv, EndsOK
    <2>2. Ends(E, p, n - 1, U, S)
      BY <2>1, <1>1, <1>2, <1>4, EndsGoOn
    <2>3. EndsOK'
      BY <2>2, <1>3 DEF EndsOK
    <2> QED
      BY <2>3, <1>3, <1>7, <1>8, <1>9 DEF DtorInv
  <1>10. CASE phase = "exits"
    <2>1. Exits(D, p, n, U, R)
      BY <1>1, <1>10 DEF DtorInv, ExitsOK
    <2>2. Exits(E, p, n - 1, U, S)
      BY <2>1, <1>1, <1>2, <1>4, ExitsGoOn
    <2>3. ExitsOK'
      BY <2>2, <1>3 DEF ExitsOK
    <2> QED
      BY <2>3, <1>3, <1>7, <1>8, <1>10 DEF DtorInv
  <1> QED
    BY <1>9, <1>10

LEMMA CallKeeps ==
    ASSUME FUNCS_PER_NODE \in Nat \ {0}, DtorInv, Destroying!CallDestructor
    PROVE  DtorInv'
  <1>1. /\ phase \in {"ends", "exits"} /\ pnode > 0 /\ next > 0
        /\ destroyed' = Append(destroyed, dtor_list[pnode][next])
    BY DEF Destroying!CallDestructor, Destroying!Detaching
  <1>2. /\ NodesOK(dtor_list) /\ Once(dtor_list) /\ UpTo(dtor_list, registered)
        /\ pnode \in 1..Len(dtor_list) /\ next \in 1..Len(dtor_list[pnode])
        /\ registered \in Nat /\ registered + 1 \in Nat /\ registered + 1 >= registered /\ registered >= registered
    BY <1>1 DEF DtorInv, DtorTyped, NodesOK
  <1>3. Grows(dtor_list, dtor_list, registered + 1)
    <2>1. Len(dtor_list) \in Nat /\ \A k \in 1..Len(dtor_list) : Len(dtor_list[k]) \in Nat
      BY <1>2 DEF NodesOK
    <2> QED
      BY <2>1, <1>2 DEF Grows
  <1>4. CASE next' = next - 1 /\ UNCHANGED <<dtor_list, pnode, phase, registered, toDestroy>>
    <2>1. GoesOn(dtor_list, registered)
      BY <1>1, <1>4 DEF GoesOn
    <2>2. Place(dtor_list, pnode, next, dtor_list, registered)
      BY <1>2, <1>3 DEF Place
    <2> QED
      BY <2>1, <2>2, <1>1, <1>2, GoesOnKeeps
  <1>5. CASE next' = next - 1 /\ Destroying!Register /\ UNCHANGED <<pnode, phase>>
    <2>1. PICK refused \in BOOLEAN : /\ dtor_list' = Destroying!Registered(registered + 1, refused)
                                   /\ registered' = registered + 1
                                   /\ toDestroy' = toDestroy
      BY <1>1, <1>5 DEF Destroying!Register
    <2>2. PICK E : E = Destroying!Registered(registered + 1, refused)
      OBVIOUS
    <2>3. Grows(dtor_list, E, registered + 1)
      BY <2>2, <1>2, RegisteredGrows
    <2>4. Once(E) /\ UpTo(E, registered + 1)
      BY <2>3, <1>2, GrowsKeeps
    <2>5. Place(dtor_list, pnode, next, E, registered)
      BY <2>3, <1>2 DEF Place
    <2>6. GoesOn(E, registered + 1)
      BY <2>1, <2>2, <1>1, <1>5 DEF GoesOn
    <2> QED
      BY <2>4, <2>5, <2>6, <1>1, <1>2, GoesOnKeeps
  <1>6. CASE /\ phase = "ends" /\ phase' = "exits" /\ Destroying!EnterAt(Len(dtor_list))
             /\ UNCHANGED <<dtor_list, registered, toDestroy>>
    <2>1. PICK D, p, n, r, U, R, S : /\ D = dtor_list /\ p = pnode /\ n = next /\ r = registered
                                    /\ U = toDestroy /\ R = destroyed /\ S = Append(R, D[p][n])
      OBVIOUS
    <2>2. Place(D, p, n, D, r) /\ Numbered(U, R, r) /\ U \in Seq(Nat) /\ R \in Seq(Nat)
      BY <2>1, <1>2, <1>3 DEF Place, DtorInv, DtorTyped
    <2>3. Ends(D, p, n, U, R)
      BY <2>1, <1>6 DEF DtorInv, EndsOK
    <2>4. Exits(D, Len(D), Len(D[Len(D)]), U, S)
      BY <2>1, <2>2, <2>3, EndsExit
    <2>5. /\ dtor_list' = D /\ registered' = r /\ pnode' = Len(D) /\ next' = Len(D[Len(D)])
          /\ destroyed' = S /\ toDestroy' = U /\ phase' = "exits"
      <3>1. Len(D) # 0
        BY <2>1, <1>2
      <3> QED
        BY <2>1, <3>1, <1>1, <1>6 DEF Destroying!EnterAt, Destroying!FunctionsOf
    <2>6. D[p][n] \in Nat /\ D[p][n] <= r /\ NodesOK(D) /\ Once(D) /\ Len(D) \in Nat /\ r \in Nat /\ Len(D) \in 1..Len(D)
      <3>1. D[p][n] \in Nat /\ D[p][n] <= r /\ NodesOK(D) /\ Once(D) /\ Len(D) \in Nat /\ r \in Nat /\ p \in 1..Len(D)
        BY <2>2, PlaceFacts
      <3> QED
        BY <3>1
    <2>7. /\ S \in Seq(Nat) /\ Len(S) = Len(R) + 1 /\ S[Len(R) + 1] = D[p][n] /\ \A i \in 1..Len(R) : S[i] = R[i]
          /\ Len(R) \in Nat
      BY <2>1, <2>2, <2>6, AppendProperties
    <2>8. Numbered(U, S, r)
      <3>1. ASSUME NEW i \in 1..Len(S) PROVE S[i] <= r
        <4>1. i \in 1..Len(R) \/ i = Len(R) + 1
          BY <2>7
        <4>2. CASE i \in 1..Len(R)
          BY <4>2, <2>2, <2>7 DEF Numbered
        <4>3. CASE i = Len(R) + 1
          BY <4>3, <2>6, <2>7
        <4> QED
          BY <4>1, <4>2, <4>3
      <3> QED
        BY <3>1, <2>2 DEF Numbered
    <2>9. DtorTyped'
      <3>1. Len(D[Len(D)]) \in 1..FUNCS_PER_NODE
        BY <2>6 DEF NodesOK
      <3>2. Len(D) \in 0..Len(D) /\ Len(D[Len(D)]) \in Nat /\ Len(D[Len(D)]) <= Len(D[Len(D)])
        BY <3>1, <2>6
      <3> QED
        BY <3>2, <2>2, <2>5, <2>6, <2>7 DEF DtorTyped
    <2>10. ExitsOK'
      BY <2>4, <2>5 DEF ExitsOK
    <2>11. Once(D) /\ UpTo(D, r)
      BY <2>2 DEF Place
    <2> QED
      BY <2>5, <2>8, <2>9, <2>10, <2>11 DEF DtorInv
  <1> QED
    BY <1>4, <1>5, <1>6 DEF Destroying!CallDestructor

LEMMA DtorReturnKeeps ==
    ASSUME FUNCS_PER_NODE \in Nat \ {0}, DtorInv, Destroying!Return
    PROVE  DtorInv'
  <1>1. /\ phase \in {"ends", "exits"} /\ pnode = 0 /\ UNCHANGED <<dtor_list, pnode, next, registered, toDestroy, destroyed>>
        /\ phase' = IF phase = "ends" THEN "gone" ELSE "exited"
    BY DEF Destroying!Return, Destroying!Detaching
  <1>2. DtorTyped'
    BY <1>1 DEF DtorInv, DtorTyped
  <1>3. CASE phase = "ends"
    <2>1. EndsOK /\ Len(toDestroy) \in Nat /\ Len(destroyed) \in Nat
      BY <1>3 DEF DtorInv, DtorTyped
    <2>2. Len(toDestroy) - Len(destroyed) = 0
      BY <2>1, <1>1 DEF EndsOK, Ends, InOrder
    <2>3. Len(destroyed) = Len(toDestroy)
      BY <2>1, <2>2
    <2>4. GoneOK'
      BY <2>1, <2>3, <1>1 DEF GoneOK, EndsOK, Ends
    <2> QED
      BY <2>4, <1>1, <1>2, <1>3 DEF DtorInv
  <1>4. CASE phase = "exits"
    <2>1. ExitsOK'
      BY <1>1, <1>4 DEF DtorInv, ExitsOK
    <2> QED
      BY <2>1, <1>1, <1>2, <1>4 DEF DtorInv
  <1> QED
    BY <1>1, <1>3, <1>4

LEMMA DtorSteps ==
    ASSUME FUNCS_PER_NODE \in Nat \ {0}, DtorInv, [Destroying!Next]_(Destroying!vars)
    PROVE  DtorInv'
  <1>1. CASE Destroying!Next
    BY <1>1, RegisterRuns, ThreadEndsKeeps, CallKeeps, EndNodeKeeps, DtorReturnKeeps DEF Destroying!Next
  <1>2. CASE UNCHANGED Destroying!vars
    <2>1. UNCHANGED <<dtor_list, pnode, next, phase, registered, toDestroy, destroyed>>
      BY <1>2 DEF Destroying!vars
    <2> QED
      BY <2>1 DEF DtorInv, DtorTyped, RunsOK, EndsOK, GoneOK, ExitsOK
  <1> QED
    BY <1>1, <1>2

\* What is called twice.
Twice(R) == {i \in DOMAIN R : \E j \in 1..i - 1 : R[j] = R[i]}

LEMMA TwiceFew ==
    ASSUME FUNCS_PER_NODE \in Nat \ {0}, DtorInv
    PROVE  Cardinality(Twice(destroyed)) <= FUNCS_PER_NODE
  <1> DEFINE R == destroyed
             twice == Twice(R)
  <1>1. R \in Seq(Nat) /\ Len(R) \in Nat /\ DOMAIN R = 1..Len(R) /\ toDestroy \in Seq(Nat)
        /\ phase \in {"runs", "ends", "exits", "gone", "exited"}
        /\ \A x, y \in 1..Len(toDestroy) : toDestroy[x] = toDestroy[y] => x = y
    BY DEF DtorInv, DtorTyped, Numbered
  <1>2. ASSUME NEW i \in 1..Len(R), NEW j \in 1..i - 1 PROVE j \in 1..Len(R) /\ j < i
    BY <1>1
  <1>3. CASE phase \in {"runs", "ends", "gone"}
    <2>1. \A i, j \in 1..Len(R) : R[i] = R[j] => i = j
      <3>1. CASE phase = "runs"
        <4>1. Len(R) = 0
          BY <3>1, EmptySeq DEF DtorInv, RunsOK
        <4> QED
          BY <4>1
      <3>2. CASE phase = "ends"
        <4>1. Len(R) <= Len(toDestroy) /\ \A i \in 1..Len(R) : R[i] = toDestroy[Len(toDestroy) + 1 - i]
          BY <3>2 DEF DtorInv, EndsOK, Ends
        <4> QED
          BY <4>1, <1>1, CallsDiffer
      <3>3. CASE phase = "gone"
        <4>1. Len(R) <= Len(toDestroy) /\ \A i \in 1..Len(R) : R[i] = toDestroy[Len(toDestroy) + 1 - i]
          BY <3>3, <1>1 DEF DtorInv, GoneOK
        <4> QED
          BY <4>1, <1>1, CallsDiffer
      <3> QED
        BY <1>3, <3>1, <3>2, <3>3
    <2>2. twice = {}
      <3> SUFFICES ASSUME NEW i \in 1..Len(R), NEW j \in 1..i - 1, R[j] = R[i] PROVE FALSE
        BY <1>1 DEF Twice
      <3>1. j \in 1..Len(R) /\ j < i
        BY <1>2
      <3>2. j = i
        BY <3>1, <2>1
      <3> QED
        BY <3>1, <3>2
    <2>3. Cardinality(twice) = 0
      BY <2>2, FS_EmptySet
    <2> QED
      BY <2>3
  <1>4. CASE phase \in {"exits", "exited"}
    <2>1. PICK m \in Nat, W \in SUBSET Nat : /\ m <= Len(R)
                                            /\ IsFiniteSet(W) /\ Cardinality(W) <= FUNCS_PER_NODE
                                            /\ Repeats(dtor_list, pnode, next, R, m, W)
      BY <1>4 DEF DtorInv, ExitsOK, Exits
    <2>2. ASSUME NEW i \in twice PROVE i \in 1..Len(R) /\ m < i /\ R[i] \in W
      <3>1. PICK j \in 1..i - 1 : R[j] = R[i]
        BY <2>2 DEF Twice
      <3>2. i \in 1..Len(R) /\ j \in 1..Len(R) /\ j < i
        <4>1. i \in 1..Len(R)
          BY <2>2, <1>1 DEF Twice
        <4> QED
          BY <4>1, <3>1, <1>2
      <3> QED
        BY <3>1, <3>2, <2>1 DEF Repeats
    <2>3. ASSUME NEW i \in twice, NEW j \in twice, R[i] = R[j] PROVE i = j
      <3>1. i \in 1..Len(R) /\ j \in 1..Len(R) /\ m < i /\ m < j
        BY <2>2
      <3>2. ~(i < j) /\ ~(j < i)
        BY <3>1, <2>1, <2>3, <1>1 DEF Repeats
      <3> QED
        BY <3>1, <3>2, <1>1
    <2>4. PICK f1 : f1 = [i \in twice |-> R[i]]
      OBVIOUS
    <2>5. f1 \in Injection(twice, W)
      <3>1. f1 \in [twice -> W] /\ \A i \in twice : f1[i] = R[i]
        BY <2>2, <2>4
      <3>2. \A i, j \in twice : f1[i] = f1[j] => i = j
        BY <3>1, <2>3
      <3> QED
        BY <3>1, <3>2 DEF Injection, IsInjective
    <2>6. Cardinality(twice) <= Cardinality(W) /\ Cardinality(W) \in Nat /\ Cardinality(twice) \in Nat
      <3>1. IsFiniteSet(twice) /\ Cardinality(twice) <= Cardinality(W)
        BY <2>1, <2>5, FS_Injection
      <3> QED
        BY <3>1, <2>1, FS_CardinalityType
    <2> QED
      <3>1. Cardinality(twice) <= FUNCS_PER_NODE
        BY <2>1, <2>6
      <3> QED
        BY <3>1, <1>1
  <1> QED
    BY <1>1, <1>3, <1>4

LEMMA DtorImplies ==
    ASSUME FUNCS_PER_NODE \in Nat \ {0}, DtorInv
    PROVE  DestroyedInReverse
  <1>1. /\ toDestroy \in Seq(Nat) /\ destroyed \in Seq(Nat) /\ Len(toDestroy) \in Nat /\ Len(destroyed) \in Nat
    BY DEF DtorInv, DtorTyped
  <1>2. PICK back : back = Destroying!Reverse(toDestroy)
    OBVIOUS
  <1>3. /\ back \in Seq(Nat) /\ Len(back) = Len(toDestroy)
        /\ \A i \in 1..Len(toDestroy) : back[i] = toDestroy[Len(toDestroy) + 1 - i]
    <2>1. back = [i \in 1..Len(toDestroy) |-> toDestroy[(Len(toDestroy) - i) + 1]]
      BY <1>2 DEF Destroying!Reverse
    <2>2. ASSUME NEW i \in 1..Len(toDestroy)
          PROVE  back[i] \in Nat /\ back[i] = toDestroy[Len(toDestroy) + 1 - i]
      <3>1. (Len(toDestroy) - i) + 1 = Len(toDestroy) + 1 - i /\ Len(toDestroy) + 1 - i \in 1..Len(toDestroy)
        BY <1>1
      <3> QED
        BY <3>1, <2>1, <1>1
    <2>3. back \in Seq(Nat) /\ Len(back) = Len(toDestroy)
      BY <2>1, <2>2, <1>1
    <2> QED
      BY <2>2, <2>3
  <1>4. phase = "ends" => Destroying!IsPrefix(destroyed, back)
    <2> SUFFICES ASSUME phase = "ends" PROVE Destroying!IsPrefix(destroyed, back)
      OBVIOUS
    <2>1. Len(destroyed) <= Len(back) /\ \A i \in 1..Len(destroyed) : destroyed[i] = back[i]
      <3>1. Len(destroyed) <= Len(toDestroy) /\ \A i \in 1..Len(destroyed) : destroyed[i] = toDestroy[Len(toDestroy) + 1 - i]
        BY DEF DtorInv, EndsOK, Ends
      <3>2. \A i \in 1..Len(destroyed) : i \in 1..Len(toDestroy)
        BY <3>1, <1>1
      <3> QED
        BY <3>1, <3>2, <1>3
    <2>2. PICK c, e : c = destroyed /\ e = Len(destroyed)
      OBVIOUS
    <2>3. c \in Seq(Nat) /\ Len(c) = e /\ e \in Nat /\ e <= Len(back) /\ Len(back) \in Nat /\ \A i \in 1..e : c[i] = back[i]
      BY <2>1, <2>2, <1>1, <1>3
    <2>4. \A i \in 1..e : i \in 1..Len(back)
      BY <2>3
    <2>5. SubSeq(c, 1, e) = [i \in 1..e |-> c[i]] /\ SubSeq(back, 1, e) = [i \in 1..e |-> back[i]]
      BY <2>3, <2>4, <1>3
    <2>6. SubSeq(c, 1, e) = SubSeq(back, 1, e)
      BY <2>3, <2>5
    <2> QED
      BY <2>1, <2>2, <2>6 DEF Destroying!IsPrefix
  <1>5. phase = "gone" => destroyed = back
    <2> SUFFICES ASSUME phase = "gone" PROVE destroyed = back
      OBVIOUS
    <2>1. Len(destroyed) = Len(back) /\ \A i \in 1..Len(destroyed) : destroyed[i] = back[i]
      BY <1>3 DEF DtorInv, GoneOK
    <2> QED
      BY <2>1, <1>1, <1>3, SeqEqual
  <1>6. phase = "exited" => Destroying!ToSet(toDestroy) \subseteq Destroying!ToSet(destroyed)
    <2> SUFFICES ASSUME phase = "exited", NEW x \in 1..Len(toDestroy)
                 PROVE  \E i \in 1..Len(destroyed) : destroyed[i] = toDestroy[x]
      BY SMTT(30), <1>1 DEF Destroying!ToSet
    <2>1. Covered(dtor_list, pnode, next, toDestroy, destroyed) /\ pnode = 0
      BY DEF DtorInv, ExitsOK, Exits
    <2>2. ~Ahead(dtor_list, pnode, next, toDestroy[x])
      BY <2>1 DEF Ahead
    <2> QED
      BY <2>1, <2>2 DEF Covered
  <1>7. Cardinality({i \in DOMAIN destroyed : \E j \in 1..i - 1 : destroyed[j] = destroyed[i]}) <= FUNCS_PER_NODE
    BY TwiceFew DEF Twice
  <1>8. /\ phase = "ends" => Destroying!IsPrefix(destroyed, Destroying!Reverse(toDestroy))
        /\ phase = "gone" => destroyed = Destroying!Reverse(toDestroy)
    BY <1>2, <1>4, <1>5
  <1>9. \A S : Destroying!Cardinality(S) = Cardinality(S)
    BY DEF Destroying!Cardinality, Cardinality
  <1>10. Destroying!DestroyedInReverse
    BY <1>6, <1>7, <1>8, <1>9 DEF Destroying!DestroyedInReverse
  <1> QED
    BY <1>10 DEF DestroyedInReverse

LEMMA DtorFollows == ProcessSpec => Destroying!Init /\ [][Destroying!Next]_(Destroying!vars)
  <1>1. ProcessInit => Destroying!Init
    BY DEF ProcessInit
  <1>2. [ProcessNext]_processVars => [Destroying!Next]_(Destroying!vars)
    BY DEF ProcessNext, Of, processVars, destroying, Destroying!vars
  <1> QED
    BY <1>1, <1>2, PTL DEF ProcessSpec

\* tlsdtor.cpp: the destructors of a thread are called in the reverse of the order they were registered
\* in of them but those registered meanwhile; when one ends the process, at most a node is called twice.
THEOREM DestructorsRunInReverse ==
    ASSUME FUNCS_PER_NODE \in Nat \ {0}
    PROVE  ProcessSpec => []DestroyedInReverse
  <1>1. DtorInv /\ [Destroying!Next]_(Destroying!vars) => DtorInv'
    BY DtorSteps
  <1>2. DtorInv => DestroyedInReverse
    BY DtorImplies
  <1> QED
    BY <1>1, <1>2, DtorInitOK, DtorFollows, PTL
=============================================================================
