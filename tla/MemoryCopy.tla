----------------------------- MODULE MemoryCopy -----------------------------
(***************************************************************************)
(* lstd/internal/internal.cpp: copy_memory, fill_memory and compare_memory *)
(* by wide loads and stores, and their plain versions in common.h.  Every  *)
(* byte of the memory is known by the address it had before the call.  A   *)
(* copy is a sequence of groups of blocks <<offset, width>>: a group is    *)
(* loaded as a whole, then stored.  And hasher (lstd/memory/hasher.h),     *)
(* whose mixing is not modelled: a hash is the blocks that were processed  *)
(* and the pieces of the buffer in the order they are mixed in.            *)
(***************************************************************************)
EXTENDS Calls, Integers, SequencesExt

CONSTANTS Small,         \* the size up to which everything is loaded first, 112 in the code
          StreamedFrom,  \* the size from which copies are streamed, 256 KiB in the code
          Sources, Distances, CopySizes, StreamSizes, MaxAddress, MaxFilled, MaxCompared,
          MAX_BUFFER_SIZE,       \* of a hasher, 32 bytes in the code
          WordSize, HalfSize     \* 8 and 4

\* The memory after the stores of mem: elsewhere a byte is its own address.
Untouched == <<>>
At(mem, a) == IF a \in DOMAIN mem THEN mem[a] ELSE a

Offsets(group) == UNION {b[1]..(b[1] + b[2] - 1) : b \in group}
Moved(mem, dst, src, group) ==
    [a \in {dst + o : o \in Offsets(group)} |-> At(mem, a - dst + src)] @@ mem
AllMoved(mem, dst, src, groups) ==
    FoldLeft(LAMBDA m, g : Moved(m, dst, src, g), mem, groups)

Ends(size, width) == {<<0, width>>, <<size - width, width>>}
Shifted(group, by) == {<<b[1] + by, b[2]>> : b \in group}

\* Less than 16 bytes, in blocks that overlap.
UpTo15(size) == CASE size >= 8 -> Ends(size, 8)
                  [] size \in 4..7 -> Ends(size, 4)
                  [] size \in 1..3 -> {<<0, 1>>, <<size - Min({size, 2}), Min({size, 2})>>}
                  [] size = 0 -> {}
\* A faulty copy leaves out a block.
ShortOfOne(size) == IF size < 16 THEN UpTo15(size)
                    ELSE {<<16 * i, 16>> : i \in 0..(((size - 1) \div 16) - 2)} \cup {<<size - 16, 16>>}
\* Up to 112 bytes, of which the last 16 may overlap the others.
UpTo112(size) == IF size < 16 THEN UpTo15(size)
                 ELSE {<<16 * i, 16>> : i \in 0..(((size - 1) \div 16) - 1)} \cup {<<size - 16, 16>>}

\* What the streaming copies leave for the end.
StreamTail(r) == IF r <= 32 THEN UpTo112(r) ELSE Ends(r, 16) \cup {<<16, 16>>, <<r - 32, 16>>}

\* The size is unsigned, and is compared with 32 and 48 after its sign was changed.
TiberiumBackTail(r) == IF r <= 16 THEN UpTo112(r)
                       ELSE {<<0, 16>>} \cup {<<r - i, 16>> : i \in {16, 32, 48}}

\* Blocks of n steps, upwards and downwards, from an offset.
Upwards(from, step, n) == [i \in 1..n |-> {<<from + (i - 1) * step, step>>}]
Downwards(from, step, n) == Reverse(Upwards(from, step, n))

Forward(size, step) ==
    LET n == size \div step
    IN  Upwards(0, step, n) \o <<Shifted(UpTo112(size % step), n * step)>>

Backward(size, step, BackTail(_)) ==
    Downwards(size % step, step, size \div step) \o <<BackTail(size % step)>>

\* Streaming stores are aligned, so what lies before the first one, or behind the last one
\* of a copy that goes backwards, is copied at first.  Both stages are one loop here.
StreamedForward(dst, size) ==
    LET pre == (-dst) % 16
        n == (size - pre) \div 64
    IN  <<UpTo15(pre)>> \o Upwards(pre, 64, n)
            \o <<Shifted(StreamTail((size - pre) % 64), pre + 64 * n)>>

StreamedBackward(dst, size) ==
    LET pre == (dst + size) % 16
        left == size - pre
    IN  <<Shifted(UpTo15(pre), left)>> \o Downwards(left % 64, 64, left \div 64)
            \o <<StreamTail(left % 64)>>

GoesForward(dst, src, size) == dst < src \/ dst >= src + size

tiberium(dst, src, size) ==
    CASE size <= Small                                        -> <<UpTo112(size)>>
      [] size > Small /\ GoesForward(dst, src, size)          ->
             IF size < StreamedFrom THEN Forward(size, 64) ELSE StreamedForward(dst, size)
      [] size > Small /\ ~GoesForward(dst, src, size)         ->
             IF size < StreamedFrom THEN Backward(size, 64, TiberiumBackTail)
             ELSE StreamedBackward(dst, size)

kryptonite(dst, src, size) ==
    CASE size <= Small                                        -> <<UpTo112(size)>>
      [] size > Small /\ GoesForward(dst, src, size)          ->
             IF size < StreamedFrom THEN Forward(size, 32) ELSE StreamedForward(dst, size)
      [] size > Small /\ ~GoesForward(dst, src, size)         ->
             IF size < StreamedFrom THEN Backward(size, 32, UpTo112)
             ELSE StreamedBackward(dst, size)

const_copy_memory(dst, src, size) ==
    IF dst <= src \/ dst >= src + size THEN Upwards(0, 1, size) ELSE Downwards(0, 1, size)

\* dispatcher sets the pointer copy_memory on the first call, by what the processor can do.
copy_memory(with, dst, src, size) ==
    CASE with = "SSE4.2" -> kryptonite(dst, src, size)
      [] with = "SSE2"   -> tiberium(dst, src, size)
      [] with = "plain"  -> const_copy_memory(dst, src, size)

-----------------------------------------------------------------------------
\* The bytes written, and whether the wide stores, which must be aligned, are.
Value == -1
Ones == -2
Filled(from, n) == [a \in from..(from + n - 1) |-> Value]

optimized_fill_memory(dst, size) ==
    LET offset == IF size < dst % 16 THEN 0 ELSE dst % 16
        wide == IF size < dst % 16 THEN 0 ELSE (size - offset) \div 16
    IN  [memory |-> Filled(dst, offset) @@ Filled(dst + offset, 16 * wide)
                    @@ Filled(dst + offset + 16 * wide, size - 16 * wide - offset),
         aligned |-> wide = 0 \/ (dst + offset) % 16 = 0]

\* The bytes in front are not counted.  A negative value fills the upper seven bytes of a word with ones.
const_fill_memory(dst, size, negative) ==
    LET big == dst + (dst % 8)
        words == size \div 8
        Byte(a) == IF negative /\ (a - big) % 8 # 0 THEN Ones ELSE Value
    IN  [memory |-> Filled(dst, dst % 8) @@ [a \in big..(big + 8 * words - 1) |-> Byte(a)]
                    @@ Filled(big + 8 * words, size % 8),
         aligned |-> words = 0 \/ big % 8 = 0]

-----------------------------------------------------------------------------
(***************************************************************************)
(* compare_memory of two blocks that differ at the offsets of a set: bytes *)
(* up to the alignment of the second block, then words, then bytes again.  *)
(* The progress through the words is lost for the last one, and for the    *)
(* bytes behind the words.                                                 *)
(***************************************************************************)
\* compare_memory_common_alignment and compare_memory_not_common_alignment, of n words.
WordsCompared(differ, n) == IF Min(differ) < 4 * (n - 1) THEN Min(differ) ELSE Min(differ) % 4

optimized_compare_memory(ptr2, size, differ) ==
    LET head == IF size >= 16 THEN (-ptr2) % 4 ELSE 0
        words == IF size >= 16 THEN (size - head) \div 4 ELSE 0
        tail == head + 4 * words
        first == Min(differ)
    IN  CASE differ = {}                     -> -1
          [] differ # {} /\ first < head     -> first
          [] differ # {} /\ first \in head..(tail - 1) ->
                 head + WordsCompared({o - head : o \in differ \cap head..(tail - 1)}, words)
          [] differ # {} /\ first >= tail    -> head + first - tail

const_compare_memory(differ) == IF differ = {} THEN -1 ELSE Min(differ)

-----------------------------------------------------------------------------
\* A byte is its place in the input; what lies behind the input is not part of it, and 0.
Empty == [Buffer |-> <<>>, Blocks |-> <<>>, Count |-> 0, overrun |-> FALSE]
BytesFrom(s, from, n) == [i \in 1..n |-> IF from + i \in DOMAIN s THEN s[from + i] ELSE 0]

\* What fills the buffer is mixed in with it, then whole blocks as many as there are in size, then as
\* many bytes as size says go to the buffer.  But size stays what it was when a part of the bytes
\* went to the buffer, and it is not less for the blocks: what is read then lies behind the bytes,
\* and may not fit the buffer.
Add(h, s) ==
    LET fits == Len(h.Buffer) + Len(s) < MAX_BUFFER_SIZE
        available == IF h.Buffer = <<>> THEN 0 ELSE MAX_BUFFER_SIZE - Len(h.Buffer)
        filled == IF h.Buffer = <<>> THEN <<>> ELSE <<SubSeq(h.Buffer \o SubSeq(s, 1, available), 1, MAX_BUFFER_SIZE)>>
        blocks == [k \in 1..(Len(s) \div MAX_BUFFER_SIZE) |->
                      BytesFrom(s, available + (k - 1) * MAX_BUFFER_SIZE, MAX_BUFFER_SIZE)]
        from == available + Len(blocks) * MAX_BUFFER_SIZE
    IN  IF fits THEN [h EXCEPT !.Buffer = @ \o s, !.Count = @ + Len(s)]
        ELSE [Buffer |-> BytesFrom(s, from, Len(s)), Blocks |-> h.Blocks \o filled \o blocks,
              Count |-> h.Count + Len(s), overrun |-> h.overrun \/ from > 0]

\* A faulty hash mixes words as long as there are bytes left.
WholeWords(n) == (n + WordSize - 1) \div WordSize
\* The last word is not mixed as one.
Words(n) == IF n = 0 THEN 0 ELSE (n - 1) \div WordSize

\* Words, then a half of one, then single bytes.
Pieces(s) ==
    LET words == Words(Len(s))
        from == words * WordSize
        half == IF from + HalfSize <= Len(s) THEN 1 ELSE 0
        rest == from + half * HalfSize
    IN  [i \in 1..words |-> SubSeq(s, (i - 1) * WordSize + 1, i * WordSize)]
        \o (IF half = 1 THEN <<SubSeq(s, from + 1, rest)>> ELSE <<>>)
        \o [i \in 1..(Len(s) - rest) |-> <<s[rest + i]>>]

Hash(h) == [blocks |-> h.Blocks, count |-> h.Count, pieces |-> Pieces(h.Buffer)]

-----------------------------------------------------------------------------
Copied(with, dst, src, size) ==
    Call("copy_memory", [with |-> with, dst |-> dst, src |-> src, size |-> size],
         AllMoved(Untouched, dst, src, copy_memory(with, dst, src, size)))

Copy == \E src \in Sources, distance \in Distances :
    \/ \E with \in {"SSE4.2", "SSE2"}, size \in CopySizes \cup StreamSizes :
          Copied(with, src + distance, src, size)
    \/ \E size \in 0..MaxFilled : Copied("plain", src + distance, src, size)

Fill == \E dst \in 0..MaxAddress, size \in 0..MaxFilled, negative \in BOOLEAN :
    Call("fill_memory", [dst |-> dst, size |-> size],
         [wide |-> optimized_fill_memory(dst, size),
          plain |-> const_fill_memory(dst, size, negative), negative |-> negative])

Compare == \E ptr2 \in 0..3, size \in 1..MaxCompared : \E first \in 0..(size - 1) :
    \E differ \in {{}, {first}, {first, size - 1}} :
       Call("compare_memory", [ptr2 |-> ptr2, size |-> size, differ |-> differ],
            [wide |-> optimized_compare_memory(ptr2, size, differ), plain |-> const_compare_memory(differ)])

Bytes(first, n) == [i \in 1..n |-> first + i - 1]

\* Two parts of an input, on their own and together.
AddParts == \E m, n \in 0..(MAX_BUFFER_SIZE + 2) :
    LET parts == Add(Add(Empty, Bytes(1, m)), Bytes(m + 1, n))
        whole == Add(Empty, Bytes(1, m + n))
    IN  Call("hash", m + n, [parts |-> Hash(parts), whole |-> Hash(whole),
                             overrun |-> parts.overrun \/ whole.overrun])

Next == Ready /\ (Copy \/ Fill \/ Compare \/ AddParts)

Spec == Init /\ [][Next]_call

-----------------------------------------------------------------------------
Destination(in) == in.dst..(in.dst + in.size - 1)
CopyOf(in) == [a \in Destination(in) |-> a - in.dst + in.src]
FillOf(in) == Filled(in.dst, in.size)

\* The sizes for which the last blocks of a copy that goes backwards begin before its destination.
Undershoots(in) == /\ in.with = "SSE2" /\ in.size \in (Small + 1)..(StreamedFrom - 1)
                   /\ ~GoesForward(in.dst, in.src, in.size) /\ in.size % 64 \in 17..47

\* Only with tiberium, and only before the destination, a copy changes more than it was asked to.
CopyOnlyUndershoots(in, out) ==
    \A a \in Destination(in) \cup DOMAIN out : At(out, a) # At(CopyOf(in), a) =>
        Undershoots(in) /\ a \in (in.dst + (in.size % 64) - 48)..(in.dst - 1)

\* internal.cpp: copies of any size, overlap and alignment move every byte and change no other,
\* but for the bytes in front of what tiberium copies backwards; fill_memory writes what it is
\* given, with aligned stores from addresses that are multiples of 8; the plain version does so
\* from such addresses and with values that are not negative; compare_memory finds whether two
\* blocks differ, and the first difference where that lies neither in the last word nor behind it.
MemoryMoved ==
    LET in == call.in
        out == call.out
    IN  CASE call.of = "copy_memory" -> CopyOnlyUndershoots(in, out)
          [] call.of = "fill_memory" ->
                 /\ out.wide.memory = FillOf(in)
                 /\ in.dst % 8 = 0 => out.wide.aligned
                 /\ in.dst % 8 = 0 /\ (~out.negative \/ in.size < 8) => out.plain.memory = FillOf(in)
          [] call.of = "compare_memory" ->
                 /\ (out.wide = -1) = (in.differ = {})
                 /\ in.differ # {} /\ (in.size < 16 \/ Min(in.differ) < in.size - 7) =>
                        out.wide = out.plain
          [] OTHER -> TRUE

\* hasher.h: the hash of fewer bytes than the buffer takes does not depend on how they are
\* added and mixes each of them once, in order.  Of more bytes, which are read behind their end,
\* nothing is said.
HashIsOfBytes ==
    call.of = "hash" /\ call.in < MAX_BUFFER_SIZE =>
        /\ ~call.out.overrun /\ call.out.parts = call.out.whole
        /\ FlattenSeq(call.out.whole.pieces) = Bytes(1, call.in)
=============================================================================
