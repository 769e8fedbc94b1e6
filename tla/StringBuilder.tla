--------------------------- MODULE StringBuilder ---------------------------
(***************************************************************************)
(* string_builder (lstd/memory/string_builder.h): bytes in a chain of      *)
(* buffers of a fixed size.  The first one is part of the builder, the     *)
(* others are allocated when one is full.                                  *)
(***************************************************************************)
EXTENDS Integers, SequencesExt

CONSTANTS Buffer, Base,   \* buffers, and the one in the builder
          NoBuffer,
          BUFFER_SIZE,
          Texts,          \* what user code appends
          MaxBuilt,       \* bounds: bytes of a builder
          MaxIndirections \* and buffers it allocates, which no operation sets back

VARIABLES buffers,    \* Data up to Occupied, and Next, of each buffer
          live,       \* the buffers that are allocated, and Base
          builder,    \* CurrentBuffer and IndirectionCount
          written     \* history: what was appended since the builder was empty

builderVars == <<buffers, live, builder, written>>

Bytes == UNION {ToSet(s) : s \in Texts}

BuilderAssumption ==
    /\ IsFiniteSet(Buffer) /\ Base \in Buffer /\ NoBuffer \notin Buffer
    /\ BUFFER_SIZE \in Nat \ {0}
    /\ \A s \in Texts : s \in Seq(Bytes)

NewBuffer == [Data |-> <<>>, Next |-> NoBuffer]

Init == /\ buffers = [b \in Buffer |-> NewBuffer]
        /\ live = {Base}
        /\ builder = [CurrentBuffer |-> NoBuffer, IndirectionCount |-> 0]
        /\ written = <<>>

-----------------------------------------------------------------------------
\* string_builder_get_current_buffer
Current(m) == IF m.builder.CurrentBuffer = NoBuffer THEN Base ELSE m.builder.CurrentBuffer

Write(m, b, s) == [m EXCEPT !.buffers[b].Data = @ \o s]

\* A new buffer behind the current one, whose Next is not looked at.
Chained(m) ==
    LET b == CHOOSE b \in Buffer : b \notin m.live
    IN  [buffers |-> [m.buffers EXCEPT ![b] = NewBuffer, ![Current(m)].Next = b],
         live |-> m.live \cup {b},
         builder |-> [CurrentBuffer |-> b, IndirectionCount |-> m.builder.IndirectionCount + 1]]

Part(s, from, n) == SubSeq(s, from + 1, Min({from + n, Len(s)}))

\* What fits is written first, the rest to as many new buffers as it takes.
Appended(m, s) ==
    LET available == BUFFER_SIZE - Len(m.buffers[Current(m)].Data)
        more == Max({(Len(s) - available + BUFFER_SIZE - 1) \div BUFFER_SIZE, 0})
        after[k \in 0..more] ==
            IF k = 0 THEN Write(m, Current(m), Part(s, 0, available))
            ELSE LET chained == Chained(after[k - 1])
                 IN  Write(chained, Current(chained), Part(s, available + (k - 1) * BUFFER_SIZE, BUFFER_SIZE))
    IN  after[more]

\* The buffers from b on.
Chain(b) ==
    LET from[c \in Buffer \cup {NoBuffer}] == IF c = NoBuffer THEN <<>> ELSE <<c>> \o from[buffers[c].Next]
    IN  from[b]
\* A faulty reset empties the first buffer only.
EmptiedFirst == {Base}
Emptied == ToSet(Chain(Base))

Combined == FlattenSeq([i \in DOMAIN Chain(Base) |-> buffers[Chain(Base)[i]].Data])

Memory == [buffers |-> buffers, live |-> live, builder |-> builder]
Store(m) == buffers' = m.buffers /\ live' = m.live /\ builder' = m.builder

-----------------------------------------------------------------------------
StringAppend(s) ==
    /\ Len(written) + Len(s) <= MaxBuilt
    /\ Cardinality(Buffer \ live) * BUFFER_SIZE >= Len(s)
    /\ builder.IndirectionCount < MaxIndirections
    /\ Store(Appended(Memory, s))
    /\ written' = written \o s

\* The chain stays, but the next buffer that gets full cuts it off.
Reset ==
    /\ ToSet(Chain(Base)) \subseteq live
    /\ buffers' = [b \in Buffer |-> IF b \in Emptied THEN [buffers[b] EXCEPT !.Data = <<>>]
                                    ELSE buffers[b]]
    /\ builder' = [builder EXCEPT !.CurrentBuffer = NoBuffer]
    /\ written' = <<>>
    /\ UNCHANGED live

\* The Next of Base stays: what it points at is freed.  User code does not
\* free or reset the builder again before it was replaced.
FreeBuilder ==
    /\ ToSet(Chain(Base)) \subseteq live
    /\ live' = (live \ ToSet(Chain(Base))) \cup {Base}
    /\ buffers' = [buffers EXCEPT ![Base].Data = <<>>]
    /\ builder' = [builder EXCEPT !.CurrentBuffer = NoBuffer]
    /\ written' = <<>>

Next == (\E s \in Texts : StringAppend(s)) \/ Reset \/ FreeBuilder

Spec == Init /\ [][Next]_builderVars

-----------------------------------------------------------------------------
TypeOK == /\ buffers \in [Buffer -> [Data : Seq(Bytes), Next : Buffer \cup {NoBuffer}]]
          /\ live \subseteq Buffer /\ Base \in live
          /\ builder \in [CurrentBuffer : Buffer \cup {NoBuffer}, IndirectionCount : Nat]

\* string_builder.cpp: combining gives all that was appended, in order, and room for it was
\* reserved beforehand; bytes are written to live buffers; that holds until the buffer behind
\* Base was freed, and again when an append has replaced it.
CombinesWritten ==
    /\ Current(Memory) \in live /\ \A b \in live : Len(buffers[b].Data) <= BUFFER_SIZE
    /\ ToSet(Chain(Base)) \subseteq live =>
           Combined = written /\ Len(Combined) <= (builder.IndirectionCount + 1) * BUFFER_SIZE
=============================================================================
