---------------------------- MODULE MCFunctions ----------------------------
(***************************************************************************)
(* The functions that keep no state, against their reference definitions.  *)
(* A behaviour is one call of one of them.                                 *)
(***************************************************************************)
EXTENDS Calls, Integers

CONSTANTS CodePoints, Boundaries, LeadBytes, TailBytes, Letters,
          IntBits, Types, NumberBytes, MaxNumber, PlainBytes, MaxPlain, UnitBytes, MaxUnits,
          Small, StreamedFrom, Sources, Distances, CopySizes, StreamSizes,
          MaxAddress, MaxFilled, MaxCompared,
          WordBytes, Margins, Numbers, MaxEnd, Steps, Half,
          Items, Fronts, MaxItems, MAX_BUFFER_SIZE, WordSize, HalfSize,
          Chars, Drives, MaxPath, MaxPart,
          SHIFT, Capacity, KARATSUBA_CUTOFF, Integrals, Signed, Factors,
          Families, ArgumentLists, Colors, TerminalColors, NumberBits, FractionBits,
          WrittenNumbers, WrittenStrings, Floats, Paddings, Precisions, Significands

Read == INSTANCE TextFunctions
Move == INSTANCE MemoryCopy
Compute == INSTANCE Arithmetic
Search == INSTANCE Searching
Name == INSTANCE Paths
Calculate == INSTANCE BigInteger
Format == INSTANCE FormatFunctions

\* The functions of one part of the library.
Parts == {"read", "move", "compute", "search", "name", "calculate", "format"}
Of(part, A) == Ready /\ call.in = part /\ A

AnyInit == call \in {[Idle EXCEPT !.in = part] : part \in Parts}

AnyNext == \/ Of("read", Read!Next)       \/ Of("move", Move!Next)
           \/ Of("compute", Compute!Next) \/ Of("search", Search!Next)
           \/ Of("name", Name!Next)       \/ Of("calculate", Calculate!Next)
           \/ Of("format", Format!Next)

AnySpec == AnyInit /\ [][AnyNext]_call

\* Both sides of the sizes of encodings and of the surrogates, and all letters with cases.
MCCodePoints == 1..1300 \cup Boundaries

\* A narrow, an int and a wide type.
MCTypes == {[bits |-> 5, signed |-> FALSE], [bits |-> 6, signed |-> TRUE], [bits |-> 8, signed |-> FALSE],
            [bits |-> 8, signed |-> TRUE], [bits |-> 12, signed |-> TRUE]}

\* Both sides of every size at which another number of blocks is needed, and one between them.
MCDistances == {-320, -65, -33, -3, 0, 1, 5, 16, 40, 64, 130, 250, 330}
MCCopySizes == 0..20 \cup {24} \cup UNION {{16 * i - 1, 16 * i, 16 * i + 1, 16 * i + 7} : i \in 2..15}

MCSteps == {-3, -2, -1, 1, 2, 3}
\* Both sides of the powers of ten, and of some of two.
MCNumbers == {0, 1, 2, 7, 8, 63, 64, 127, 128, 511, 512, 65535, 65536, 1073741824, 2147483647}
                 \cup UNION {{10^i - 1, 10^i, 10^i + 1} : i \in 1..9}

\* The beginnings of paths: none, a drive in both cases, a UNC sharepoint.
MCChars == {"a", ".", "\\", "/"}
MCDrives == {<<>>, <<"a", ":">>, <<"A", ":">>, <<"\\", "\\", "a", "\\", "a">>}

\* Of every number of digits, at both sides of its ends, and the least of types.
MCIntegrals == {0, 3, -3, 5, -5, -16, 20, -128, 75, -75, 300, 3000, 4321, 28000, 30000, -30000}
                   \cup UNION {{8^i - 1, 8^i, -(8^i), -(8^i) - 1} : i \in 0..8} \cup {8^9 - 1, 1 - 8^9}
\* Of up to five digits; of three, and multiples of them with twice as many.
MCFactors == {0, 1, -1, 3, -6, 7, 8, 11, -63, 63, -20, 64, 73, -100, 511, 512, 700, -4095, 4096, 32767, -32767}
                 \cup {73 * 513, 73 * 512 + 5, 511 * 513}

\* Format strings: replacement fields and their surroundings, specifications with a fill, dynamic
\* ones, and styles of text by name, by a number and by three.
MCFamilies == {[start |-> <<>>, chars |-> {123, 125, 48, 49, 58, 97}, max |-> 5],
               [start |-> <<123, 58>>, chars |-> {125, 48, 51, 60, 61, 46, 43, 35, 120, 97, 316, 123}, max |-> 4],
               [start |-> <<123, 48, 58>>, chars |-> {125, 48, 49, 46, 60, 123}, max |-> 5],
               [start |-> <<123, 33>>, chars |-> {116, 82, 66, 71, 59, 125, 49}, max |-> 4],
               [start |-> <<123, 33, 82, 59>>, chars |-> {66, 71, 85, 82, 125, 59}, max |-> 4],
               [start |-> <<123, 33, 49, 59, 51, 59>>, chars |-> {49, 51, 48, 59, 66, 71, 125}, max |-> 5]}
MCColors == {<<82>>}
MCTerminalColors == {<<82>>}
MCArgumentLists == {<<[type |-> "S64", value |-> 7], [type |-> "STRING", value |-> 2]>>,
                    <<[type |-> "STRING", value |-> 2], [type |-> "U64", value |-> 3]>>,
                    <<[type |-> "F64", value |-> 2], [type |-> "S64", value |-> -1]>>}

\* Numbers of every count of digits, and code points of one to three bytes.
MCWrittenNumbers == {0, 1, -1, 5, 9, 10, -16, 99, 100, 233, 999, -999, 1000, 4095, 8364, 12345, -123456, 1234567, 100000}
MCWrittenStrings == {<<>>, <<97>>, <<97, 233, 98>>}
\* Narrower and wider than what is written, and wider than the buffer for digits.
MCPaddings == {[Fill |-> 32, Align |-> a, Width |-> w] : a \in {"none", "left", "right", "center"}, w \in {0, 3, 8}}
                  \cup {[Fill |-> 48, Align |-> "numeric", Width |-> w] : w \in {0, 3, 8, 70}}
                  \cup {[Fill |-> 233, Align |-> "center", Width |-> 6]}
\* A significand and the power of ten it is multiplied with.
MCFloats == {<<0, 0>>, <<1, 0>>, <<42, 0>>, <<15, -1>>, <<3925, -1>>, <<39265, -2>>, <<1234, -6>>, <<999, -2>>, <<95, -1>>,
             <<7, 3>>, <<123, 2>>, <<4, 10>>, <<31, -7>>, <<9999, -8>>}
MCPrecisions == {-1, 0, 1, 2, 4}
\* All fractions of some integers of one and two digits.
MCSignificands == UNION {256 * i .. 256 * i + 255 : i \in {1, 9, 10, 19, 95, 99}}

\* string_utils.h: conversions agree with each other.
ConversionsAgree == Read!ConversionsAgree

\* parse.h: what is read is what was written.
ParsedAsWritten == Read!ParsedAsWritten

\* internal.cpp, hasher.h: memory is copied, filled and compared, and a hash is made of it.
BytesAgree == Move!MemoryMoved /\ Move!HashIsOfBytes

\* common.h, u128.h: bits, digits, bytes of words and ranges; arithmetic on two words.
NumbersAgree == Compute!BitsAgree /\ Compute!WideAgrees

\* array_like.h, stack_array.h: searching, comparing and sorting arrays.
SortedAndFound == Search!SortedAndFound

\* path.nt.ixx: paths mean after an operation what they should.
PathsAgree == Name!PathsAgree

\* big_integer.ixx: arithmetic on many digits is that on the values.
BigIntegersAgree == Calculate!BigIntegersAgree

\* fmt/: a format string means what its grammar says, and a value is written as its specifications say.
FormatAgrees == Format!FormatsAsDocumented /\ Format!ValuesWritten

\* tests/fmt.cpp, line 171: a number is written with the digits that were asked for.
DigitsAreWritten == Format!DigitsAreWritten
=============================================================================
