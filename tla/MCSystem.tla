------------------------------ MODULE MCSystem ------------------------------
(***************************************************************************)
(* The components that threads do not wait for each other in: those of     *)
(* MCProcess, and the data structures, each used by one thread.  Init,     *)
(* Next and TypeOK are those of Array.                                     *)
(***************************************************************************)
EXTENDS MCProcess, Array

CONSTANTS Key, Value, NoValue, Hash, MINIMUM_SIZE, Reserves, MaxFilled, MaxAllocated, e1, e2,
          CodePoints, Words, Blanks, MaxText,
          Buffer, Base, NoBuffer, BUFFER_SIZE, Texts, MaxBuilt, MaxIndirections,
          StackSize, MinimumBlock, MaxHeld

VARIABLES table, map,
          str, text,
          buffers, live, builder, written,
          data, allocated, count, held

\* Integer keys, whose hash is the key itself.
MCHash == [k \in Key |-> k]

\* Two elements, on their own and together.
MCInputs == {<<>>, <<e1>>, <<e2>>, <<e1, e2>>}
MCNeedles == {<<e1>>, <<e1, e2>>}

\* Code points of one, two and four bytes, in both cases, and the blank.
MCWords == {<<>>, <<97>>, <<65, 97>>, <<32, 97>>, <<\he9>>, <<\he9, 32>>, <<\h10000>>}
MCBlanks == <<32, 10>>

\* What is appended: nothing, less than a buffer, exactly one and more than two.
MCTexts == {<<>>, <<1>>, <<2, 1>>, <<1, 2, 1, 2, 2>>}

Table == INSTANCE HashTable
Text == INSTANCE Strings
Building == INSTANCE StringBuilder
Growing == INSTANCE StackDynamicBuffer WITH Garbage <- Fresh, Inserts <- Inputs

ASSUME BuildingAssumption == Building!BuilderAssumption
ASSUME GrowingAssumption == Growing!BufferAssumption

hash_table == <<table, map>>
array == vars
string == <<str, text>>
building == <<buffers, live, builder, written>>
growing == <<data, allocated, count, held>>

system == <<processVars, hash_table, array, string, building, growing>>

SystemInit == ProcessInit /\ Table!Init /\ Init /\ Text!Init /\ Building!Init
              /\ Growing!Init

Others == <<headers, signal, starting, exiting, printing, destroying>>

SystemNext ==
    \/ ProcessNext /\ UNCHANGED <<hash_table, array, string, building, growing>>
    \/ Of("table", Table!Next) /\ UNCHANGED <<Others, array, string, building, growing>>
    \/ Of("array", Next) /\ UNCHANGED <<Others, hash_table, string, building, growing>>
    \/ Of("string", Text!Next) /\ UNCHANGED <<Others, hash_table, array, building, growing>>
    \/ Of("builder", Building!Next) /\ UNCHANGED <<Others, hash_table, array, string, growing>>
    \/ Of("buffer", Growing!Next) /\ UNCHANGED <<Others, hash_table, array, string, building>>

SystemSpec == SystemInit /\ [][SystemNext]_system

-----------------------------------------------------------------------------
\* The types of all of them.
SystemTypesOK == HeadersTypeOK /\ Table!TypeOK /\ Emitter!TypeOK /\ TypeOK /\ Text!TypeOK
                 /\ Building!TypeOK /\ Growing!TypeOK /\ Starting!TypeOK /\ Exiting!TypeOK
                 /\ Printing!TypeOK /\ Destroying!TypeOK

\* hash_table.h: at least half of the slots are free, so probing ends, and finds what was put in.
FindAgrees == Table!NeverFull /\ Table!FindAgrees

\* hash_table.h: the slots are a map that changes as a map should.
ImplementsDictionary == Table!ImplementsDictionary

\* string.h: a string has the code points its operations should have left, and searches and
\* comparisons answer for them.
StringIsValue == Text!StringIsValue /\ (component = "string" => Text!SearchesAgree)

\* string_builder.cpp, stack_dynamic_buffer.h: buffers hold what was written to them.
BuffersHold == Building!CombinesWritten /\ Growing!HoldsInserted
=============================================================================
