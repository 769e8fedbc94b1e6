------------------------------ MODULE Console ------------------------------
(***************************************************************************)
(* The console writers cout and cerr (lstd/io/console_writer.h and         *)
(* lstd/os/os.win64.common.ixx), whose buffers lie one behind the other,   *)
(* with the handles behind them.  A write is done under one mutex of both, *)
(* which its flush enters again, and so is a step.                         *)
(***************************************************************************)
EXTENDS Integers, SequencesExt

CONSTANTS CONSOLE_BUFFER_SIZE,
          Sizes,      \* of what is written, at most two buffers
          MaxWritten  \* bound: the bytes written to each

VARIABLES cells,     \* the bytes of CoutBuffer, of CerrBuffer and of what lies behind
          writers,   \* the fields of both; Buffer and Current are places in cells
          shown,     \* what the console got from each
          output,    \* history: what was written to each
          largest    \* history: the largest write to each

vars == <<cells, writers, shown, output, largest>>

Outputs == {"COUT", "CERR"}
BufferOf(w) == IF w = "COUT" THEN 0 ELSE CONSOLE_BUFFER_SIZE
Handles == 2 * CONSOLE_BUFFER_SIZE..4 * CONSOLE_BUFFER_SIZE
Untouched == <<"none", 0>>

Init == /\ cells = [i \in 0..4 * CONSOLE_BUFFER_SIZE |-> Untouched]
        /\ writers = [w \in Outputs |-> [Buffer |-> -1, Current |-> -1, Available |-> 0, BufferSize |-> 0]]
        /\ shown = [w \in Outputs |-> <<>>]
        /\ output = [w \in Outputs |-> <<>>]
        /\ largest = [w \in Outputs |-> 0]

\* What a flush writes: more than a buffer, if Available is below zero.
Pending(w) == LET it == writers[w]
              IN  [i \in 1..it.BufferSize - it.Available |-> cells[it.Buffer + i - 1]]

-----------------------------------------------------------------------------
Flushed(w) == [Buffer |-> BufferOf(w), Current |-> BufferOf(w),
               Available |-> CONSOLE_BUFFER_SIZE, BufferSize |-> CONSOLE_BUFFER_SIZE]

flush(w) == /\ shown' = [shown EXCEPT ![w] = @ \o Pending(w)]
            /\ writers' = [writers EXCEPT ![w] = Flushed(w)]
            /\ UNCHANGED <<cells, output, largest>>

\* A faulty version flushes for what is larger than a buffer only.
FitsEmpty(w, n) == writers[w].Buffer # -1 /\ n <= CONSOLE_BUFFER_SIZE
Fits(w, n) == n <= writers[w].Available

\* Bytes that say whose they are, and which.
Bytes(w, n) == [i \in 1..n |-> <<w, Len(output[w]) + i>>]

write(w, n) ==
    LET to == IF Fits(w, n) THEN writers[w] ELSE Flushed(w)
        data == Bytes(w, n)
    IN  /\ Len(output[w]) + n <= MaxWritten
        /\ shown' = IF Fits(w, n) THEN shown ELSE [shown EXCEPT ![w] = @ \o Pending(w)]
        /\ cells' = [i \in DOMAIN cells |-> IF i - to.Current \in 0..n - 1 THEN data[i - to.Current + 1] ELSE cells[i]]
        /\ writers' = [writers EXCEPT ![w] = [to EXCEPT !.Current = @ + n, !.Available = @ - n]]
        /\ output' = [output EXCEPT ![w] = @ \o data]
        /\ largest' = [largest EXCEPT ![w] = IF n > @ THEN n ELSE @]

Next == \E w \in Outputs : flush(w) \/ \E n \in Sizes : write(w, n)

Spec == Init /\ [][Next]_vars

-----------------------------------------------------------------------------
TypeOK == /\ \A w \in Outputs : /\ writers[w].Buffer \in {-1, BufferOf(w)}
                                /\ writers[w].Current - writers[w].Buffer \in 0..2 * CONSOLE_BUFFER_SIZE
                                /\ writers[w].Available \in -CONSOLE_BUFFER_SIZE..CONSOLE_BUFFER_SIZE
          /\ \A i \in DOMAIN cells : cells[i][1] \in Outputs \cup {"none"}

\* Nothing is lost, doubled or mixed.
Kept(w) == shown[w] \o Pending(w) = output[w]
HandlesKept == \A i \in Handles : cells[i] = Untouched

\* os.win64.common.ixx, lines 512-549: the console gets from each writer what was written to it,
\* in order, as long as no write is larger than a buffer; a larger one to cout goes over the
\* buffer of cerr, and is itself right if cerr is not used, and a larger one to cerr goes over
\* the handles.
OutputKept ==
    LET AtMost(w, buffers) == largest[w] <= buffers * CONSOLE_BUFFER_SIZE
    IN  /\ AtMost("COUT", 1) /\ AtMost("CERR", 1) => Kept("COUT") /\ Kept("CERR")
        /\ AtMost("COUT", 2) /\ output["CERR"] = <<>> => Kept("COUT")
        /\ AtMost("COUT", 2) /\ AtMost("CERR", 1) => HandlesKept
=============================================================================
