------------------------------ MODULE Signal ------------------------------
(***************************************************************************)
(* signal (lstd/memory/signal.h): callbacks in an array, called in order   *)
(* by emit.  User code runs between emissions and in the callbacks, where  *)
(* it may connect, disconnect and emit again, and disconnects what it has  *)
(* connected.  An ID is a slot of the array, counted from 1.  When a       *)
(* callback does not fit, the array may move, under the loop of emit too.  *)
(***************************************************************************)
EXTENDS Integers, SequencesExt

CONSTANTS Callback, Null,
          Garbage,          \* what is in an array that was freed
          Minimum,          \* the least array that is allocated
          MaxCallbacks,     \* bound: callbacks user code connects
          MaxDepth,         \* bound: emissions that run inside each other
          MaxRequests       \* bound: disconnects of user code in emissions

VARIABLES Callbacks, CurrentlyEmitting, ToRemove,
          storage,      \* of Callbacks: [block, allocated], where block counts the moves
          status,       \* of the process
          loops,        \* the loops of the emissions that run, the innermost last
          gone          \* history: the slots user code has disconnected

SignalAssumption == Minimum \in Nat \ {0} /\ Garbage \notin Callback \cup {Null}

vars == <<Callbacks, CurrentlyEmitting, ToRemove, storage, status, loops, gone>>

\* What is connected, with its slots.
Connected(cbs) == {<<slot, cbs[slot]>> : slot \in {s \in DOMAIN cbs : cbs[s] # Null}}

\* A loop over the block and up to the end it read at its start.  room is history: what the array
\* had room for; due is what it has to call, called what it has called so far, nested says whether a
\* callback emitted too.
LoopOver(cbs, store) == [next |-> 1, end |-> Len(cbs), block |-> store.block, room |-> store.allocated,
                         inCallback |-> FALSE, due |-> Connected(cbs), called |-> <<>>, nested |-> FALSE]

Init == /\ Callbacks = <<>> /\ CurrentlyEmitting = FALSE /\ ToRemove = <<>>
        /\ storage = [block |-> 0, allocated |-> 0] /\ status = "runs"
        /\ loops = <<>> /\ gone = {}

Emission == loops # <<>>
Top == loops[Len(loops)]

\* User code can run outside an emission and in a callback.
UserCode == Emission => Top.inCallback

-----------------------------------------------------------------------------
\* array_append: at least one cell stays free; a larger block may be the old one, grown.
Fits(n) == n < storage.allocated
Larger == IF storage.allocated = 0 THEN Minimum ELSE 2 * storage.allocated
Store(n) == IF Fits(n) THEN UNCHANGED storage
            ELSE \E moves \in BOOLEAN :
                     storage' = [block |-> IF moves \/ storage.allocated = 0 THEN storage.block + 1
                                           ELSE storage.block,
                                 allocated |-> Larger]

\* connect appends a callback unless it is null; its ID is the last slot.
Connect(c) == /\ UserCode /\ Len(Callbacks) < MaxCallbacks
              /\ IF c = Null THEN UNCHANGED <<Callbacks, storage>>
                 ELSE Callbacks' = Append(Callbacks, c) /\ Store(Len(Callbacks) + 1)
              /\ UNCHANGED <<CurrentlyEmitting, ToRemove, status, loops, gone>>

RemoveNow(slot) == /\ ~CurrentlyEmitting
                   /\ Callbacks' = [Callbacks EXCEPT ![slot] = Null]
                   /\ UNCHANGED ToRemove

RemoveLater(slot) == /\ CurrentlyEmitting /\ Len(ToRemove) < MaxRequests
                     /\ ToRemove' = Append(ToRemove, slot)
                     /\ UNCHANGED Callbacks

\* A faulty disconnect does not look at CurrentlyEmitting.
RemoveAtOnce(slot) == /\ Callbacks' = [Callbacks EXCEPT ![slot] = Null]
                      /\ UNCHANGED ToRemove

RemoveSlot(slot) == RemoveNow(slot) \/ RemoveLater(slot)

Disconnect(slot) == /\ UserCode /\ RemoveSlot(slot)
                    /\ gone' = gone \cup {slot}
                    /\ UNCHANGED <<CurrentlyEmitting, storage, status, loops>>

Emit == /\ UserCode /\ Len(loops) < MaxDepth
        /\ CurrentlyEmitting' = TRUE
        /\ loops' = Append([i \in 1..Len(loops) |-> [loops[i] EXCEPT !.nested = TRUE]],
                           LoopOver(Callbacks, storage))
        /\ UNCHANGED <<Callbacks, ToRemove, storage, status, gone>>

\* A faulty loop looks at the array as it is and meets what callbacks append.
EndNow(loop) == Len(Callbacks)

EndOf(loop) == loop.end

AtEnd == Top.next > EndOf(Top)

SetTop(loop) == loops' = [loops EXCEPT ![Len(loops)] = loop]

\* What the loop finds: its block may have been freed.
Found(loop) == IF loop.block = storage.block THEN Callbacks[loop.next] ELSE Garbage

SkipEmpty == /\ Emission /\ ~Top.inCallback /\ ~AtEnd
             /\ Found(Top) = Null
             /\ SetTop([Top EXCEPT !.next = @ + 1])
             /\ UNCHANGED <<Callbacks, CurrentlyEmitting, ToRemove, storage, status, gone>>

\* Calling garbage ends the process.
Invoke == /\ Emission /\ ~Top.inCallback /\ ~AtEnd
          /\ Found(Top) # Null
          /\ SetTop([Top EXCEPT !.inCallback = TRUE, !.called = Append(@, <<Top.next, Found(Top)>>)])
          /\ status' = IF Found(Top) = Garbage THEN "crashed" ELSE "runs"
          /\ UNCHANGED <<Callbacks, CurrentlyEmitting, ToRemove, storage, gone>>

\* A faulty removal takes the slots out of the array, and IDs change.
EraseRequested ==
    /\ Callbacks' = SelectSeq([s \in 1..Len(Callbacks) |->
            IF s \in ToSet(ToRemove) THEN Null ELSE Callbacks[s]], LAMBDA c : c # Null)
    /\ ToRemove' = <<>>

\* What was disconnected meanwhile is removed, and the emission is over.
RemoveRequested ==
    /\ Callbacks' = [s \in 1..Len(Callbacks) |->
            IF s \in ToSet(ToRemove) THEN Null ELSE Callbacks[s]]
    /\ ToRemove' = <<>>

EndsEmission == /\ CurrentlyEmitting' = FALSE
                /\ RemoveRequested
                /\ loops' = Front(loops)
                /\ UNCHANGED <<storage, status, gone>>

\* The callback returns and the collector goes on, or stops the loop.
Return == /\ Emission /\ Top.inCallback
          /\ SetTop([Top EXCEPT !.inCallback = FALSE, !.next = @ + 1])
          /\ UNCHANGED <<Callbacks, CurrentlyEmitting, ToRemove, storage, status, gone>>

ReturnStop == Emission /\ Top.inCallback /\ EndsEmission

Finish == Emission /\ ~Top.inCallback /\ AtEnd /\ EndsEmission

Next == /\ status = "runs"
        /\ \/ \E c \in Callback \cup {Null} : Connect(c)
           \/ \E slot \in DOMAIN Callbacks : Disconnect(slot)
           \/ Emit \/ SkipEmpty \/ Invoke \/ Return \/ ReturnStop \/ Finish

Spec == Init /\ [][Next]_vars

-----------------------------------------------------------------------------
TypeOK ==
    /\ Callbacks \in BoundedSeq(Callback \cup {Null}, MaxCallbacks)
    /\ CurrentlyEmitting \in BOOLEAN /\ status \in {"runs", "crashed"}
    /\ Len(Callbacks) <= storage.allocated
    /\ ToSet(ToRemove) \subseteq gone /\ gone \subseteq DOMAIN Callbacks
    /\ \A i \in DOMAIN loops : loops[i].next \in 1..(MaxCallbacks + 1)

\* signal.h, line 165: "We will remove the callback once we have finished
\* emitting".  While an emission runs no callback is removed, as long as none of
\* its callbacks emits: the end of that emission would remove it.
NoneRemovedWhileEmitting ==
    [][Emission /\ loops' # <<>> /\ ~loops[1].nested =>
        \A s \in DOMAIN Callbacks : Callbacks'[s] = Callbacks[s]]_vars

\* signal.h, line 177: an emission that runs to its end has called, in order and once, the
\* callbacks that were connected when it started, whatever they did but emit; it finds garbage only
\* when there are as many callbacks by then as the array had cells at its start.
CallsWhatIsDue ==
    Emission =>
        /\ ~Top.inCallback /\ AtEnd /\ ~Top.nested =>
               /\ ToSet(Top.called) = Top.due
               /\ \A i, j \in DOMAIN Top.called : i < j => Top.called[i][1] < Top.called[j][1]
        /\ status = "crashed" => Len(Callbacks) >= Top.room
=============================================================================
