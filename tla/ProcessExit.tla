---------------------------- MODULE ProcessExit ----------------------------
(***************************************************************************)
(* exit and the functions scheduled for it (lstd/os/os.win64.common.ixx):  *)
(* an array behind a recursive mutex.  A function may schedule another one *)
(* while the loop of exit goes over the array, which then may have moved,  *)
(* and other threads may call exit as well: the array is never emptied.    *)
(***************************************************************************)
EXTENDS Integers, SequencesExt

CONSTANTS Thread, NoThread,
          Function,      \* that may be scheduled
          Later,         \* of each function: those it schedules itself, in order
          Garbage,       \* what is in an array that was freed
          Minimum,       \* the least array that is allocated
          MaxScheduled   \* bound: the scheduled functions

VARIABLES ExitFunctions,      \* [items, block, allocated]: block counts the moves
          ExitScheduleMutex,  \* who holds it
          loop,               \* of each thread: where its exit is
          ran,                \* history: of each thread: what its exit has run
          due,                \* history: what was scheduled when the first exit began
          process

vars == <<ExitFunctions, ExitScheduleMutex, loop, ran, due, process>>

NoLoop == [step |-> "none", block |-> 0, at |-> 1, end |-> 0]

Init == /\ ExitFunctions = [items |-> <<>>, block |-> 0, allocated |-> 0]
        /\ ExitScheduleMutex = NoThread
        /\ loop = [t \in Thread |-> NoLoop]
        /\ ran = [t \in Thread |-> <<>>] /\ due = <<>>
        /\ process = "runs"

\* array_append, for some functions one after the other: at least one cell stays free; a larger
\* block may be the old one, grown.
AtLeast(n) == LET sizes == {Minimum * 2^k : k \in 0..n} IN Min({m \in sizes : m >= n})
Appended(a, functions, moves) ==
    LET items == a.items \o functions
    IN  IF functions = <<>> \/ Len(items) < a.allocated THEN [a EXCEPT !.items = items]
        ELSE [items |-> items, allocated |-> AtLeast(Len(items) + 1),
              block |-> IF moves \/ a.allocated = 0 THEN a.block + 1 ELSE a.block]

-----------------------------------------------------------------------------
\* A faulty version does not look at the mutex.
LockUnseen(t) == TRUE
CanLock(t) == ExitScheduleMutex \in {NoThread, t}

exit_schedule(t, f) ==
    /\ process = "runs" /\ loop[t].step = "none" /\ CanLock(t)
    /\ Len(ExitFunctions.items) < MaxScheduled
    /\ \E moves \in BOOLEAN : ExitFunctions' = Appended(ExitFunctions, <<f>>, moves)
    /\ UNCHANGED <<ExitScheduleMutex, loop, ran, due, process>>

\* The loop keeps where the array begins and ends.
exit(t) ==
    /\ process = "runs" /\ loop[t].step = "none" /\ ExitScheduleMutex = NoThread
    /\ ExitScheduleMutex' = t
    /\ loop' = [loop EXCEPT ![t] = [step |-> "loop", block |-> ExitFunctions.block,
                                    at |-> 1, end |-> Len(ExitFunctions.items)]]
    /\ due' = IF \A u \in Thread : loop[u].step = "none" THEN ExitFunctions.items ELSE due
    /\ UNCHANGED <<ExitFunctions, ran, process>>

\* What the loop finds: the array may have been freed.
Found(l) == IF l.block = ExitFunctions.block THEN ExitFunctions.items[l.at] ELSE Garbage

\* Running garbage ends the process.
RunNext(t) ==
    LET l == loop[t]
        f == Found(l)
    IN  /\ process = "runs" /\ l.step = "loop" /\ l.at <= l.end
        /\ ran' = [ran EXCEPT ![t] = Append(@, f)]
        /\ IF f = Garbage THEN process' = "crashed" /\ UNCHANGED <<ExitFunctions, loop>>
           ELSE /\ \E moves \in BOOLEAN : ExitFunctions' = Appended(ExitFunctions, Later[f], moves)
                /\ loop' = [loop EXCEPT ![t].at = @ + 1]
                /\ UNCHANGED process
        /\ UNCHANGED <<ExitScheduleMutex, due>>

EndLoop(t) ==
    /\ process = "runs" /\ loop[t].step = "loop" /\ loop[t].at > loop[t].end
    /\ ExitScheduleMutex' = NoThread
    /\ loop' = [loop EXCEPT ![t].step = "ends"]
    /\ UNCHANGED <<ExitFunctions, ran, due, process>>

\* platform_uninit_state and ExitProcess, in one step: the report of leaks changes nothing here, and
\* what other threads would meet between the release of the mutex and the end is not modelled.
ExitProcess(t) ==
    /\ process = "runs" /\ loop[t].step = "ends"
    /\ process' = "exited"
    /\ UNCHANGED <<ExitFunctions, ExitScheduleMutex, loop, ran, due>>

abort(t) ==
    /\ process = "runs" /\ loop[t].step = "none"
    /\ process' = "aborted"
    /\ UNCHANGED <<ExitFunctions, ExitScheduleMutex, loop, ran, due>>

Next == \E t \in Thread :
    \/ \E f \in Function : exit_schedule(t, f)
    \/ exit(t) \/ RunNext(t) \/ EndLoop(t) \/ ExitProcess(t) \/ abort(t)

Spec == Init /\ [][Next]_vars

-----------------------------------------------------------------------------
TypeOK == /\ ToSet(ExitFunctions.items) \subseteq Function
          /\ ExitScheduleMutex \in Thread \cup {NoThread}
          /\ process \in {"runs", "exited", "aborted", "crashed"}
          /\ \A t \in Thread : loop[t].step \in {"none", "loop", "ends"}

\* os.win64.common.ixx, lines 25-41: exit runs what was scheduled before it, each function once
\* and in order, in every thread that exits; a function is found damaged only when one before it
\* has scheduled more than the array had room for; one that is scheduled by then is not run.
ExitRunsScheduled ==
    /\ process = "exited" => \E t \in Thread : loop[t].step = "ends" /\ IsPrefix(due, ran[t])
    /\ \A t \in Thread : loop[t].step = "loop" /\ process = "runs" => Len(ran[t]) = loop[t].at - 1
    /\ process = "crashed" => \E t \in Thread : \E f \in ToSet(ran[t]) : f # Garbage /\ Later[f] # <<>>
=============================================================================
