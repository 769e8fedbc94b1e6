----------------------------- MODULE MCProcess -----------------------------
(***************************************************************************)
(* Components that share nothing, side by side: the list of headers,       *)
(* signals, and what threads meet around: threads that are started, the    *)
(* exit of the process, the console and the destructors of a thread.  A    *)
(* behaviour is one of that which component names, and the others stay as  *)
(* they were made.                                                         *)
(***************************************************************************)
EXTENDS HeaderList

CONSTANTS Callback, MaxCallbacks, MaxDepth, MaxRequests,
          Thread, NoThread, Main, Shared, Nothing, Stays, MaxScopes,
          Function, ArrayMinimum, Garbage, MaxScheduled, plain, scheduling,
          CONSOLE_BUFFER_SIZE, Sizes, MaxWritten,
          FUNCS_PER_NODE, MaxRegistered,
          Components    \* those a run looks at

VARIABLES component,
          list,     \* Head and the links
          order,    \* the headers from newest to oldest
          Callbacks, CurrentlyEmitting, ToRemove, storage, status, loops, gone,
          state, Alloc, scopes, parent, infos, waitsFor, launched,
          ExitFunctions, ExitScheduleMutex, loop, ran, due, process,
          cells, writers, shown, output, largest,
          dtor_list, pnode, next, phase, registered, toDestroy, destroyed

-----------------------------------------------------------------------------
(***************************************************************************)
(* add_header, unlink_header and swap_header of debug_memory in any order, *)
(* on any header.  order is the sequence of headers that the comments in   *)
(* allocator.h (lines 244-269) say the list is; list is what the pointer   *)
(* assignments make of it.                                                 *)
(***************************************************************************)
headers == <<list, order>>

Members == {order[i] : i \in 1..Len(order)}

HeadersInit == /\ list = EmptyList
               /\ order = <<>>

Add(h) == /\ h \notin Members
          /\ list' = AddHeader(ClearLinks(list, h), h)
          /\ order' = Prepended(order, h)

Unlink(k) == /\ list' = UnlinkHeader(list, order[k])
             /\ order' = Dropped(order, k)

Swap(k, n) == /\ n \notin Members
              /\ list' = SwapHeader(ClearLinks(list, n), order[k], n)
              /\ order' = Replaced(order, k, n)

HeadersNext == \/ \E h \in Header : Add(h)
               \/ \E k \in 1..Len(order) : Unlink(k)
               \/ \E k \in 1..Len(order), n \in Header : Swap(k, n)

-----------------------------------------------------------------------------
\* The pointers are pointers and no header is in the list twice.
HeadersTypeOK == /\ list \in HeaderLists
                 /\ order \in Seq(Header)
                 /\ Distinct(order)

\* add_header, unlink_header and swap_header keep the list what allocator.h says
\* it is, whichever header they are given: first, last, only, or in between.
ListIsOrder == Represents(list, order)

\* None of the asserts of unlink_header and swap_header can fire for a header
\* that is in the list.
NoAssertFires == \A h \in Members : ~UnlinkFails(list, h) /\ ~SwapFails(list)

-----------------------------------------------------------------------------
\* One function schedules another when it runs.
MCLater == [h \in Function |-> IF h = scheduling THEN <<plain>> ELSE <<>>]

Emitter == INSTANCE Signal WITH Minimum <- ArrayMinimum
Starting == INSTANCE ThreadStart WITH Null <- Nothing
Exiting == INSTANCE ProcessExit WITH Later <- MCLater, Minimum <- ArrayMinimum
Printing == INSTANCE Console
Destroying == INSTANCE TlsDestructors WITH due <- toDestroy, ran <- destroyed

ASSUME EmitterAssumption == Emitter!SignalAssumption

signal == <<Callbacks, CurrentlyEmitting, ToRemove, storage, status, loops, gone>>
starting == <<state, Alloc, scopes, parent, infos, waitsFor, launched>>
exiting == <<ExitFunctions, ExitScheduleMutex, loop, ran, due, process>>
printing == <<cells, writers, shown, output, largest>>
destroying == <<dtor_list, pnode, next, phase, registered, toDestroy, destroyed>>

processVars == <<component, headers, signal, starting, exiting, printing, destroying>>

ProcessInit == component \in Components /\ HeadersInit /\ Emitter!Init /\ Starting!Init
               /\ Exiting!Init /\ Printing!Init /\ Destroying!Init

Of(name, A) == component = name /\ A /\ UNCHANGED component

ProcessNext ==
    \/ Of("headers", HeadersNext) /\ UNCHANGED <<signal, starting, exiting, printing, destroying>>
    \/ Of("signal", Emitter!Next) /\ UNCHANGED <<headers, starting, exiting, printing, destroying>>
    \/ Of("threads", Starting!Next) /\ UNCHANGED <<headers, signal, exiting, printing, destroying>>
    \/ Of("exit", Exiting!Next) /\ UNCHANGED <<headers, signal, starting, printing, destroying>>
    \/ Of("console", Printing!Next) /\ UNCHANGED <<headers, signal, starting, exiting, destroying>>
    \/ Of("destructors", Destroying!Next) /\ UNCHANGED <<headers, signal, starting, exiting, printing>>

ProcessSpec == ProcessInit /\ [][ProcessNext]_processVars

-----------------------------------------------------------------------------
\* signal.h: an emission calls what was connected at its start, in order.
CallsWhatIsDue == Emitter!CallsWhatIsDue

\* signal.h, line 165: no callback is removed under an emission.
NoneRemovedWhileEmitting == Emitter!NoneRemovedWhileEmitting

\* windows_thread.cpp: a thread has the allocator it was launched with, or its own temporary one.
StartsAsLaunched == Starting!StartsAsLaunched

\* windows_thread.cpp, lines 159-160: no thread uses the temporary allocator of another.
NoForeignTemp == Starting!NoForeignTemp

\* os.win64.common.ixx: exit runs what was scheduled.
ExitRunsScheduled == Exiting!ExitRunsScheduled

\* os.win64.common.ixx: the console gets what was written.
OutputKept == Printing!OutputKept

\* tlsdtor.cpp: destructors are called in reverse order.
DestroyedInReverse == Destroying!DestroyedInReverse
=============================================================================
