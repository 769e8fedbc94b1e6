------------------------- MODULE ConditionVariable -------------------------
(***************************************************************************)
(* condition_variable of the Windows layer (windows_thread.cpp, lines      *)
(* 42-124, and wait of thread.h, lines 175-184), made of an auto-reset     *)
(* event for notify_one, a manual-reset event for notify_all and a count   *)
(* of the waiters.  The client is the one of the library's documentation   *)
(* and test: a counter behind a mutex, waiters that wait in a loop until   *)
(* it is large enough, and notifiers that increment it and notify with the *)
(* mutex held.  A waiter may take from the counter when it is done.        *)
(***************************************************************************)
EXTENDS Integers

CONSTANTS Waiter, Notifier, Nobody,
          Need,         \* of each waiter: the count it waits for
          Take,         \* what a waiter takes from the counter when it is done
          NotifyAll     \* whether the notifiers call notify_all or notify_one

VARIABLES at,           \* where each thread is
          mutex,        \* the thread that holds the client's mutex
          count,        \* the client's counter
          EventOne, EventAll, WaitersCount,
          byAll         \* of each waiter: whether EventAll ended its wait

client == <<mutex, count>>
cv == <<EventOne, EventAll, WaitersCount>>
vars == <<at, client, cv, byAll>>

Init == /\ at = [t \in Waiter \cup Notifier |-> "start"]
        /\ mutex = Nobody /\ count = 0
        /\ EventOne = FALSE /\ EventAll = FALSE /\ WaitersCount = 0
        /\ byAll = [w \in Waiter |-> FALSE]

Step(t, from, to) == at[t] = from /\ at' = [at EXCEPT ![t] = to]

\* A thread enters the client's critical section, or comes back from wait.
LockMutex(t) == /\ Step(t, "start", "locked")
                /\ mutex = Nobody /\ mutex' = t
                /\ UNCHANGED <<count, cv, byAll>>

-----------------------------------------------------------------------------
\* A waiter whose condition holds leaves the critical section.
Leave(w) == /\ Step(w, "locked", "done") /\ count >= Need[w]
            /\ count' = count - Take
            /\ mutex' = Nobody
            /\ UNCHANGED <<cv, byAll>>

PreWait(w) == /\ Step(w, "locked", "counted") /\ count < Need[w]
              /\ WaitersCount' = WaitersCount + 1
              /\ UNCHANGED <<client, EventOne, EventAll, byAll>>

UnlockToWait(w) == /\ Step(w, "counted", "waiting")
                   /\ mutex' = Nobody
                   /\ UNCHANGED <<count, cv, byAll>>

\* WaitForMultipleObjects prefers the event of notify_one, and resets it.
Wake(w) == /\ Step(w, "waiting", "woken")
           /\ EventOne \/ EventAll
           /\ EventOne' = FALSE
           /\ byAll' = [byAll EXCEPT ![w] = ~EventOne]
           /\ UNCHANGED <<client, EventAll, WaitersCount>>

\* A faulty test lets every waiter reset the event.
AnyIsLast(w) == byAll[w]

\* Only the last waiter that EventAll woke resets that event.
IsLast(w) == byAll[w] /\ WaitersCount = 1

\* A faulty do_wait decrements the count once more.
CountOutTwice(w) == /\ Step(w, "woken", IF IsLast(w) THEN "last" ELSE "start")
                    /\ WaitersCount' = WaitersCount - 2
                    /\ UNCHANGED <<client, EventOne, EventAll, byAll>>

CountOut(w) == /\ Step(w, "woken", IF IsLast(w) THEN "last" ELSE "start")
               /\ WaitersCount' = WaitersCount - 1
               /\ UNCHANGED <<client, EventOne, EventAll, byAll>>

\* This comes after the count was unlocked.
ResetAll(w) == /\ Step(w, "last", "start")
               /\ EventAll' = FALSE
               /\ UNCHANGED <<client, EventOne, WaitersCount, byAll>>

WaiterNext(w) == \/ LockMutex(w) \/ Leave(w) \/ PreWait(w) \/ UnlockToWait(w)
                 \/ Wake(w) \/ CountOut(w) \/ ResetAll(w)

-----------------------------------------------------------------------------
Increment(n) == /\ Step(n, "locked", "notify")
                /\ count' = count + 1
                /\ UNCHANGED <<mutex, cv, byAll>>

\* A faulty notification overlooks a waiter that is alone.
HaveSeveralWaiters(n) == /\ Step(n, "notify", IF WaitersCount > 1 THEN "set" ELSE "unlock")
                         /\ UNCHANGED <<client, cv, byAll>>

HaveWaiters(n) == /\ Step(n, "notify", IF WaitersCount > 0 THEN "set" ELSE "unlock")
                  /\ UNCHANGED <<client, cv, byAll>>

SetEvent(n) == /\ Step(n, "set", "unlock")
               /\ EventAll' = (EventAll \/ NotifyAll)
               /\ EventOne' = (EventOne \/ ~NotifyAll)
               /\ UNCHANGED <<client, WaitersCount, byAll>>

UnlockMutex(n) == /\ Step(n, "unlock", "done")
                  /\ mutex' = Nobody
                  /\ UNCHANGED <<count, cv, byAll>>

NotifierNext(n) == LockMutex(n) \/ Increment(n) \/ HaveWaiters(n) \/ SetEvent(n) \/ UnlockMutex(n)

-----------------------------------------------------------------------------
\* The client is done when no thread is left but waiters nothing is there for.
Finished == /\ \A n \in Notifier : at[n] = "done"
            /\ \A w \in Waiter : at[w] = "done" \/ (at[w] = "waiting" /\ count < Need[w])
            /\ UNCHANGED vars

Next == \/ \E w \in Waiter : WaiterNext(w)
        \/ \E n \in Notifier : NotifierNext(n)
        \/ Finished

Spec == Init /\ [][Next]_vars

\* The operating system runs every thread that can run.
FairSpec == /\ Spec
            /\ \A w \in Waiter : WF_vars(WaiterNext(w))
            /\ \A n \in Notifier : WF_vars(NotifierNext(n))

-----------------------------------------------------------------------------
Places == {"start", "locked", "counted", "waiting", "woken", "last", "notify", "set", "unlock", "done"}

TypeOK == /\ at \in [Waiter \cup Notifier -> Places]
          /\ mutex \in Waiter \cup Notifier \cup {Nobody} /\ count \in Nat
          /\ EventOne \in BOOLEAN /\ EventAll \in BOOLEAN /\ WaitersCount \in Nat
          /\ byAll \in [Waiter -> BOOLEAN]

Asleep(w) == at[w] = "waiting" /\ ~EventOne /\ ~EventAll

Awake(t) == at[t] # "done" /\ ~(t \in Waiter /\ Asleep(t))

\* No notification is lost: once nobody else runs, no waiter sleeps although
\* what it waits for is there.
NoWaiterLeftBehind ==
    (\A t \in Waiter \cup Notifier : ~Awake(t)) =>
        \A w \in Waiter : Asleep(w) => count < Need[w]

\* Every waiter of the client comes back.
WaitersReturn == \A w \in Waiter : <>(at[w] = "done")
=============================================================================
