---------------------- MODULE ConditionVariableProofs ----------------------
(***************************************************************************)
(* For any finite number of waiters and any notifiers: when each waiter    *)
(* waits for the first notification of a client that takes nothing back,   *)
(* and notifiers call notify_all, no notification is lost.  (For a second  *)
(* notification, or one that is taken back, it may be: see the README.)    *)
(***************************************************************************)
EXTENDS ConditionVariable, FiniteSetTheorems, TLAPS

\* The client of the theorem.
FirstForAll == /\ IsFiniteSet(Waiter) /\ Waiter \cap Notifier = {}
               /\ Nobody \notin Waiter \cup Notifier
               /\ Need = [w \in Waiter |-> 1] /\ Take = 0 /\ NotifyAll = TRUE

Threads == Waiter \cup Notifier
WaiterPlaces == {"start", "locked", "counted", "waiting", "woken", "last", "done"}
NotifierPlaces == {"start", "locked", "notify", "set", "unlock", "done"}
Inside == {"locked", "counted", "notify", "set", "unlock"}

\* The waiters that count, which WaitersCount counts.
Counted == {w \in Waiter : at[w] \in {"counted", "waiting", "woken"}}

PlacesOK == /\ \A w \in Waiter : at[w] \in WaiterPlaces
            /\ \A n \in Notifier : at[n] \in NotifierPlaces
            /\ EventOne = FALSE

MutexOK == \A t \in Threads : at[t] \in Inside => mutex = t

CountOK == WaitersCount = Cardinality(Counted)

\* EventAll, whom it woke and who is about to set it are there for the count; nobody waits when
\* it is reset.
EventOK == /\ EventAll => count >= 1
           /\ \A t \in Threads : at[t] \in {"woken", "last", "notify", "set"} => count >= 1
           /\ \A w \in Waiter : at[w] = "last" => Counted = {}

\* Who waits although the count is there has a notification coming.
WakeOK == count >= 1 =>
    /\ \A w \in Waiter : at[w] # "counted"
    /\ \A w \in Waiter : at[w] = "waiting" =>
           EventAll \/ \E n \in Notifier : at[n] \in {"notify", "set"}

IInv == TypeOK /\ PlacesOK /\ MutexOK /\ CountOK /\ EventOK /\ WakeOK

-----------------------------------------------------------------------------
LEMMA InitOK == ASSUME FirstForAll PROVE Init => IInv
  <1> SUFFICES ASSUME Init PROVE IInv
    OBVIOUS
  <1>1. \A t \in Threads : at[t] = "start"
    BY DEF Init, Threads
  <1>2. Counted = {}
    BY <1>1 DEF Counted, Threads
  <1>3. TypeOK
    BY DEF Init, TypeOK, Places
  <1>4. CountOK
    BY <1>2, FS_EmptySet DEF Init, CountOK
  <1> QED
    BY <1>1, <1>2, <1>3, <1>4
       DEF Init, IInv, PlacesOK, MutexOK, EventOK, WakeOK, WaiterPlaces, NotifierPlaces, Inside, Threads

\* What a step of one thread does to the places, and to who counts.
LEMMA Moves ==
    ASSUME TypeOK, NEW t \in Threads, NEW from, NEW to \in Places, Step(t, from, to)
    PROVE  /\ at[t] = from /\ at' \in [Threads -> Places]
           /\ at'[t] = to /\ \A u \in Threads : u # t => at'[u] = at[u]
  BY DEF Step, TypeOK, Threads

LEMMA StaysCounted ==
    ASSUME TypeOK, NEW t \in Threads, NEW from, NEW to \in Places, Step(t, from, to),
           from \in {"counted", "waiting", "woken"} <=> to \in {"counted", "waiting", "woken"}
    PROVE  Counted' = Counted
  BY Moves DEF Counted, Threads

LEMMA CountsIn ==
    ASSUME IsFiniteSet(Waiter), TypeOK, NEW w \in Waiter, NEW to \in Places, Step(w, "locked", to),
           to \in {"counted", "waiting", "woken"}
    PROVE  /\ Counted' = Counted \cup {w}
           /\ Cardinality(Counted') = Cardinality(Counted) + 1
  <1>1. Counted' = Counted \cup {w} /\ w \notin Counted
    BY Moves DEF Counted, Threads
  <1>2. IsFiniteSet(Counted)
    BY FS_Subset DEF Counted
  <1> QED
    BY <1>1, <1>2, FS_AddElement

LEMMA CountsOut ==
    ASSUME IsFiniteSet(Waiter), TypeOK, NEW w \in Waiter, NEW to \in Places, Step(w, "woken", to),
           to \notin {"counted", "waiting", "woken"}
    PROVE  /\ Counted' = Counted \ {w} /\ w \in Counted
           /\ Cardinality(Counted') = Cardinality(Counted) - 1
           /\ Cardinality(Counted) = 1 => Counted' = {}
  <1>1. Counted' = Counted \ {w} /\ w \in Counted
    BY Moves DEF Counted, Threads
  <1>2. IsFiniteSet(Counted)
    BY FS_Subset DEF Counted
  <1>3. /\ IsFiniteSet(Counted')
        /\ Cardinality(Counted') = Cardinality(Counted) - 1
    BY <1>1, <1>2, FS_RemoveElement
  <1>4. Cardinality(Counted) = 1 => Counted' = {}
    <2> SUFFICES ASSUME Cardinality(Counted) = 1 PROVE Counted' = {}
      OBVIOUS
    <2>1. Cardinality(Counted') = 0
      BY <1>3
    <2> QED
      BY <1>3, <2>1, FS_EmptySet
  <1> QED
    BY <1>1, <1>3, <1>4

-----------------------------------------------------------------------------
LEMMA LockMutexOK ==
    ASSUME FirstForAll, IInv, NEW t \in Threads, LockMutex(t) PROVE IInv'
  <1> USE DEF LockMutex, client, cv
  <1>0. "locked" \in Places
    BY DEF Places
  <1>1. /\ at[t] = "start" /\ at' \in [Threads -> Places]
        /\ at'[t] = "locked" /\ \A u \in Threads : u # t => at'[u] = at[u]
    BY <1>0, Moves DEF IInv
  <1>2. Counted' = Counted
    BY <1>0, StaysCounted DEF IInv
  <1>3. TypeOK' /\ PlacesOK'
    BY <1>1 DEF IInv, TypeOK, PlacesOK, WaiterPlaces, NotifierPlaces, Threads
  <1>4. MutexOK'
    <2> SUFFICES ASSUME NEW u \in Threads, at'[u] \in Inside PROVE u = t
      BY DEF MutexOK
    <2>1. mutex # u
      BY DEF FirstForAll, Threads
    <2> QED
      BY <1>1, <2>1 DEF IInv, MutexOK
  <1>5. CountOK'
    BY <1>2 DEF IInv, CountOK
  <1>6. EventOK' /\ WakeOK'
    BY <1>1, <1>2 DEF IInv, EventOK, WakeOK, Threads
  <1> QED
    BY <1>3, <1>4, <1>5, <1>6 DEF IInv

LEMMA LeaveOK ==
    ASSUME FirstForAll, IInv, NEW w \in Waiter, Leave(w) PROVE IInv'
  <1> USE DEF Leave, client, cv
  <1>0. "done" \in Places /\ w \in Threads
    BY DEF Places, Threads
  <1>1. /\ at[w] = "locked" /\ at' \in [Threads -> Places]
        /\ at'[w] = "done" /\ \A u \in Threads : u # w => at'[u] = at[u]
    BY <1>0, Moves DEF IInv
  <1>2. Counted' = Counted
    BY <1>0, StaysCounted DEF IInv
  <1>3. count' = count /\ count \in Nat
    BY DEF IInv, TypeOK, FirstForAll
  <1>4. TypeOK' /\ PlacesOK'
    BY <1>1, <1>3 DEF IInv, TypeOK, PlacesOK, WaiterPlaces, NotifierPlaces, Threads
  <1>5. MutexOK'
    BY <1>0, <1>1 DEF IInv, MutexOK, Inside
  <1>6. CountOK'
    BY <1>2 DEF IInv, CountOK
  <1>7. EventOK' /\ WakeOK'
    BY <1>0, <1>1, <1>2, <1>3 DEF IInv, EventOK, WakeOK, Threads
  <1> QED
    BY <1>4, <1>5, <1>6, <1>7 DEF IInv

LEMMA PreWaitOK ==
    ASSUME FirstForAll, IInv, NEW w \in Waiter, PreWait(w) PROVE IInv'
  <1> USE DEF PreWait, client, cv
  <1>0. "counted" \in Places /\ w \in Threads /\ w \notin Notifier
    BY DEF Places, Threads, FirstForAll
  <1>1. /\ at[w] = "locked" /\ at' \in [Threads -> Places]
        /\ at'[w] = "counted" /\ \A u \in Threads : u # w => at'[u] = at[u]
    BY <1>0, Moves DEF IInv
  <1>2. Cardinality(Counted') = Cardinality(Counted) + 1
    BY <1>0, CountsIn DEF IInv, FirstForAll
  <1>3. count' = count /\ count = 0
    BY DEF IInv, TypeOK, FirstForAll
  <1>4. TypeOK' /\ PlacesOK'
    BY <1>0, <1>1, <1>3 DEF IInv, TypeOK, PlacesOK, WaiterPlaces, NotifierPlaces, Threads
  <1>5. MutexOK'
    BY <1>0, <1>1 DEF IInv, MutexOK, Inside
  <1>6. CountOK'
    BY <1>2 DEF IInv, CountOK
  <1>7. EventOK' /\ WakeOK'
    BY <1>0, <1>1, <1>3 DEF IInv, EventOK, WakeOK, Threads
  <1> QED
    BY <1>4, <1>5, <1>6, <1>7 DEF IInv

LEMMA UnlockToWaitOK ==
    ASSUME FirstForAll, IInv, NEW w \in Waiter, UnlockToWait(w) PROVE IInv'
  <1> USE DEF UnlockToWait, client, cv
  <1>0. "waiting" \in Places /\ w \in Threads
    BY DEF Places, Threads
  <1>1. /\ at[w] = "counted" /\ at' \in [Threads -> Places]
        /\ at'[w] = "waiting" /\ \A u \in Threads : u # w => at'[u] = at[u]
    BY <1>0, Moves DEF IInv
  <1>2. Counted' = Counted
    BY <1>0, StaysCounted DEF IInv
  <1>3. count' = count /\ ~(count >= 1)
    BY <1>1 DEF IInv, WakeOK
  <1>4. TypeOK' /\ PlacesOK'
    BY <1>1, <1>3 DEF IInv, TypeOK, PlacesOK, WaiterPlaces, NotifierPlaces, Threads
  <1>5. MutexOK'
    BY <1>0, <1>1 DEF IInv, MutexOK, Inside
  <1>6. CountOK'
    BY <1>2 DEF IInv, CountOK
  <1>7. EventOK' /\ WakeOK'
    BY <1>0, <1>1, <1>2, <1>3 DEF IInv, EventOK, WakeOK, Threads
  <1> QED
    BY <1>4, <1>5, <1>6, <1>7 DEF IInv

LEMMA WakeKeeps ==
    ASSUME FirstForAll, IInv, NEW w \in Waiter, Wake(w) PROVE IInv'
  <1> USE DEF Wake, client, cv
  <1>0. "woken" \in Places /\ w \in Threads
    BY DEF Places, Threads
  <1>1. /\ at[w] = "waiting" /\ at' \in [Threads -> Places]
        /\ at'[w] = "woken" /\ \A u \in Threads : u # w => at'[u] = at[u]
    BY <1>0, Moves DEF IInv
  <1>2. Counted' = Counted
    BY <1>0, StaysCounted DEF IInv
  <1>3. EventAll /\ EventAll' = EventAll /\ count' = count /\ count >= 1
    BY DEF IInv, PlacesOK, EventOK
  <1>4. TypeOK' /\ PlacesOK'
    <2>1. byAll' \in [Waiter -> BOOLEAN]
      BY DEF IInv, TypeOK
    <2> QED
      BY <1>1, <1>3, <2>1 DEF IInv, TypeOK, PlacesOK, WaiterPlaces, NotifierPlaces, Threads
  <1>5. MutexOK'
    BY <1>0, <1>1 DEF IInv, MutexOK, Inside
  <1>6. CountOK'
    BY <1>2 DEF IInv, CountOK
  <1>7. EventOK' /\ WakeOK'
    BY <1>0, <1>1, <1>2, <1>3 DEF IInv, EventOK, WakeOK, Threads
  <1> QED
    BY <1>4, <1>5, <1>6, <1>7 DEF IInv

LEMMA CountOutOK ==
    ASSUME FirstForAll, IInv, NEW w \in Waiter, CountOut(w) PROVE IInv'
  <1> USE DEF CountOut, client, cv
  <1> DEFINE to == IF IsLast(w) THEN "last" ELSE "start"
  <1>0. /\ to \in Places /\ to \in {"last", "start"} /\ w \in Threads
        /\ to = "last" => WaitersCount = 1
    BY DEF Places, Threads, IsLast
  <1>a. Step(w, "woken", to)
    OBVIOUS
  <1> HIDE DEF to
  <1>1. /\ at[w] = "woken" /\ at' \in [Threads -> Places]
        /\ at'[w] = to /\ \A u \in Threads : u # w => at'[u] = at[u]
    BY <1>0, <1>a, Moves DEF IInv
  <1>2. /\ Counted' = Counted \ {w}
        /\ Cardinality(Counted') = Cardinality(Counted) - 1
        /\ Cardinality(Counted) = 1 => Counted' = {}
    BY <1>0, <1>a, CountsOut DEF IInv, FirstForAll
  <1>3. count' = count /\ count >= 1
    BY <1>0, <1>1 DEF IInv, EventOK
  <1>4. WaitersCount' = Cardinality(Counted') /\ WaitersCount' \in Nat
    <2>1. IsFiniteSet(Counted')
      BY FS_Subset DEF Counted, FirstForAll
    <2> QED
      BY <1>2, <2>1, FS_CardinalityType DEF IInv, CountOK
  <1>5. TypeOK' /\ PlacesOK'
    BY <1>0, <1>1, <1>3, <1>4 DEF IInv, TypeOK, PlacesOK, WaiterPlaces, NotifierPlaces, Threads
  <1>6. MutexOK'
    BY <1>0, <1>1 DEF IInv, MutexOK, Inside
  <1>7. CountOK'
    BY <1>4 DEF CountOK
  <1>8. EventOK'
    <2>1. \A u \in Waiter : at'[u] = "last" => Counted' = {}
      BY <1>0, <1>1, <1>2 DEF IInv, CountOK, EventOK, Threads
    <2> QED
      BY <1>3, <2>1 DEF IInv, EventOK
  <1>9. WakeOK'
    BY <1>0, <1>1, <1>3 DEF IInv, WakeOK, Threads
  <1> QED
    BY <1>5, <1>6, <1>7, <1>8, <1>9 DEF IInv

LEMMA ResetAllOK ==
    ASSUME FirstForAll, IInv, NEW w \in Waiter, ResetAll(w) PROVE IInv'
  <1> USE DEF ResetAll, client, cv
  <1>0. "start" \in Places /\ w \in Threads
    BY DEF Places, Threads
  <1>1. /\ at[w] = "last" /\ at' \in [Threads -> Places]
        /\ at'[w] = "start" /\ \A u \in Threads : u # w => at'[u] = at[u]
    BY <1>0, Moves DEF IInv
  <1>2. Counted' = Counted /\ Counted = {}
    BY <1>0, <1>1, StaysCounted DEF IInv, EventOK
  <1>3. TypeOK' /\ PlacesOK'
    BY <1>1 DEF IInv, TypeOK, PlacesOK, WaiterPlaces, NotifierPlaces, Threads
  <1>4. MutexOK'
    BY <1>0, <1>1 DEF IInv, MutexOK, Inside
  <1>5. CountOK'
    BY <1>2 DEF IInv, CountOK
  <1>6. EventOK'
    BY <1>0, <1>1, <1>2 DEF IInv, EventOK, Threads
  <1>7. WakeOK'
    <2>1. \A u \in Waiter : at'[u] \notin {"counted", "waiting"}
      BY <1>2 DEF Counted
    <2> QED
      BY <2>1 DEF WakeOK
  <1> QED
    BY <1>3, <1>4, <1>5, <1>6, <1>7 DEF IInv

-----------------------------------------------------------------------------
LEMMA IncrementOK ==
    ASSUME FirstForAll, IInv, NEW n \in Notifier, Increment(n) PROVE IInv'
  <1> USE DEF Increment, client, cv
  <1>0. "notify" \in Places /\ n \in Threads /\ n \notin Waiter
    BY DEF Places, Threads, FirstForAll
  <1>1. /\ at[n] = "locked" /\ at' \in [Threads -> Places]
        /\ at'[n] = "notify" /\ \A u \in Threads : u # n => at'[u] = at[u]
    BY <1>0, Moves DEF IInv
  <1>2. Counted' = Counted
    BY <1>0, StaysCounted DEF IInv
  <1>3. count' \in Nat /\ count' >= 1
    BY DEF IInv, TypeOK
  <1>4. TypeOK' /\ PlacesOK'
    BY <1>0, <1>1, <1>3 DEF IInv, TypeOK, PlacesOK, WaiterPlaces, NotifierPlaces, Threads
  <1>5. MutexOK'
    BY <1>0, <1>1 DEF IInv, MutexOK, Inside
  <1>6. CountOK'
    BY <1>2 DEF IInv, CountOK
  <1>7. EventOK'
    BY <1>0, <1>1, <1>2, <1>3 DEF IInv, EventOK, Threads
  <1>8. WakeOK'
    <2>1. mutex = n
      BY <1>0, <1>1 DEF IInv, MutexOK, Inside
    <2>2. \A w \in Waiter : at[w] # "counted"
      BY <1>0, <2>1 DEF IInv, MutexOK, Inside, Threads
    <2>3. \A w \in Waiter : at'[w] # "counted"
      BY <1>0, <1>1, <2>2 DEF Threads
    <2> QED
      BY <1>1, <2>3 DEF WakeOK
  <1> QED
    BY <1>4, <1>5, <1>6, <1>7, <1>8 DEF IInv

LEMMA HaveWaitersOK ==
    ASSUME FirstForAll, IInv, NEW n \in Notifier, HaveWaiters(n) PROVE IInv'
  <1> USE DEF HaveWaiters, client, cv
  <1> DEFINE to == IF WaitersCount > 0 THEN "set" ELSE "unlock"
  <1>0. /\ to \in Places /\ to \in {"set", "unlock"} /\ n \in Threads /\ n \notin Waiter
        /\ WaitersCount > 0 => to = "set"
    BY DEF Places, Threads, FirstForAll
  <1>a. Step(n, "notify", to)
    OBVIOUS
  <1> HIDE DEF to
  <1>1. /\ at[n] = "notify" /\ at' \in [Threads -> Places]
        /\ at'[n] = to /\ \A u \in Threads : u # n => at'[u] = at[u]
    BY <1>0, <1>a, Moves DEF IInv
  <1>2. Counted' = Counted
    BY <1>0, <1>a, StaysCounted DEF IInv
  <1>3. \A w \in Waiter : at[w] = "waiting" => WaitersCount > 0
    <2> SUFFICES ASSUME NEW w \in Waiter, at[w] = "waiting" PROVE WaitersCount > 0
      OBVIOUS
    <2>1. IsFiniteSet(Counted) /\ Counted # {}
      BY FS_Subset DEF Counted, FirstForAll
    <2>2. Cardinality(Counted) # 0 /\ Cardinality(Counted) \in Nat
      BY <2>1, FS_EmptySet, FS_CardinalityType
    <2> QED
      BY <2>2 DEF IInv, CountOK
  <1>4. TypeOK' /\ PlacesOK'
    BY <1>0, <1>1 DEF IInv, TypeOK, PlacesOK, WaiterPlaces, NotifierPlaces, Threads
  <1>5. MutexOK'
    BY <1>0, <1>1 DEF IInv, MutexOK, Inside
  <1>6. CountOK'
    BY <1>2 DEF IInv, CountOK
  <1>7. EventOK'
    BY <1>0, <1>1, <1>2 DEF IInv, EventOK, Threads
  <1>8. WakeOK'
    BY <1>0, <1>1, <1>3 DEF IInv, WakeOK, Threads
  <1> QED
    BY <1>4, <1>5, <1>6, <1>7, <1>8 DEF IInv

LEMMA SetEventOK ==
    ASSUME FirstForAll, IInv, NEW n \in Notifier, SetEvent(n) PROVE IInv'
  <1> USE DEF SetEvent, client, cv
  <1>0. "unlock" \in Places /\ n \in Threads /\ n \notin Waiter
    BY DEF Places, Threads, FirstForAll
  <1>1. /\ at[n] = "set" /\ at' \in [Threads -> Places]
        /\ at'[n] = "unlock" /\ \A u \in Threads : u # n => at'[u] = at[u]
    BY <1>0, Moves DEF IInv
  <1>2. Counted' = Counted
    BY <1>0, StaysCounted DEF IInv
  <1>3. EventAll' = TRUE /\ EventOne' = FALSE /\ count >= 1
    BY <1>0, <1>1 DEF IInv, PlacesOK, EventOK, FirstForAll
  <1>4. TypeOK' /\ PlacesOK'
    BY <1>0, <1>1, <1>3 DEF IInv, TypeOK, PlacesOK, WaiterPlaces, NotifierPlaces, Threads
  <1>5. MutexOK'
    BY <1>0, <1>1 DEF IInv, MutexOK, Inside
  <1>6. CountOK'
    BY <1>2 DEF IInv, CountOK
  <1>7. EventOK' /\ WakeOK'
    BY <1>0, <1>1, <1>2, <1>3 DEF IInv, EventOK, WakeOK, Threads
  <1> QED
    BY <1>4, <1>5, <1>6, <1>7 DEF IInv

LEMMA UnlockMutexOK ==
    ASSUME FirstForAll, IInv, NEW n \in Notifier, UnlockMutex(n) PROVE IInv'
  <1> USE DEF UnlockMutex, client, cv
  <1>0. "done" \in Places /\ n \in Threads /\ n \notin Waiter
    BY DEF Places, Threads, FirstForAll
  <1>1. /\ at[n] = "unlock" /\ at' \in [Threads -> Places]
        /\ at'[n] = "done" /\ \A u \in Threads : u # n => at'[u] = at[u]
    BY <1>0, Moves DEF IInv
  <1>2. Counted' = Counted
    BY <1>0, StaysCounted DEF IInv
  <1>3. TypeOK' /\ PlacesOK'
    BY <1>0, <1>1 DEF IInv, TypeOK, PlacesOK, WaiterPlaces, NotifierPlaces, Threads
  <1>4. MutexOK'
    BY <1>0, <1>1 DEF IInv, MutexOK, Inside
  <1>5. CountOK'
    BY <1>2 DEF IInv, CountOK
  <1>6. EventOK' /\ WakeOK'
    BY <1>0, <1>1, <1>2 DEF IInv, EventOK, WakeOK, Threads
  <1> QED
    BY <1>3, <1>4, <1>5, <1>6 DEF IInv

-----------------------------------------------------------------------------
LEMMA NextOK == ASSUME FirstForAll PROVE IInv /\ [Next]_vars => IInv'
  <1> SUFFICES ASSUME IInv, [Next]_vars PROVE IInv'
    OBVIOUS
  <1>1. ASSUME NEW w \in Waiter, WaiterNext(w) PROVE IInv'
    <2>1. CASE LockMutex(w)
      BY <2>1, LockMutexOK DEF Threads
    <2>2. CASE Leave(w)
      BY <2>2, LeaveOK
    <2>3. CASE PreWait(w)
      BY <2>3, PreWaitOK
    <2>4. CASE UnlockToWait(w)
      BY <2>4, UnlockToWaitOK
    <2>5. CASE Wake(w)
      BY <2>5, WakeKeeps
    <2>6. CASE CountOut(w)
      BY <2>6, CountOutOK
    <2>7. CASE ResetAll(w)
      BY <2>7, ResetAllOK
    <2> QED
      BY <1>1, <2>1, <2>2, <2>3, <2>4, <2>5, <2>6, <2>7 DEF WaiterNext
  <1>2. ASSUME NEW n \in Notifier, NotifierNext(n) PROVE IInv'
    <2>1. CASE LockMutex(n)
      BY <2>1, LockMutexOK DEF Threads
    <2>2. CASE Increment(n)
      BY <2>2, IncrementOK
    <2>3. CASE HaveWaiters(n)
      BY <2>3, HaveWaitersOK
    <2>4. CASE SetEvent(n)
      BY <2>4, SetEventOK
    <2>5. CASE UnlockMutex(n)
      BY <2>5, UnlockMutexOK
    <2> QED
      BY <1>2, <2>1, <2>2, <2>3, <2>4, <2>5 DEF NotifierNext
  <1>3. CASE UNCHANGED vars
    BY <1>3 DEF vars, client, cv, IInv, TypeOK, PlacesOK, MutexOK, CountOK, EventOK, WakeOK, Counted
  <1> QED
    BY <1>1, <1>2, <1>3 DEF Next, Finished

LEMMA NobodyIsLeft == ASSUME FirstForAll PROVE IInv => NoWaiterLeftBehind
  <1> SUFFICES ASSUME IInv, \A t \in Waiter \cup Notifier : ~Awake(t),
                      NEW w \in Waiter, Asleep(w)
               PROVE  count < Need[w]
    BY DEF NoWaiterLeftBehind
  <1>1. \A n \in Notifier : at[n] = "done"
    BY DEF Awake, FirstForAll
  <1>2. ~(count >= 1)
    BY <1>1 DEF Asleep, IInv, WakeOK
  <1> QED
    BY <1>2 DEF FirstForAll, IInv, TypeOK

\* windows_thread.cpp, lines 42-124: with any number of waiters, who all wait for the first
\* notification of all, none is left asleep when it has come and nobody runs any more.
THEOREM FirstNotificationReachesAll ==
    ASSUME FirstForAll PROVE Spec => []NoWaiterLeftBehind
  <1>1. Init => IInv
    BY InitOK
  <1>2. IInv /\ [Next]_vars => IInv'
    BY NextOK
  <1>3. IInv => NoWaiterLeftBehind
    BY NobodyIsLeft
  <1> QED
    BY <1>1, <1>2, <1>3, PTL DEF Spec

-----------------------------------------------------------------------------
(* Types, for any client. *)

\* A client takes no more than it waited for.
Client == /\ IsFiniteSet(Waiter) /\ Need \in [Waiter -> Nat] /\ Take \in Nat
          /\ \A w \in Waiter : Take <= Need[w]

\* TypeOK has WaitersCount above zero, for which it has to count the waiters.
TypeInv == TypeOK /\ CountOK

LEMMA CountedIsFinite == ASSUME IsFiniteSet(Waiter) PROVE Cardinality(Counted) \in Nat
  <1>1. IsFiniteSet(Counted)
    BY FS_Subset DEF Counted
  <1> QED
    BY <1>1, FS_CardinalityType

LEMMA WaiterKeepsTypes ==
    ASSUME Client, TypeInv, NEW w \in Waiter, WaiterNext(w) PROVE TypeInv'
  <1> USE DEF client, cv
  <1>0. w \in Threads /\ Cardinality(Counted) \in Nat /\ TypeOK /\ IsFiniteSet(Waiter)
    BY CountedIsFinite DEF Threads, Client, TypeInv
  <1>1. CASE LockMutex(w)
    <2>1. Counted' = Counted
      BY <1>0, <1>1, StaysCounted DEF LockMutex, Places
    <2> QED
      BY <1>0, <1>1, <2>1, Moves DEF LockMutex, TypeInv, TypeOK, CountOK, Places, Threads
  <1>2. CASE Leave(w)
    <2>1. Counted' = Counted
      BY <1>0, <1>2, StaysCounted DEF Leave, Places
    <2>2. count' \in Nat
      BY <1>2 DEF Leave, Client, TypeInv, TypeOK
    <2> QED
      BY <1>0, <1>2, <2>1, <2>2, Moves DEF Leave, TypeInv, TypeOK, CountOK, Places, Threads
  <1>3. CASE PreWait(w)
    <2>1. Cardinality(Counted') = Cardinality(Counted) + 1
      BY <1>0, <1>3, CountsIn DEF PreWait, Places
    <2> QED
      BY <1>0, <1>3, <2>1, Moves DEF PreWait, TypeInv, TypeOK, CountOK, Places, Threads
  <1>4. CASE UnlockToWait(w)
    <2>1. Counted' = Counted
      BY <1>0, <1>4, StaysCounted DEF UnlockToWait, Places
    <2> QED
      BY <1>0, <1>4, <2>1, Moves DEF UnlockToWait, TypeInv, TypeOK, CountOK, Places, Threads
  <1>5. CASE Wake(w)
    <2>1. Counted' = Counted
      BY <1>0, <1>5, StaysCounted DEF Wake, Places
    <2>2. byAll' \in [Waiter -> BOOLEAN] /\ EventOne' \in BOOLEAN
      BY <1>0, <1>5 DEF Wake, TypeOK
    <2> QED
      BY <1>0, <1>5, <2>1, <2>2, Moves DEF Wake, TypeInv, TypeOK, CountOK, Places, Threads
  <1>6. CASE CountOut(w)
    <2> DEFINE to == IF IsLast(w) THEN "last" ELSE "start"
    <2>1. Step(w, "woken", to) /\ to \in Places /\ to \in {"last", "start"}
      BY <1>6 DEF CountOut, Places
    <2> HIDE DEF to
    <2>2. Cardinality(Counted') = Cardinality(Counted) - 1
      BY <1>0, <2>1, CountsOut
    <2>3. Cardinality(Counted') \in Nat
      <3>1. IsFiniteSet(Counted')
        BY <1>0, FS_Subset DEF Counted
      <3> QED
        BY <3>1, FS_CardinalityType
    <2> QED
      BY <1>0, <1>6, <2>1, <2>2, <2>3, Moves DEF CountOut, TypeInv, TypeOK, CountOK, Threads
  <1>7. CASE ResetAll(w)
    <2>1. Counted' = Counted
      BY <1>0, <1>7, StaysCounted DEF ResetAll, Places
    <2> QED
      BY <1>0, <1>7, <2>1, Moves DEF ResetAll, TypeInv, TypeOK, CountOK, Places, Threads
  <1> QED
    BY <1>1, <1>2, <1>3, <1>4, <1>5, <1>6, <1>7 DEF WaiterNext

LEMMA NotifierKeepsTypes ==
    ASSUME Client, TypeInv, NEW n \in Notifier, NotifierNext(n) PROVE TypeInv'
  <1> USE DEF client, cv
  <1>0. n \in Threads /\ TypeOK
    BY DEF Threads, TypeInv
  <1>1. CASE LockMutex(n)
    <2>1. Counted' = Counted
      BY <1>0, <1>1, StaysCounted DEF LockMutex, Places
    <2> QED
      BY <1>0, <1>1, <2>1, Moves DEF LockMutex, TypeInv, TypeOK, CountOK, Places, Threads
  <1>2. CASE Increment(n)
    <2>1. Counted' = Counted
      BY <1>0, <1>2, StaysCounted DEF Increment, Places
    <2> QED
      BY <1>0, <1>2, <2>1, Moves DEF Increment, TypeInv, TypeOK, CountOK, Places, Threads
  <1>3. CASE HaveWaiters(n)
    <2> DEFINE to == IF WaitersCount > 0 THEN "set" ELSE "unlock"
    <2>1. Step(n, "notify", to) /\ to \in Places /\ to \in {"set", "unlock"}
      BY <1>3 DEF HaveWaiters, Places
    <2> HIDE DEF to
    <2>2. Counted' = Counted
      BY <1>0, <2>1, StaysCounted
    <2> QED
      BY <1>0, <1>3, <2>1, <2>2, Moves DEF HaveWaiters, TypeInv, TypeOK, CountOK, Threads
  <1>4. CASE SetEvent(n)
    <2>1. Counted' = Counted
      BY <1>0, <1>4, StaysCounted DEF SetEvent, Places
    <2>2. EventAll' \in BOOLEAN /\ EventOne' \in BOOLEAN
      BY <1>4 DEF SetEvent
    <2> QED
      BY <1>0, <1>4, <2>1, <2>2, Moves DEF SetEvent, TypeInv, TypeOK, CountOK, Places, Threads
  <1>5. CASE UnlockMutex(n)
    <2>1. Counted' = Counted
      BY <1>0, <1>5, StaysCounted DEF UnlockMutex, Places
    <2> QED
      BY <1>0, <1>5, <2>1, Moves DEF UnlockMutex, TypeInv, TypeOK, CountOK, Places, Threads
  <1> QED
    BY <1>1, <1>2, <1>3, <1>4, <1>5 DEF NotifierNext

\* windows_thread.cpp, lines 78-100: for any client, whatever is notified, WaitersCount never counts
\* a waiter out that it has not counted in, and the client's counter never falls below zero.
THEOREM CountsWaiters == ASSUME Client PROVE Spec => []TypeOK
  <1>1. Init => TypeInv
    <2> SUFFICES ASSUME Init PROVE TypeInv
      OBVIOUS
    <2>1. Counted = {}
      BY DEF Init, Counted
    <2> QED
      BY <2>1, FS_EmptySet DEF Init, TypeInv, TypeOK, CountOK, Places
  <1>2. TypeInv /\ [Next]_vars => TypeInv'
    <2> SUFFICES ASSUME TypeInv, [Next]_vars PROVE TypeInv'
      OBVIOUS
    <2>1. CASE UNCHANGED vars
      BY <2>1 DEF vars, client, cv, TypeInv, TypeOK, CountOK, Counted
    <2> QED
      BY <2>1, WaiterKeepsTypes, NotifierKeepsTypes DEF Next, Finished
  <1>3. TypeInv => TypeOK
    BY DEF TypeInv
  <1> QED
    BY <1>1, <1>2, <1>3, PTL DEF Spec
=============================================================================
