--------------------------- MODULE ThreadsProofs ---------------------------
(***************************************************************************)
(* For every number of threads and statics, and whatever the initializers  *)
(* use: a static is constructed once, by one thread, before its first use. *)
(* Then what a behaviour of MCThreads keeps: it is one of each component,  *)
(* and has what the proofs of that component show; those about the files   *)
(* are here.                                                               *)
(***************************************************************************)
EXTENDS MCThreads, SequenceTheorems, FiniteSetTheorems, WellFoundedInduction, TLAPS

\* A thread that initializes a static, from the claim to the footer.
Owns(t, s) == at[t][s] \in {"construct", "footer"}

\* While a thread owns a static its guard says so, and nobody else does.
OwnersOK == \A t \in Thread, s \in Static :
                Owns(t, s) => /\ Once[s] = being_initialized
                              /\ \A u \in Thread : Owns(u, s) => u = t

\* What has been constructed is in its footer, or behind it.
ConstructedOK ==
    /\ \A t \in Thread, s \in Static : at[t][s] = "construct" => s \notin constructed
    /\ \A t \in Thread, s \in Static : at[t][s] = "footer" => s \in constructed
    /\ \A s \in Static : Once[s] \notin {uninitialized, being_initialized} => s \in constructed
    /\ \A s \in constructed : Once[s] # uninitialized

UsedOK == \A t \in Thread : used[t] \subseteq constructed

\* UsesConstructed does not say what the guard means for what has been constructed; this does.
IInv == TypeOK /\ OwnersOK /\ ConstructedOK /\ UsedOK

-----------------------------------------------------------------------------
\* Two facts about numbers: epochs are below the special values, and the next one is an epoch.
LEMMA EpochsBelow ==
    ASSUME TypeOK PROVE
    /\ GlobalEpoch \in Int /\ Epochs \subseteq Int
    /\ uninitialized \notin Epochs /\ being_initialized \notin Epochs /\ uninitialized # being_initialized
    /\ \A e \in Epochs : e < being_initialized /\ e < uninitialized
  <1>1. HalfRange \in Nat /\ HalfRange > 1
    BY StaticsAssumption
  <1>2. /\ GlobalEpoch \in Int /\ epoch_start <= GlobalEpoch /\ GlobalEpoch < -1
    BY DEF TypeOK, being_initialized
  <1> QED
    BY <1>1, <1>2 DEF Epochs, epoch_start, uninitialized, being_initialized

LEMMA InitOK == Init => IInv
  <1> SUFFICES ASSUME Init PROVE IInv
    OBVIOUS
  <1>1. HalfRange \in Nat /\ HalfRange > 1
    BY StaticsAssumption
  <1>2. epoch_start \in Int /\ epoch_start < being_initialized
    BY <1>1 DEF epoch_start, being_initialized
  <1>3. TypeOK
    <2>1. GlobalEpoch = epoch_start /\ epoch_start \in Epochs
      BY <1>2 DEF Init, Epochs
    <2>2. "out" \in Steps
      BY DEF Steps
    <2> QED
      BY <1>2, <2>1, <2>2 DEF Init, TypeOK
  <1>4. OwnersOK /\ ConstructedOK /\ UsedOK
    BY DEF Init, OwnersOK, Owns, ConstructedOK, UsedOK
  <1> QED
    BY <1>3, <1>4 DEF IInv

\* A step that moves one thread with one static, and leaves guards and epochs alone.
LEMMA OneMoves ==
    ASSUME IInv, NEW t \in Thread, NEW s \in Static, NEW step \in Steps,
           GoTo(t, s, step), step \notin {"construct", "footer"},
           UNCHANGED <<native, Once, GlobalEpoch, ThreadEpoch, constructed, aborts>>,
           used' = used \/ (Uses(t, s) /\ s \in constructed)
    PROVE  IInv'
  <1>1. \A u \in Thread, r \in Static : at'[u][r] = IF u = t /\ r = s THEN step ELSE at[u][r]
    BY DEF GoTo, IInv, TypeOK
  <1>2. at' \in [Thread -> [Static -> Steps]]
    BY DEF GoTo, IInv, TypeOK
  <1>3. used' \in [Thread -> SUBSET Static] /\ UsedOK'
    <2>1. CASE used' = used
      BY <2>1 DEF IInv, TypeOK, UsedOK
    <2>2. CASE Uses(t, s) /\ s \in constructed
      BY <2>2 DEF Uses, IInv, TypeOK, UsedOK
    <2> QED
      BY <2>1, <2>2
  <1>4. TypeOK'
    BY <1>2, <1>3 DEF IInv, TypeOK, Epochs
  <1>5. OwnersOK' /\ ConstructedOK'
    BY <1>1 DEF IInv, OwnersOK, Owns, ConstructedOK
  <1> QED
    BY <1>3, <1>4, <1>5 DEF IInv

\* A guard that is not above the epoch of a thread is that of a constructed static.
LEMMA GuardMeansConstructed ==
    ASSUME IInv, NEW t \in Thread, NEW s \in Static, ~Guard(t, s)
    PROVE  s \in constructed
  <1>1. ThreadEpoch[t] \in Epochs /\ Once[s] <= ThreadEpoch[t]
    <2>1. Once[s] \in Int /\ ThreadEpoch[t] \in Int
      BY EpochsBelow DEF IInv, TypeOK, uninitialized, being_initialized
    <2> QED
      BY <2>1 DEF Guard, IInv, TypeOK
  <1>2. Once[s] \notin {uninitialized, being_initialized}
    BY <1>1, EpochsBelow DEF IInv, uninitialized, being_initialized
  <1> QED
    BY <1>2 DEF IInv, ConstructedOK

LEMMA BeginKeeps ==
    ASSUME IInv, NEW t \in Thread, NEW s \in Static, Begin(t, s) PROVE IInv'
  <1>1. CASE Guard(t, s)
    <2>1. GoTo(t, s, "header") /\ used' = used
      BY <1>1 DEF Begin
    <2> QED
      BY <2>1, OneMoves DEF Begin, Steps
  <1>2. CASE ~Guard(t, s)
    <2>1. Uses(t, s) /\ UNCHANGED <<native, Once, GlobalEpoch, ThreadEpoch, at, constructed, aborts>>
      BY <1>2 DEF Begin
    <2>2. s \in constructed
      BY <1>2, GuardMeansConstructed
    <2>3. used' \in [Thread -> SUBSET Static] /\ UsedOK'
      BY <2>1, <2>2 DEF Uses, IInv, TypeOK, UsedOK
    <2>4. TypeOK'
      BY <2>1, <2>3 DEF IInv, TypeOK, Epochs
    <2>5. OwnersOK' /\ ConstructedOK'
      BY <2>1 DEF IInv, OwnersOK, Owns, ConstructedOK
    <2> QED
      BY <2>3, <2>4, <2>5 DEF IInv
  <1> QED
    BY <1>1, <1>2

LEMMA ClaimKeeps ==
    ASSUME IInv, NEW t \in Thread, NEW s \in Static, Claim(t, s),
           UNCHANGED <<native, GlobalEpoch, constructed, aborts>>
    PROVE  IInv'
  <1>1. \A u \in Thread, r \in Static : at'[u][r] = IF u = t /\ r = s THEN "construct" ELSE at[u][r]
    BY DEF Claim, GoTo, IInv, TypeOK
  <1>2. \A r \in Static : Once'[r] = IF r = s THEN being_initialized ELSE Once[r]
    BY DEF Claim, IInv, TypeOK
  <1>3. TypeOK'
    <2>1. at' \in [Thread -> [Static -> Steps]]
      BY DEF Claim, GoTo, IInv, TypeOK, Steps
    <2>2. Once' \in [Static -> {uninitialized, being_initialized} \cup (Epochs \ {epoch_start})]
      BY DEF Claim, IInv, TypeOK
    <2> QED
      BY <2>1, <2>2 DEF Claim, IInv, TypeOK, Epochs
  <1>4. Once[s] = uninitialized /\ uninitialized # being_initialized
    BY DEF Claim, uninitialized, being_initialized
  <1>5. \A u \in Thread : ~Owns(u, s)
    BY <1>4 DEF IInv, OwnersOK
  <1>6. s \notin constructed
    BY <1>4 DEF IInv, ConstructedOK
  <1>7. OwnersOK'
    BY <1>1, <1>2, <1>5 DEF IInv, OwnersOK, Owns
  <1>8. ConstructedOK'
    BY <1>1, <1>2, <1>4, <1>6 DEF IInv, TypeOK, ConstructedOK
  <1>9. UsedOK'
    BY DEF Claim, IInv, UsedOK
  <1> QED
    BY <1>3, <1>7, <1>8, <1>9 DEF IInv

\* What a thread does when it does not have to wait: it takes the epoch of all.
LEMMA SkipKeeps ==
    ASSUME IInv, NEW t \in Thread, NEW s \in Static, Skip(t, s),
           UNCHANGED <<native, GlobalEpoch, constructed, aborts>>
    PROVE  IInv'
  <1>1. \A u \in Thread, r \in Static : at'[u][r] = IF u = t /\ r = s THEN "out" ELSE at[u][r]
    BY DEF Skip, GoTo, IInv, TypeOK
  <1>2. s \in constructed
    BY DEF Skip, IInv, ConstructedOK
  <1>3. used' \in [Thread -> SUBSET Static] /\ UsedOK'
    BY <1>2 DEF Skip, Uses, IInv, TypeOK, UsedOK
  <1>4. TypeOK'
    <2>1. at' \in [Thread -> [Static -> Steps]]
      BY DEF Skip, GoTo, IInv, TypeOK, Steps
    <2>2. GlobalEpoch \in Epochs
      BY StaticsAssumption DEF IInv, TypeOK, Epochs, epoch_start
    <2>3. ThreadEpoch' \in [Thread -> Epochs]
      BY <2>2 DEF Skip, IInv, TypeOK
    <2> QED
      BY <1>3, <2>1, <2>3 DEF Skip, IInv, TypeOK, Epochs
  <1>5. OwnersOK' /\ ConstructedOK'
    BY <1>1 DEF Skip, IInv, OwnersOK, Owns, ConstructedOK
  <1> QED
    BY <1>3, <1>4, <1>5 DEF IInv

LEMMA HeaderKeeps ==
    ASSUME IInv, NEW t \in Thread, NEW s \in Static, Header(t, s) PROVE IInv'
  <1>1. CASE Claim(t, s)
    BY <1>1, ClaimKeeps DEF Header
  <1>2. CASE Wait(t, s)
    <2> DEFINE step == IF native THEN "asleep" ELSE "unlocked"
    <2>1. step \in Steps /\ step \notin {"construct", "footer"}
      BY DEF Steps
    <2>2. GoTo(t, s, step) /\ UNCHANGED <<native, Once, GlobalEpoch, ThreadEpoch, constructed, aborts, used>>
      BY <1>2 DEF Wait, Header
    <2> HIDE DEF step
    <2> QED
      BY <2>1, <2>2, OneMoves
  <1>3. CASE Skip(t, s)
    BY <1>3, SkipKeeps DEF Header
  <1> QED
    BY <1>1, <1>2, <1>3 DEF Header

LEMMA ConstructKeeps ==
    ASSUME IInv, NEW t \in Thread, NEW s \in Static, Construct(t, s) PROVE IInv'
  <1>1. \A u \in Thread, r \in Static : at'[u][r] = IF u = t /\ r = s THEN "footer" ELSE at[u][r]
    BY DEF Construct, GoTo, IInv, TypeOK
  <1>2. TypeOK'
    <2>1. at' \in [Thread -> [Static -> Steps]]
      BY DEF Construct, GoTo, IInv, TypeOK, Steps
    <2> QED
      BY <2>1 DEF Construct, IInv, TypeOK, Epochs
  <1>3. /\ Owns(t, s) /\ Once[s] = being_initialized /\ \A u \in Thread : Owns(u, s) => u = t
    BY DEF Construct, Owns, IInv, OwnersOK
  <1>4. OwnersOK'
    BY <1>1, <1>3 DEF Construct, IInv, OwnersOK, Owns
  <1>5. being_initialized # uninitialized
    BY DEF being_initialized, uninitialized
  <1>6. ConstructedOK'
    BY <1>1, <1>3, <1>5 DEF Construct, IInv, ConstructedOK, Owns
  <1>7. UsedOK'
    BY DEF Construct, IInv, UsedOK
  <1> QED
    BY <1>2, <1>4, <1>6, <1>7 DEF IInv

LEMMA AbortKeeps ==
    ASSUME IInv, NEW t \in Thread, NEW s \in Static, Abort(t, s) PROVE IInv'
  <1>1. \A u \in Thread, r \in Static : at'[u][r] = IF u = t /\ r = s THEN "notify" ELSE at[u][r]
    BY DEF Abort, GoTo, IInv, TypeOK
  <1>2. \A r \in Static : Once'[r] = IF r = s THEN uninitialized ELSE Once[r]
    BY DEF Abort, IInv, TypeOK
  <1>3. TypeOK'
    <2>1. at' \in [Thread -> [Static -> Steps]]
      BY DEF Abort, GoTo, IInv, TypeOK, Steps
    <2>2. Once' \in [Static -> {uninitialized, being_initialized} \cup (Epochs \ {epoch_start})]
      BY DEF Abort, IInv, TypeOK
    <2>3. aborts' \in Nat
      BY DEF Abort, IInv, TypeOK
    <2> QED
      BY <2>1, <2>2, <2>3 DEF Abort, IInv, TypeOK, Epochs
  <1>4. /\ \A u \in Thread : Owns(u, s) => u = t
        /\ s \notin constructed
    BY DEF Abort, Owns, IInv, OwnersOK, ConstructedOK
  <1>5. OwnersOK'
    BY <1>1, <1>2, <1>4 DEF IInv, OwnersOK, Owns
  <1>6. ConstructedOK'
    BY <1>1, <1>2, <1>4 DEF Abort, IInv, ConstructedOK
  <1>7. UsedOK'
    BY DEF Abort, IInv, UsedOK
  <1> QED
    BY <1>3, <1>5, <1>6, <1>7 DEF IInv

LEMMA FooterKeeps ==
    ASSUME IInv, NEW t \in Thread, NEW s \in Static, Footer(t, s) PROVE IInv'
  <1>1. \A u \in Thread, r \in Static : at'[u][r] = IF u = t /\ r = s THEN "notify" ELSE at[u][r]
    BY DEF Footer, GoTo, IInv, TypeOK
  <1>2. \A r \in Static : Once'[r] = IF r = s THEN GlobalEpoch + 1 ELSE Once[r]
    BY DEF Footer, IInv, TypeOK, NewEpoch
  <1>3. s \in constructed /\ \A u \in Thread : Owns(u, s) => u = t
    BY DEF Footer, Owns, IInv, OwnersOK, ConstructedOK
  <1>4. /\ GlobalEpoch + 1 \in Epochs' \ {epoch_start} /\ Epochs \subseteq Epochs'
        /\ GlobalEpoch + 1 \notin {uninitialized, being_initialized}
        /\ GlobalEpoch' \in Int /\ epoch_start <= GlobalEpoch' /\ GlobalEpoch' < being_initialized
    BY StaticsAssumption DEF Footer, IInv, TypeOK, Epochs, epoch_start, uninitialized, being_initialized
  <1>5. used' \in [Thread -> SUBSET Static] /\ UsedOK'
    BY <1>3 DEF Footer, Uses, IInv, TypeOK, UsedOK
  <1>6. TypeOK'
    <2>1. at' \in [Thread -> [Static -> Steps]]
      BY DEF Footer, GoTo, IInv, TypeOK, Steps
    <2>2. Once' \in [Static -> {uninitialized, being_initialized} \cup (Epochs' \ {epoch_start})]
      BY <1>4 DEF Footer, NewEpoch, IInv, TypeOK
    <2>3. ThreadEpoch' \in [Thread -> Epochs']
      BY <1>4 DEF Footer, IInv, TypeOK
    <2> QED
      BY <1>4, <1>5, <2>1, <2>2, <2>3 DEF Footer, IInv, TypeOK
  <1>7. OwnersOK'
    BY <1>1, <1>2, <1>3 DEF IInv, OwnersOK, Owns
  <1>8. ConstructedOK'
    BY <1>1, <1>2, <1>3, <1>4 DEF Footer, IInv, ConstructedOK
  <1> QED
    BY <1>5, <1>6, <1>7, <1>8 DEF IInv

\* Threads that wake up own nothing yet, and the thread that wakes them has nothing any more.
LEMMA NotifyKeeps ==
    ASSUME IInv, NEW t \in Thread, NEW s \in Static, Notify(t, s) PROVE IInv'
  <1>1. PICK woken \in SUBSET Thread :
            at' = [u \in Thread |-> [r \in Static |->
                      IF u = t /\ r = s THEN "out"
                      ELSE IF u \in woken /\ at[u][r] = "asleep" THEN "relock" ELSE at[u][r]]]
    BY DEF Notify
  <1>2. at' \in [Thread -> [Static -> Steps]]
    BY <1>1 DEF IInv, TypeOK, Steps
  <1>3. TypeOK' /\ UsedOK'
    BY <1>2 DEF Notify, IInv, TypeOK, UsedOK, Epochs
  <1>4. \A u \in Thread, r \in Static : at'[u][r] \in {"construct", "footer"} => at'[u][r] = at[u][r]
    BY <1>1
  <1>5. OwnersOK' /\ ConstructedOK'
    BY <1>4 DEF Notify, IInv, OwnersOK, Owns, ConstructedOK
  <1> QED
    BY <1>3, <1>5 DEF IInv

LEMMA NextKeeps == IInv /\ [Next]_vars => IInv'
  <1> SUFFICES ASSUME IInv, [Next]_vars PROVE IInv'
    OBVIOUS
  <1>1. CASE UNCHANGED vars
    BY <1>1 DEF vars, IInv, TypeOK, OwnersOK, Owns, ConstructedOK, UsedOK, Epochs
  <1>2. ASSUME NEW t \in Thread, GoesOn(t) PROVE IInv'
    <2>1. PICK s \in Static : \/ Header(t, s) \/ Sleep(t, s) \/ TimeOut(t, s) \/ Construct(t, s)
                              \/ Footer(t, s) \/ Notify(t, s) \/ Begin(t, s)
      BY <1>2 DEF GoesOn
    <2>2. CASE Sleep(t, s)
      BY <2>2, OneMoves DEF Sleep, Steps
    <2>3. CASE TimeOut(t, s)
      BY <2>3, OneMoves DEF TimeOut, Steps
    <2> QED
      BY <2>1, <2>2, <2>3, HeaderKeeps, ConstructKeeps, FooterKeeps, NotifyKeeps, BeginKeeps
  <1>3. ASSUME NEW t \in Thread, NEW s \in Static, Begin(t, s) \/ Abort(t, s) PROVE IInv'
    BY <1>3, BeginKeeps, AbortKeeps
  <1> QED
    BY <1>1, <1>2, <1>3 DEF Next

LEMMA IInvHolds == Spec => []IInv
  <1> QED
    BY InitOK, NextKeeps, PTL DEF Spec

-----------------------------------------------------------------------------
\* thread_safe_statics.cpp: the test of the guard without the lock is enough.  A thread that goes on
\* to use a static finds it constructed, and no initializer runs twice at a time or again after it
\* completed, however many threads, statics and exceptions there are.
THEOREM StaticsConstructedOnce == Spec => []UsesConstructed
  <1>1. IInv => UsesConstructed
    BY DEF IInv, OwnersOK, Owns, ConstructedOK, UsedOK, UsesConstructed, Running
  <1> QED
    BY <1>1, IInvHolds, PTL

\* Types are kept, where _Init_thread_footer (line 216) ends before the counter reaches the special
\* values, as the model bounds it: guards and epochs of threads are epochs that were given out.
THEOREM StaticsTyped == Spec => []TypeOK
  <1>1. IInv => TypeOK
    BY DEF IInv
  <1> QED
    BY <1>1, IInvHolds, PTL

-----------------------------------------------------------------------------
(* The components of MCThreads. *)

Waking == INSTANCE ConditionVariableProofs WITH Need <- MCNeed, at <- place
Storing == INSTANCE PlatformTempProofs WITH Thread <- Converter

\* A behaviour of all of them is one of each.
LEMMA IsOfStatics == AllSpec => Spec
  <1>1. AllInit => Init
    BY DEF AllInit
  <1>2. [AllNext]_all => [Next]_vars
    BY DEF AllNext, OfStatics, OfCondition, OfStorage, OfFiles, Of, all
  <1> QED
    BY <1>1, <1>2, PTL DEF AllSpec, Spec

LEMMA IsOfCondition == AllSpec => Waking!Spec
  <1>1. AllInit => Waking!Init
    BY DEF AllInit, Condition!Init, Waking!Init
  <1>2. Condition!Next => Waking!Next
    BY DEF Condition!Next, Waking!Next,
       Condition!WaiterNext, Condition!LockMutex, Condition!Leave, Condition!PreWait,
       Condition!UnlockToWait, Condition!Wake, Condition!CountOut, Condition!ResetAll,
       Condition!NotifierNext, Condition!Increment, Condition!HaveWaiters, Condition!SetEvent,
       Condition!UnlockMutex, Condition!Finished, Condition!Step, Condition!IsLast,
       Condition!client, Condition!cv, Condition!vars,
       Waking!WaiterNext, Waking!LockMutex, Waking!Leave, Waking!PreWait,
       Waking!UnlockToWait, Waking!Wake, Waking!CountOut, Waking!ResetAll,
       Waking!NotifierNext, Waking!Increment, Waking!HaveWaiters, Waking!SetEvent,
       Waking!UnlockMutex, Waking!Finished, Waking!Step, Waking!IsLast,
       Waking!client, Waking!cv, Waking!vars
  <1>3. [AllNext]_all => [Waking!Next]_(Waking!vars)
    BY <1>2 DEF AllNext, OfStatics, OfCondition, OfStorage, OfFiles, Of, all, condition,
                Waking!vars, Waking!client, Waking!cv
  <1> QED
    BY <1>1, <1>3, PTL DEF AllSpec, Waking!Spec

LEMMA IsOfStorage == AllSpec => Storing!Spec
  <1>1. AllInit => Storing!Init
    BY DEF AllInit, Temporary!Init, Temporary!NewStorage, Temporary!Idle,
       Temporary!AddPool, Temporary!NoPools,
       Storing!Init, Storing!NewStorage, Storing!Idle, Storing!AddPool, Storing!NoPools
  <1>2. \A A, n : /\ Temporary!AllocatedBlock(A, n) = Storing!AllocatedBlock(A, n)
                 /\ Temporary!AfterAllocate(A, n) = Storing!AfterAllocate(A, n)
                 /\ Temporary!Emptied(A) = Storing!Emptied(A)
                 /\ Temporary!NewStorage(A, n) = Storing!NewStorage(A, n)
    BY DEF Temporary!AllocatedBlock, Temporary!AfterAllocate, Temporary!Emptied,
           Storing!AllocatedBlock, Storing!AfterAllocate, Storing!Emptied,
           Temporary!NewStorage, Temporary!AddPool, Temporary!NoPools, Temporary!Fits, Temporary!ChosenPool, Temporary!HasRoom,
           Storing!NewStorage, Storing!AddPool, Storing!NoPools, Storing!Fits, Storing!ChosenPool, Storing!HasRoom
  <1>3. ASSUME NEW t \in Converter
        PROVE  Temporary!Allocating(t) => Storing!Allocating(t)
    <2>1. Temporary!Try(t) => Storing!Try(t)
      BY <1>2 DEF Temporary!Try, Temporary!Choose, Temporary!At, Temporary!Live,
                  Storing!Try, Storing!Choose, Storing!At, Storing!Live
    <2>2. Temporary!TryAgain(t) => Storing!TryAgain(t)
      BY <1>2 DEF Temporary!TryAgain, Temporary!Choose, Temporary!At, Temporary!Live,
                  Storing!TryAgain, Storing!Choose, Storing!At, Storing!Live
    <2>3. Temporary!FirstFill(t) => Storing!FirstFill(t)
      BY <1>2 DEF Temporary!FirstFill, Temporary!Fill, Temporary!At, Temporary!GoTo,
                  Storing!FirstFill, Storing!Fill, Storing!At, Storing!GoTo
    <2>4. Temporary!FillAgain(t) => Storing!FillAgain(t)
      BY <1>2 DEF Temporary!FillAgain, Temporary!Fill, Temporary!At, Temporary!GoTo,
                  Storing!FillAgain, Storing!Fill, Storing!At, Storing!GoTo
    <2>5. Temporary!Empty(t) => Storing!Empty(t)
      BY <1>2 DEF Temporary!Empty, Temporary!CanLock, Temporary!At, Temporary!GoTo, Storing!Empty, Storing!CanLock, Storing!At, Storing!GoTo
    <2>6. Temporary!Grow(t) => Storing!Grow(t)
      BY <1>2 DEF Temporary!Grow, Temporary!CanLock, Temporary!At, Temporary!GoTo, Storing!Grow, Storing!CanLock, Storing!At, Storing!GoTo
    <2>7. Temporary!Lock(t) => Storing!Lock(t)
      BY DEF Temporary!Lock, Temporary!CanLock, Temporary!At, Temporary!GoTo, Storing!Lock, Storing!CanLock, Storing!At, Storing!GoTo
    <2>8. Temporary!Return(t) => Storing!Return(t)
      BY DEF Temporary!Return, Temporary!At, Temporary!GoTo, Storing!Return, Storing!At, Storing!GoTo
    <2> QED
      BY <2>1, <2>2, <2>3, <2>4, <2>5, <2>6, <2>7, <2>8 DEF Temporary!Allocating, Storing!Allocating
  <1>4. Temporary!Next => Storing!Next
    <2>1. \A t \in Converter, n \in Sizes : Temporary!Convert(t, n) => Storing!Convert(t, n)
      BY DEF Temporary!Convert, Temporary!At, Temporary!Cardinality,
             Storing!Convert, Storing!At, Storing!Cardinality
    <2> QED
      BY <1>3, <2>1 DEF Temporary!Next, Storing!Next
  <1>5. [AllNext]_all => [Storing!Next]_(Storing!vars)
    BY <1>4 DEF AllNext, OfStatics, OfCondition, OfStorage, OfFiles, Of, all, storage, Storing!vars
  <1> QED
    BY <1>1, <1>5, PTL DEF AllSpec, Storing!Spec

-----------------------------------------------------------------------------
(***************************************************************************)
(* Files: the open handles are those of the calls that have a file open,   *)
(* two of which are open on one path only to read; everything lies in a    *)
(* directory; and a walk has listed, or will still come to, what stays.    *)
(***************************************************************************)
Fields == {"op", "step", "path", "dest", "may", "mode", "data", "pointer", "seen", "walkers", "listed", "missed", "ok"}

Opened(c) == c.step \in {"opened", "sized", "positioned"}

\* What is known of a call by its place.
PlaceOK(c) ==
    /\ c.op \notin {"idle", "walk"} => c.path \in Path
    /\ c.op = "rename" => c.may = FALSE
    /\ c.step = "opened" => c.op \in {"read", "file_size", "write"}
    /\ c.step = "sized" => c.op = "read" /\ c.pointer \in {0, Len(c.seen)} /\ (c.missed = {} => c.pointer = Len(c.seen))
    /\ c.step = "positioned" => c.op = "write"
    /\ c.op = "read" /\ c.step = "done" /\ c.ok /\ c.missed = {} => c.data = c.seen
    /\ c.op = "read" /\ c.step = "asserted" => Len(c.seen) >= SizeLimit

HandleOf(p, c) == [by |-> p, path |-> c.path, access |-> IF c.op = "write" THEN "write" ELSE "read",
                   share |-> IF c.op = "write" THEN {} ELSE {"read"}]

CallsOK == DOMAIN calls = Process /\ \A p \in Process : DOMAIN calls[p] = Fields
PlacesOK == \A p \in Process : PlaceOK(calls[p])
HandlesOK == handles = {HandleOf(p, calls[p]) : p \in {q \in Process : Opened(calls[q])}}
SharedOK == \A p, q \in Process :
    p # q /\ Opened(calls[p]) /\ Opened(calls[q]) /\ calls[p].path = calls[q].path => calls[p].op # "write"
SeenOK == \A p \in Process : Opened(calls[p]) => /\ calls[p].path \in DOMAIN files
                                                  /\ files[calls[p].path] = calls[p].seen
OpenInv == CallsOK /\ PlacesOK /\ HandlesOK /\ SharedOK /\ SeenOK

Places == Path \cup {Root}
TreeOK == /\ Root \in dirs /\ dirs \subseteq Places /\ DOMAIN files \subseteq Path
          /\ \A x \in OnDisk!Existing \ {Root} : OnDisk!Parent(x) \in dirs

\* A walk with walkers W that has listed L.
Walkers == Seq([dir : Places, entries : SUBSET Places])
Taken(W, e) == [W EXCEPT ![Len(W)].entries = @ \ {e}]
Known(L) == {Root} \cup OnDisk!ToSet(L)
WalkOK(W, L) ==
    /\ OnDisk!IsInjective(L)
    /\ \A i, j \in 1..Len(W) : W[i].dir = W[j].dir => i = j
    /\ \A i \in 1..Len(W) : /\ W[i].dir \in Known(L)
                            /\ \A e \in W[i].entries : OnDisk!Parent(e) = W[i].dir /\ e \notin Known(L)
    /\ \A x \in OnDisk!ToSet(L) : OnDisk!Parent(x) \in Known(L)
\* Nothing under the directory was listed yet, or is waiting to be.
Fresh(W, L, dir) == /\ dir \in Known(L)
                    /\ \A i \in 1..Len(W) : W[i].dir # dir
                    /\ \A x \in OnDisk!ToSet(L) : OnDisk!Parent(x) # dir
\* What S has is listed, waits in a walker, lies in one of the directories D that are walked next, or
\* under something that is not listed yet itself.
Reaches(S, W, L, D) == \A x \in S : \/ x \in OnDisk!ToSet(L)
                                    \/ \E i \in 1..Len(W) : x \in W[i].entries
                                    \/ OnDisk!Parent(x) \in D
                                    \/ OnDisk!Parent(x) \notin Known(L)

\* The directories that a walk need not list as a whole: that it enters next, and those it has missed.
ToEnter(c) == c.missed \cup (IF c.step \in {"enter", "find", "listed"} THEN {c.path} ELSE {})
WalkInv(c, S) ==
    /\ c.walkers \in Walkers /\ c.listed \in Seq(Places) /\ WalkOK(c.walkers, c.listed)
    /\ c.step \in {"enter", "find", "next", "listed", "done", "asserted"}
    /\ c.step \in {"enter", "find", "listed"} => c.path \in Places /\ Fresh(c.walkers, c.listed, c.path)
    /\ c.step \in {"next", "listed"} => c.walkers # <<>>
    /\ c.step = "done" => c.walkers = <<>>
    /\ c.step # "asserted" => Reaches(S, c.walkers, c.listed, ToEnter(c))
WalksOK == \A p \in Process : calls[p].op = "walk" => WalkInv(calls[p], stable[p])
StableOK == \A p \in Process : /\ stable[p] \subseteq OnDisk!Existing \ {Root}
                               /\ \A x \in stable[p] : OnDisk!Parent(x) \in stable[p] \cup {Root}
MadeOK == made \in [Process -> Nat]

\* What files hold, and what calls have seen of them, is what was there at first or what is written.
Bytes == OnDisk!ToSet(Data) \cup UNION {OnDisk!ToSet(InitialFiles[f]) : f \in DOMAIN InitialFiles}
HeldOK == /\ \A f \in DOMAIN files : files[f] \in Seq(Bytes)
          /\ \A p \in Process : LET c == calls[p]
                                IN  /\ c.seen \in Seq(Bytes)
                                    /\ c.op = "write" => c.data = Data
                                    /\ c.step = "positioned" => c.pointer \in 0..Len(c.seen)

DiskInv == OpenInv /\ TreeOK /\ WalksOK /\ StableOK /\ MadeOK /\ HeldOK

\* Only the call of p changes, and of it only the fields F.
Changes(p, F) == /\ CallsOK'
                 /\ \A q \in Process \ {p} : calls'[q] = calls[q]
                 /\ \A x \in Fields \ F : calls'[p][x] = calls[p][x]

LEMMA OpenToReadDoes ==
    ASSUME CallsOK, NEW p \in Process, OnDisk!OpenToRead(p)
    PROVE  /\ Changes(p, {"step", "seen"})
           /\ calls'[p].step = "opened" /\ calls'[p].seen = files[calls[p].path]
  BY DEF CallsOK, Changes, Fields, OnDisk!OpenToRead

LEMMA GetFileSizeDoes ==
    ASSUME CallsOK, NEW p \in Process, OnDisk!GetFileSize(p)
    PROVE  /\ Changes(p, {"step", "pointer", "missed", "ok"})
           /\ calls'[p].step = IF calls[p].op = "read" THEN "sized" ELSE "done"
           /\ \/ calls'[p].pointer = Len(files[calls[p].path])
              \/ calls'[p].pointer = 0 /\ calls'[p].missed # {}
  <1>1. PICK granted \in BOOLEAN : OnDisk!Sized(p, granted)
    BY DEF OnDisk!GetFileSize
  <1>2. PICK size, missed :
           /\ calls' = [calls EXCEPT ![p].step = IF calls[p].op = "read" THEN "sized" ELSE "done", ![p].ok = TRUE,
                                     ![p].pointer = size, ![p].missed = missed]
           /\ size = Len(files[calls[p].path]) \/ (size = 0 /\ missed # {})
    BY <1>1 DEF OnDisk!Sized, OnDisk!Missed
  <1> QED
    BY <1>2 DEF CallsOK, Changes, Fields

LEMMA ReadFileDoes ==
    ASSUME CallsOK, NEW p \in Process, OnDisk!ReadFile(p)
    PROVE  /\ Changes(p, {"step", "ok", "data"})
           /\ calls'[p].step = IF calls[p].pointer % SizeLimit = calls[p].pointer THEN "done" ELSE "asserted"
           /\ calls'[p].data = SubSeq(files[calls[p].path], 1, calls[p].pointer % SizeLimit)
  BY DEF CallsOK, Changes, Fields, OnDisk!ReadFile

LEMMA OpenToWriteDoes ==
    ASSUME CallsOK, NEW p \in Process, OnDisk!OpenToWrite(p)
    PROVE  /\ Changes(p, {"step", "seen"})
           /\ calls'[p].step = "opened" /\ calls'[p].seen = files'[calls[p].path]
  BY DEF CallsOK, Changes, Fields, OnDisk!OpenToWrite

LEMMA PositionDoes ==
    ASSUME CallsOK, NEW p \in Process, OnDisk!Position(p)
    PROVE  /\ Changes(p, {"step", "seen", "pointer", "missed"})
           /\ calls'[p].step = "positioned" /\ calls'[p].seen = files'[calls[p].path]
           /\ \/ files' = IF calls[p].mode = "Overwrite_Entire" THEN OnDisk!With(calls[p].path, <<>>) ELSE files
              \/ files' = files
           /\ calls'[p].pointer \in IF calls[p].mode = "Append" THEN {0, Len(files[calls[p].path])} ELSE {0}
  <1>1. PICK granted \in BOOLEAN :
           /\ files' = IF granted /\ calls[p].mode = "Overwrite_Entire" THEN OnDisk!With(calls[p].path, <<>>) ELSE files
           /\ calls' = [calls EXCEPT ![p].step = "positioned", ![p].seen = files'[calls[p].path],
                           ![p].pointer = IF granted /\ calls[p].mode = "Append" THEN Len(files[calls[p].path]) ELSE 0,
                           ![p].missed = OnDisk!Missed(p, ~granted)]
    BY DEF OnDisk!Position
  <1>2. PICK pointer, missed, seen :
           /\ calls' = [calls EXCEPT ![p].step = "positioned", ![p].seen = seen, ![p].pointer = pointer,
                                     ![p].missed = missed]
           /\ pointer \in IF calls[p].mode = "Append" THEN {0, Len(files[calls[p].path])} ELSE {0}
           /\ seen = files'[calls[p].path]
    BY <1>1
  <1>3. /\ Changes(p, {"step", "seen", "pointer", "missed"})
        /\ calls'[p].step = "positioned" /\ calls'[p].seen = seen /\ calls'[p].pointer = pointer
    <2>1. calls' = [calls EXCEPT ![p].step = "positioned", ![p].seen = seen, ![p].pointer = pointer,
                                 ![p].missed = missed]
      BY <1>2
    <2> QED
      BY <2>1 DEF CallsOK, Changes, Fields
  <1>4. \/ files' = IF calls[p].mode = "Overwrite_Entire" THEN OnDisk!With(calls[p].path, <<>>) ELSE files
        \/ files' = files
    BY <1>1
  <1> QED
    BY <1>2, <1>3, <1>4

LEMMA ReturnDoes ==
    ASSUME CallsOK, NEW p \in Process, NEW r, OnDisk!Return(p, r)
    PROVE  Changes(p, {"step", "ok"}) /\ calls'[p].step = "done" /\ calls'[p].ok = r
  BY DEF CallsOK, Changes, Fields, OnDisk!Return

LEMMA GoToDoes ==
    ASSUME CallsOK, NEW p \in Process, NEW s, OnDisk!GoTo(p, s)
    PROVE  Changes(p, {"step"}) /\ calls'[p].step = s
  BY DEF CallsOK, Changes, Fields, OnDisk!GoTo

LEMMA TargetDoes ==
    ASSUME CallsOK, NEW p \in Process, OnDisk!Target(p)
    PROVE  Changes(p, {"step", "dest"}) /\ calls'[p].step = "act"
  <1>1. PICK dest : calls' = [calls EXCEPT ![p].step = "act", ![p].dest = dest]
    BY DEF OnDisk!Target
  <1> QED
    BY <1>1 DEF CallsOK, Changes, Fields

LEMMA EnterDirectoryDoes ==
    ASSUME CallsOK, NEW p \in Process, OnDisk!EnterDirectory(p)
    PROVE  Changes(p, {"step"}) /\ calls'[p].step \in {"find", "asserted"}
  <1>1. PICK s \in {"find", "asserted"} : OnDisk!GoTo(p, s)
    BY DEF OnDisk!EnterDirectory
  <1> QED
    BY <1>1, GoToDoes

LEMMA FindFirstDoes ==
    ASSUME CallsOK, NEW p \in Process, OnDisk!FindFirst(p)
    PROVE  /\ Changes(p, {"step", "walkers", "missed", "ok"})
           /\ \/ /\ OnDisk!IsDirectory(calls[p].path) /\ calls'[p].step = "next"
                 /\ calls'[p].walkers = Append(calls[p].walkers, OnDisk!Walker(calls[p].path))
                 /\ calls'[p].missed = calls[p].missed
              \/ /\ calls'[p].walkers = calls[p].walkers
                 /\ calls'[p].step = OnDisk!GoesOn(calls[p].walkers)
                 /\ calls'[p].missed = calls[p].missed \cup {calls[p].path}
  BY DEF CallsOK, Changes, Fields, OnDisk!FindFirst, OnDisk!Missed

LEMMA EndDirectoryDoes ==
    ASSUME CallsOK, NEW p \in Process, OnDisk!EndDirectory(p)
    PROVE  /\ Changes(p, {"step", "walkers", "missed", "ok"})
           /\ calls'[p].walkers = OnDisk!Leave(calls[p].walkers)
           /\ calls'[p].step = OnDisk!GoesOn(OnDisk!Leave(calls[p].walkers))
           /\ calls'[p].missed = IF OnDisk!Last(calls[p].walkers).entries = {} THEN calls[p].missed
                                 ELSE calls[p].missed \cup {OnDisk!Last(calls[p].walkers).dir}
  BY DEF CallsOK, Changes, Fields, OnDisk!EndDirectory

LEMMA EntryIsDirectoryDoes ==
    ASSUME CallsOK, NEW p \in Process, OnDisk!EntryIsDirectory(p)
    PROVE  /\ Changes(p, {"step", "missed"})
           /\ \/ calls'[p].step = "enter" /\ calls'[p].missed = calls[p].missed
              \/ /\ calls'[p].step = "next" /\ calls[p].missed \subseteq calls'[p].missed
                 /\ OnDisk!IsDirectory(calls[p].path) => calls[p].path \in calls'[p].missed
  <1>1. PICK s, missed :
           /\ calls' = [calls EXCEPT ![p].step = s, ![p].missed = missed]
           /\ \/ s = "enter" /\ missed = calls[p].missed
              \/ /\ s = "next" /\ calls[p].missed \subseteq missed
                 /\ OnDisk!IsDirectory(calls[p].path) => calls[p].path \in missed
    <2>1. PICK seen \in {OnDisk!IsDirectory(calls[p].path), FALSE} :
             calls' = [calls EXCEPT ![p].step = IF seen THEN "enter" ELSE "next",
                                    ![p].missed = OnDisk!Missed(p, seen # OnDisk!IsDirectory(calls[p].path))]
      BY DEF OnDisk!EntryIsDirectory, OnDisk!Looks
    <2>2. CASE seen
      BY <2>1, <2>2 DEF OnDisk!Missed
    <2>3. CASE ~seen
      BY ZenonT(40), <2>1, <2>3 DEF OnDisk!Missed
    <2> QED
      BY <2>2, <2>3
  <1> QED
    BY <1>1 DEF CallsOK, Changes, Fields

LEMMA ReadNextEntryDoes ==
    ASSUME CallsOK, NEW p \in Process, OnDisk!ReadNextEntry(p), calls[p].walkers \in Walkers, calls[p].walkers # <<>>
    PROVE  /\ Changes(p, {"step", "path", "listed", "walkers"})
           /\ calls'[p].step = "listed"
           /\ \E e \in OnDisk!Last(calls[p].walkers).entries :
                 /\ calls'[p].path = e /\ calls'[p].listed = Append(calls[p].listed, e)
                 /\ calls'[p].walkers = Taken(calls[p].walkers, e)
  <1>1. PICK e \in OnDisk!Last(calls[p].walkers).entries :
           calls' = [calls EXCEPT ![p].walkers[Len(calls[p].walkers)].entries = @ \ {e},
                                  ![p].listed = Append(@, e), ![p].path = e, ![p].step = "listed"]
    BY DEF OnDisk!ReadNextEntry
  <1>2. Changes(p, {"step", "path", "listed", "walkers"}) /\ calls'[p].step = "listed"
    BY <1>1 DEF CallsOK, Changes, Fields
  <1>3. calls'[p].path = e /\ calls'[p].listed = Append(calls[p].listed, e)
    BY <1>1 DEF CallsOK, Fields
  <1>4. calls'[p].walkers = Taken(calls[p].walkers, e)
    BY <1>1 DEF CallsOK, Fields, Walkers, Taken
  <1> QED
    BY <1>2, <1>3, <1>4

LEMMA CallDoes ==
    ASSUME CallsOK, MadeOK, NEW p \in Process, NEW c, DOMAIN c = Fields, OnDisk!Call(p, c)
    PROVE  /\ CallsOK' /\ \A q \in Process \ {p} : calls'[q] = calls[q]
           /\ calls'[p] = c /\ calls[p].step = "done"
           /\ MadeOK' /\ made'[p] # made[p] /\ \A q \in Process \ {p} : made'[q] = made[q]
  BY DEF CallsOK, MadeOK, OnDisk!Call, OnDisk!IsDone

LEMMA LessIsWellFounded == \E R : /\ IsWellFoundedOn(R, Nat)
                                  /\ \A a, b \in Nat : a < b => <<a, b>> \in R
  <1>1. IsWellFoundedOn({ss \in Nat \X Nat : ss[1] < ss[2]}, Nat)
    BY NatLessThanWellFounded DEF OpToRel
  <1>2. QED
    BY <1>1

LEMMA MinimumExists ==
    ASSUME NEW R, IsWellFoundedOn(R, Nat), NEW T, T \subseteq Nat, T # {}
    PROVE  \E x \in T : \A y \in T : ~ (<<y, x>> \in R)
  BY WFMin, Zenon

\* A call that has a file open has its handle, and no other handle is there.
LEMMA OpenHasHandle ==
    ASSUME HandlesOK, NEW q \in Process, Opened(calls[q])
    PROVE  \E h \in handles : /\ h.by = q /\ h.path = calls[q].path
                              /\ h.access = IF calls[q].op = "write" THEN "write" ELSE "read"
                              /\ h.share = IF calls[q].op = "write" THEN {} ELSE {"read"}
  <1>1. HandleOf(q, calls[q]) \in handles
    BY DEF HandlesOK
  <1> QED
    BY <1>1 DEF HandleOf

LEMMA ClosedHasNone ==
    ASSUME HandlesOK, NEW p \in Process, ~Opened(calls[p])
    PROVE  OnDisk!WithoutHandles(p) = handles
  BY DEF HandlesOK, HandleOf, OnDisk!WithoutHandles

\* Files that no other call has open may change, and a call may open one that nobody has open
\* in a way it cannot share.
LEMMA OpenStep ==
    ASSUME OpenInv, NEW p \in Process, CallsOK', \A q \in Process \ {p} : calls'[q] = calls[q],
           PlaceOK(calls'[p]),
           handles' = OnDisk!WithoutHandles(p) \cup (IF Opened(calls'[p]) THEN {HandleOf(p, calls'[p])} ELSE {}),
           \A q \in Process \ {p} : Opened(calls[q]) =>
               calls[q].path \in DOMAIN files' /\ files'[calls[q].path] = files[calls[q].path],
           Opened(calls'[p]) =>
               /\ calls'[p].path \in DOMAIN files' /\ files'[calls'[p].path] = calls'[p].seen
               /\ \A q \in Process \ {p} : Opened(calls[q]) /\ calls[q].path = calls'[p].path =>
                      calls[q].op # "write" /\ calls'[p].op # "write"
    PROVE  OpenInv'
  <1>1. CallsOK /\ PlacesOK /\ HandlesOK /\ SharedOK /\ SeenOK
    BY DEF OpenInv
  <1>2. PlacesOK'
    BY <1>1 DEF PlacesOK
  <1>3. HandlesOK'
    <2>1. OnDisk!WithoutHandles(p) = {HandleOf(q, calls[q]) : q \in {r \in Process \ {p} : Opened(calls[r])}}
      BY <1>1 DEF HandlesOK, HandleOf, OnDisk!WithoutHandles
    <2>2. ASSUME NEW h PROVE (h \in handles') <=> (\E q \in Process : Opened(calls'[q]) /\ h = HandleOf(q, calls'[q]))
      BY <2>1
    <2>3. handles' = {HandleOf(q, calls'[q]) : q \in {r \in Process : Opened(calls'[r])}}
      BY <2>2
    <2> QED
      BY <2>3 DEF HandlesOK
  <1>4. SharedOK'
    BY <1>1 DEF SharedOK
  <1>5. SeenOK'
    BY <1>1 DEF SeenOK
  <1> QED
    BY <1>2, <1>3, <1>4, <1>5 DEF OpenInv

\* A call that has no file open, and opens none.
LEMMA ClosedStep ==
    ASSUME OpenInv, NEW p \in Process, CallsOK', \A q \in Process \ {p} : calls'[q] = calls[q],
           PlaceOK(calls'[p]), ~Opened(calls[p]), ~Opened(calls'[p]), handles' = handles,
           \A f \in DOMAIN files : (\E h \in handles : h.path = f) => f \in DOMAIN files' /\ files'[f] = files[f]
    PROVE  OpenInv'
  <1>1. HandlesOK /\ SeenOK
    BY DEF OpenInv
  <1>2. \A q \in Process : Opened(calls[q]) => \E h \in handles : h.path = calls[q].path
    BY <1>1, OpenHasHandle
  <1>3. handles' = OnDisk!WithoutHandles(p)
    BY <1>1, ClosedHasNone
  <1>4. \A q \in Process \ {p} : Opened(calls[q]) =>
               calls[q].path \in DOMAIN files' /\ files'[calls[q].path] = files[calls[q].path]
    BY <1>1, <1>2 DEF SeenOK
  <1> QED
    BY <1>3, <1>4, OpenStep

LEMMA OpenToReadOpens ==
    ASSUME OpenInv, NEW p \in Process, OnDisk!OpenToRead(p) PROVE OpenInv'
  <1>1. CallsOK /\ PlacesOK /\ HandlesOK /\ SharedOK /\ SeenOK
    BY DEF OpenInv
  <1>2. /\ CallsOK' /\ \A q \in Process \ {p} : calls'[q] = calls[q]
        /\ calls'[p].op = calls[p].op /\ calls'[p].path = calls[p].path /\ calls'[p].may = calls[p].may
        /\ calls'[p].step = "opened" /\ calls'[p].seen = files[calls[p].path]
    BY <1>1, OpenToReadDoes DEF Changes, Fields
  <1>3. /\ calls[p].op \in {"read", "file_size"} /\ calls[p].step = "open"
        /\ OnDisk!CanOpen(calls[p].path, "read", {"read"})
        /\ handles' = handles \cup {OnDisk!Handle(p, "read", {"read"})} /\ files' = files
    BY DEF OnDisk!OpenToRead, OnDisk!ReadShare
  <1>4. Opened(calls'[p]) /\ ~Opened(calls[p]) /\ PlaceOK(calls'[p])
    BY <1>1, <1>2, <1>3 DEF Opened, PlacesOK, PlaceOK
  <1>5. handles' = OnDisk!WithoutHandles(p) \cup {HandleOf(p, calls'[p])}
    <2>1. OnDisk!Handle(p, "read", {"read"}) = HandleOf(p, calls'[p])
      BY <1>2, <1>3 DEF OnDisk!Handle, HandleOf
    <2> QED
      BY <2>1, <1>1, <1>3, <1>4, ClosedHasNone
  <1>6. calls[p].path \in DOMAIN files
    BY <1>3 DEF OnDisk!CanOpen
  <1>7. \A q \in Process \ {p} : Opened(calls[q]) /\ calls[q].path = calls'[p].path =>
            calls[q].op # "write" /\ calls'[p].op # "write"
    <2> SUFFICES ASSUME NEW q \in Process \ {p}, Opened(calls[q]), calls[q].path = calls'[p].path
                 PROVE  calls[q].op # "write" /\ calls'[p].op # "write"
      OBVIOUS
    <2>1. PICK h \in handles : h.path = calls[q].path /\ h.access = IF calls[q].op = "write" THEN "write" ELSE "read"
      BY <1>1, OpenHasHandle
    <2>2. h.access \in {"read"}
      BY <2>1, <1>2, <1>3 DEF OnDisk!CanOpen
    <2> QED
      BY <2>1, <2>2, <1>2, <1>3
  <1>8. \A q \in Process \ {p} : Opened(calls[q]) =>
               calls[q].path \in DOMAIN files' /\ files'[calls[q].path] = files[calls[q].path]
    BY <1>1, <1>3 DEF SeenOK
  <1>9. calls'[p].path \in DOMAIN files' /\ files'[calls'[p].path] = calls'[p].seen
    BY <1>2, <1>3, <1>6
  <1> QED
    BY <1>2, <1>4, <1>5, <1>7, <1>8, <1>9, OpenStep

LEMMA GetFileSizeOpens ==
    ASSUME OpenInv, NEW p \in Process, OnDisk!GetFileSize(p) PROVE OpenInv'
  <1>1. CallsOK /\ PlacesOK /\ HandlesOK /\ SharedOK /\ SeenOK
    BY DEF OpenInv
  <1>2. /\ CallsOK' /\ \A q \in Process \ {p} : calls'[q] = calls[q]
        /\ calls'[p].op = calls[p].op /\ calls'[p].path = calls[p].path /\ calls'[p].may = calls[p].may
        /\ calls'[p].seen = calls[p].seen
        /\ \/ calls'[p].pointer = Len(files[calls[p].path])
           \/ calls'[p].pointer = 0 /\ calls'[p].missed # {}
        /\ calls'[p].step = IF calls[p].op = "read" THEN "sized" ELSE "done"
    BY <1>1, GetFileSizeDoes DEF Changes, Fields
  <1>3. /\ calls[p].op \in {"read", "file_size"} /\ calls[p].step = "opened" /\ files' = files
        /\ handles' = IF calls[p].op = "read" THEN handles ELSE OnDisk!WithoutHandles(p)
    BY DEF OnDisk!GetFileSize, OnDisk!Sized
  <1>4. Opened(calls[p]) /\ calls[p].path \in DOMAIN files /\ files[calls[p].path] = calls[p].seen
    BY <1>1, <1>3 DEF Opened, SeenOK
  <1>5. PlaceOK(calls'[p]) /\ (Opened(calls'[p]) <=> calls[p].op = "read")
    BY <1>1, <1>2, <1>3, <1>4 DEF Opened, PlacesOK, PlaceOK
  <1>6. handles' = OnDisk!WithoutHandles(p) \cup (IF Opened(calls'[p]) THEN {HandleOf(p, calls'[p])} ELSE {})
    <2>1. handles = OnDisk!WithoutHandles(p) \cup {HandleOf(p, calls[p])}
      BY <1>1, <1>4 DEF HandlesOK, HandleOf, OnDisk!WithoutHandles
    <2>2. HandleOf(p, calls'[p]) = HandleOf(p, calls[p])
      BY <1>2 DEF HandleOf
    <2> QED
      BY <2>1, <2>2, <1>3, <1>5
  <1>7. \A q \in Process \ {p} : Opened(calls[q]) =>
               calls[q].path \in DOMAIN files' /\ files'[calls[q].path] = files[calls[q].path]
    BY <1>1, <1>3 DEF SeenOK
  <1>8. \A q \in Process \ {p} : Opened(calls[q]) /\ calls[q].path = calls'[p].path =>
            calls[q].op # "write" /\ calls'[p].op # "write"
    BY <1>1, <1>2, <1>3, <1>4 DEF SharedOK
  <1>9. calls'[p].path \in DOMAIN files' /\ files'[calls'[p].path] = calls'[p].seen
    BY <1>2, <1>3, <1>4
  <1> QED
    BY <1>2, <1>5, <1>6, <1>7, <1>8, <1>9, OpenStep

LEMMA ReadFileOpens ==
    ASSUME OpenInv, HeldOK, NEW p \in Process, OnDisk!ReadFile(p) PROVE OpenInv'
  <1>1. CallsOK /\ PlacesOK /\ HandlesOK /\ SharedOK /\ SeenOK
    BY DEF OpenInv
  <1>2. PICK s \in Seq(Bytes) : s = calls[p].seen
    BY DEF HeldOK
  <1>3. /\ calls[p].op = "read" /\ calls[p].step = "sized" /\ files' = files
        /\ handles' = OnDisk!WithoutHandles(p)
    BY DEF OnDisk!ReadFile, OnDisk!At
  <1>4. /\ files[calls[p].path] = s /\ SizeLimit \in Nat \ {0} /\ Len(s) \in Nat
        /\ calls[p].pointer \in {0, Len(s)} /\ (calls[p].missed = {} => calls[p].pointer = Len(s))
    BY <1>1, <1>2, <1>3, DiskAssumption DEF Opened, SeenOK, PlacesOK, PlaceOK, OnDisk!FilesAssumption
  <1>5. PICK n \in {0, Len(s)} : n = calls[p].pointer
    BY <1>4
  <1>6. /\ CallsOK' /\ \A q \in Process \ {p} : calls'[q] = calls[q]
        /\ calls'[p].op = calls[p].op /\ calls'[p].path = calls[p].path /\ calls'[p].may = calls[p].may
        /\ calls'[p].seen = s /\ calls'[p].missed = calls[p].missed
        /\ calls'[p].step = IF n % SizeLimit = n THEN "done" ELSE "asserted"
        /\ calls'[p].data = SubSeq(s, 1, n % SizeLimit)
    BY <1>1, <1>2, <1>4, <1>5, ReadFileDoes DEF Changes, Fields
  <1>7. n % SizeLimit # n => Len(s) >= SizeLimit
    BY <1>4
  <1>8. n = Len(s) /\ n % SizeLimit = n => SubSeq(s, 1, n % SizeLimit) = s
    BY <1>2
  <1>9. PlaceOK(calls'[p]) /\ ~Opened(calls'[p])
    <2>1. calls'[p].step = "done" /\ calls'[p].missed = {} => calls'[p].data = calls'[p].seen
      BY <1>4, <1>5, <1>6, <1>8
    <2>2. calls'[p].step = "asserted" => Len(calls'[p].seen) >= SizeLimit
      BY <1>6, <1>7
    <2> QED
      BY <2>1, <2>2, <1>1, <1>3, <1>6 DEF Opened, PlacesOK, PlaceOK
  <1>10. \A q \in Process \ {p} : Opened(calls[q]) =>
               calls[q].path \in DOMAIN files' /\ files'[calls[q].path] = files[calls[q].path]
    BY <1>1, <1>3 DEF SeenOK
  <1> QED
    BY <1>3, <1>6, <1>9, <1>10, OpenStep

LEMMA RefuseOpens ==
    ASSUME OpenInv, NEW p \in Process, OnDisk!Refuse(p) PROVE OpenInv'
  <1>1. CallsOK /\ PlacesOK /\ HandlesOK /\ SharedOK /\ SeenOK
    BY DEF OpenInv
  <1>2. OnDisk!Return(p, FALSE) /\ handles' = OnDisk!WithoutHandles(p) /\ files' = files
    BY DEF OnDisk!Refuse, OnDisk!Refused
  <1>3. /\ CallsOK' /\ \A q \in Process \ {p} : calls'[q] = calls[q]
        /\ calls'[p].op = calls[p].op /\ calls'[p].path = calls[p].path /\ calls'[p].may = calls[p].may
        /\ calls'[p].step = "done" /\ calls'[p].ok = FALSE
    BY <1>1, <1>2, ReturnDoes DEF Changes, Fields
  <1>4. PlaceOK(calls'[p]) /\ ~Opened(calls'[p])
    BY <1>1, <1>3 DEF Opened, PlacesOK, PlaceOK
  <1>5. \A q \in Process \ {p} : Opened(calls[q]) =>
               calls[q].path \in DOMAIN files' /\ files'[calls[q].path] = files[calls[q].path]
    BY <1>1, <1>2 DEF SeenOK
  <1> QED
    BY <1>2, <1>3, <1>4, <1>5, OpenStep

LEMMA OpenToWriteOpens ==
    ASSUME OpenInv, NEW p \in Process, OnDisk!OpenToWrite(p) PROVE OpenInv'
  <1>1. CallsOK /\ PlacesOK /\ HandlesOK /\ SharedOK /\ SeenOK
    BY DEF OpenInv
  <1>2. /\ CallsOK' /\ \A q \in Process \ {p} : calls'[q] = calls[q]
        /\ calls'[p].op = calls[p].op /\ calls'[p].path = calls[p].path /\ calls'[p].may = calls[p].may
        /\ calls'[p].step = "opened" /\ calls'[p].seen = files'[calls[p].path]
    BY <1>1, OpenToWriteDoes DEF Changes, Fields
  <1>3. /\ calls[p].op = "write" /\ calls[p].step = "open"
        /\ calls[p].path \in DOMAIN files => OnDisk!CanOpen(calls[p].path, "write", {})
        /\ handles' = handles \cup {OnDisk!Handle(p, "write", {})}
        /\ files' = IF calls[p].path \in DOMAIN files THEN files ELSE OnDisk!With(calls[p].path, <<>>)
    BY DEF OnDisk!OpenToWrite, OnDisk!At
  <1>4. Opened(calls'[p]) /\ ~Opened(calls[p]) /\ PlaceOK(calls'[p])
    BY <1>1, <1>2, <1>3 DEF Opened, PlacesOK, PlaceOK
  <1>5. handles' = OnDisk!WithoutHandles(p) \cup {HandleOf(p, calls'[p])}
    <2>1. OnDisk!Handle(p, "write", {}) = HandleOf(p, calls'[p])
      BY <1>2, <1>3 DEF OnDisk!Handle, HandleOf
    <2> QED
      BY <2>1, <1>1, <1>3, <1>4, ClosedHasNone
  <1>6. ASSUME NEW q \in Process \ {p}, Opened(calls[q]) PROVE calls[q].path # calls[p].path
    <2>1. PICK h \in handles : h.path = calls[q].path
      BY <1>1, <1>6, OpenHasHandle
    <2>2. calls[q].path \in DOMAIN files
      BY <1>1, <1>6 DEF SeenOK
    <2> QED
      BY <2>1, <2>2, <1>3 DEF OnDisk!CanOpen
  <1>7. calls[p].path \in DOMAIN files' /\ \A g \in DOMAIN files \ {calls[p].path} : g \in DOMAIN files' /\ files'[g] = files[g]
    BY <1>3 DEF OnDisk!With
  <1>8. \A q \in Process \ {p} : Opened(calls[q]) =>
               calls[q].path \in DOMAIN files' /\ files'[calls[q].path] = files[calls[q].path]
    BY <1>1, <1>6, <1>7 DEF SeenOK
  <1> QED
    BY <1>2, <1>4, <1>5, <1>6, <1>7, <1>8, OpenStep

\* Who has a file open to write has it alone.
LEMMA WriterAlone ==
    ASSUME OpenInv, NEW p \in Process, Opened(calls[p]), calls[p].op = "write",
           NEW q \in Process \ {p}, Opened(calls[q])
    PROVE  calls[q].path # calls[p].path
  BY DEF OpenInv, SharedOK

LEMMA PositionOpens ==
    ASSUME OpenInv, NEW p \in Process, OnDisk!Position(p) PROVE OpenInv'
  <1>1. CallsOK /\ PlacesOK /\ HandlesOK /\ SharedOK /\ SeenOK
    BY DEF OpenInv
  <1>2. /\ CallsOK' /\ \A q \in Process \ {p} : calls'[q] = calls[q]
        /\ calls'[p].op = calls[p].op /\ calls'[p].path = calls[p].path /\ calls'[p].may = calls[p].may
        /\ calls'[p].step = "positioned" /\ calls'[p].seen = files'[calls[p].path]
    BY <1>1, PositionDoes DEF Changes, Fields
  <1>3. /\ calls[p].op = "write" /\ calls[p].step = "opened" /\ handles' = handles
        /\ files' = files \/ files' = OnDisk!With(calls[p].path, <<>>)
    BY <1>1, PositionDoes DEF OnDisk!Position, OnDisk!At
  <1>4. Opened(calls'[p]) /\ Opened(calls[p]) /\ PlaceOK(calls'[p]) /\ calls[p].path \in DOMAIN files
    BY <1>1, <1>2, <1>3 DEF Opened, PlacesOK, PlaceOK, SeenOK
  <1>5. handles' = OnDisk!WithoutHandles(p) \cup {HandleOf(p, calls'[p])}
    <2>1. handles = OnDisk!WithoutHandles(p) \cup {HandleOf(p, calls[p])}
      BY <1>1, <1>4 DEF HandlesOK, HandleOf, OnDisk!WithoutHandles
    <2>2. HandleOf(p, calls'[p]) = HandleOf(p, calls[p])
      BY <1>2 DEF HandleOf
    <2> QED
      BY <2>1, <2>2, <1>3
  <1>6. \A q \in Process \ {p} : Opened(calls[q]) => calls[q].path # calls[p].path
    BY <1>3, <1>4, WriterAlone
  <1>7. calls[p].path \in DOMAIN files' /\ \A g \in DOMAIN files \ {calls[p].path} : g \in DOMAIN files' /\ files'[g] = files[g]
    BY <1>3, <1>4 DEF OnDisk!With
  <1>8. \A q \in Process \ {p} : Opened(calls[q]) =>
               calls[q].path \in DOMAIN files' /\ files'[calls[q].path] = files[calls[q].path]
    BY <1>1, <1>6, <1>7 DEF SeenOK
  <1> QED
    BY <1>2, <1>4, <1>5, <1>6, <1>7, <1>8, OpenStep

LEMMA WriteFileOpens ==
    ASSUME OpenInv, NEW p \in Process, OnDisk!WriteFile(p) PROVE OpenInv'
  <1>1. CallsOK /\ PlacesOK /\ HandlesOK /\ SharedOK /\ SeenOK
    BY DEF OpenInv
  <1>2. /\ calls[p].op = "write" /\ calls[p].step = "positioned"
        /\ \E ok : OnDisk!Return(p, ok)
        /\ handles' = OnDisk!WithoutHandles(p)
        /\ \E contents : files' = OnDisk!With(calls[p].path, contents)
    BY DEF OnDisk!WriteFile, OnDisk!At
  <1>3. /\ CallsOK' /\ \A q \in Process \ {p} : calls'[q] = calls[q]
        /\ calls'[p].op = calls[p].op /\ calls'[p].path = calls[p].path /\ calls'[p].may = calls[p].may
        /\ calls'[p].step = "done"
    BY <1>1, <1>2, ReturnDoes DEF Changes, Fields
  <1>4. Opened(calls[p]) /\ PlaceOK(calls'[p]) /\ ~Opened(calls'[p])
    BY <1>1, <1>2, <1>3 DEF Opened, PlacesOK, PlaceOK
  <1>5. \A q \in Process \ {p} : Opened(calls[q]) => calls[q].path # calls[p].path
    BY <1>2, <1>4, WriterAlone
  <1>6. \A g \in DOMAIN files \ {calls[p].path} : g \in DOMAIN files' /\ files'[g] = files[g]
    BY <1>2 DEF OnDisk!With
  <1>7. \A q \in Process \ {p} : Opened(calls[q]) =>
               calls[q].path \in DOMAIN files' /\ files'[calls[q].path] = files[calls[q].path]
    BY <1>1, <1>5, <1>6 DEF SeenOK
  <1> QED
    BY <1>2, <1>3, <1>4, <1>7, OpenStep

\* The calls to Windows that act on a path change no file that is open.
LEMMA ActOpens ==
    ASSUME OpenInv, NEW p \in Process,
           \/ OnDisk!CopyFile(p) \/ OnDisk!MoveFile(p) \/ OnDisk!DeleteFile(p)
           \/ OnDisk!CreateDirectory(p) \/ OnDisk!RemoveDirectory(p)
    PROVE  OpenInv'
  <1>1. CallsOK /\ PlacesOK /\ HandlesOK /\ SharedOK /\ SeenOK
    BY DEF OpenInv
  <1>2. calls[p].step = "act" /\ OnDisk!Return(p, TRUE) /\ handles' = handles
    BY DEF OnDisk!CopyFile, OnDisk!MoveFile, OnDisk!DeleteFile, OnDisk!CreateDirectory, OnDisk!RemoveDirectory, OnDisk!At
  <1>3. /\ CallsOK' /\ \A q \in Process \ {p} : calls'[q] = calls[q]
        /\ calls'[p].op = calls[p].op /\ calls'[p].path = calls[p].path /\ calls'[p].may = calls[p].may
        /\ calls'[p].step = "done"
    BY <1>1, <1>2, ReturnDoes DEF Changes, Fields
  <1>4. calls[p].op # "read"
    BY DEF OnDisk!CopyFile, OnDisk!MoveFile, OnDisk!DeleteFile, OnDisk!CreateDirectory, OnDisk!RemoveDirectory, OnDisk!At
  <1>5. ~Opened(calls[p]) /\ PlaceOK(calls'[p]) /\ ~Opened(calls'[p])
    BY <1>1, <1>2, <1>3, <1>4 DEF Opened, PlacesOK, PlaceOK
  <1>6. ASSUME NEW g \in DOMAIN files, NEW h \in handles, h.path = g
        PROVE  g \in DOMAIN files' /\ files'[g] = files[g]
    <2>1. CASE OnDisk!CopyFile(p)
      <3>1. OnDisk!CanReplace(calls[p].dest, calls[p].may) /\ files' = OnDisk!With(calls[p].dest, files[calls[p].path])
        BY <2>1 DEF OnDisk!CopyFile
      <3> QED
        BY <3>1, <1>6 DEF OnDisk!CanReplace, OnDisk!IsFree, OnDisk!With
    <2>2. CASE OnDisk!MoveFile(p)
      <3>1. /\ OnDisk!IsFree(calls[p].path) /\ files' = OnDisk!Moved(calls[p].path, calls[p].dest)
            /\ calls[p].dest = calls[p].path \/ OnDisk!CanReplace(calls[p].dest, calls[p].may)
        BY <2>2 DEF OnDisk!MoveFile
      <3> QED
        BY <3>1, <1>6 DEF OnDisk!CanReplace, OnDisk!IsFree, OnDisk!Moved
    <2>3. CASE OnDisk!DeleteFile(p)
      BY <2>3, <1>6 DEF OnDisk!DeleteFile, OnDisk!IsFree, OnDisk!Without
    <2>4. CASE OnDisk!CreateDirectory(p) \/ OnDisk!RemoveDirectory(p)
      BY <2>4 DEF OnDisk!CreateDirectory, OnDisk!RemoveDirectory
    <2> QED
      BY <2>1, <2>2, <2>3, <2>4
  <1> QED
    BY <1>2, <1>3, <1>5, <1>6, ClosedStep

LEMMA CheckOpens ==
    ASSUME OpenInv, NEW p \in Process, OnDisk!Check(p) \/ OnDisk!Target(p) PROVE OpenInv'
  <1>1. CallsOK /\ PlacesOK
    BY DEF OpenInv
  <1>2. files' = files /\ handles' = handles
    BY DEF OnDisk!Check, OnDisk!Target, OnDisk!Unchanged
  <1>3. /\ CallsOK' /\ \A q \in Process \ {p} : calls'[q] = calls[q]
        /\ calls'[p].op = calls[p].op /\ calls'[p].path = calls[p].path /\ calls'[p].may = calls[p].may
        /\ calls[p].step \in {"check", "target"} /\ calls'[p].step \in {"target", "open", "act", "done"}
        /\ calls'[p].step = "done" => calls'[p].ok = FALSE
    <2>1. CASE OnDisk!Target(p)
      BY <1>1, <2>1, TargetDoes DEF Changes, Fields, OnDisk!Target
    <2>2. CASE OnDisk!Check(p)
      <3>1. /\ calls[p].step = "check"
            /\ OnDisk!Return(p, FALSE) \/ \E s \in {"target", "open", "act"} : OnDisk!GoTo(p, s)
        BY <2>2 DEF OnDisk!Check
      <3>2. CASE OnDisk!Return(p, FALSE)
        BY <1>1, <3>1, <3>2, ReturnDoes DEF Changes, Fields
      <3>3. ASSUME NEW s \in {"target", "open", "act"}, OnDisk!GoTo(p, s)
            PROVE  /\ CallsOK' /\ \A q \in Process \ {p} : calls'[q] = calls[q]
                   /\ calls'[p].op = calls[p].op /\ calls'[p].path = calls[p].path /\ calls'[p].may = calls[p].may
                   /\ calls'[p].step = s
        BY <1>1, <3>3, GoToDoes DEF Changes, Fields
      <3> QED
        BY <3>1, <3>2, <3>3
    <2> QED
      BY <2>1, <2>2
  <1>4. ~Opened(calls[p]) /\ PlaceOK(calls'[p]) /\ ~Opened(calls'[p])
    BY <1>1, <1>3 DEF Opened, PlacesOK, PlaceOK
  <1> QED
    BY <1>2, <1>3, <1>4, ClosedStep

\* A step of a walk, whatever it does.
WalkSteps == {"enter", "find", "next", "listed"}
LEMMA WalkOpens ==
    ASSUME OpenInv, NEW p \in Process, calls[p].op = "walk", calls[p].step \in WalkSteps,
           CallsOK', \A q \in Process \ {p} : calls'[q] = calls[q],
           calls'[p].op = "walk", calls'[p].step \in WalkSteps \cup {"done", "asserted"}, OnDisk!Unchanged
    PROVE  OpenInv'
  <1>1. ~Opened(calls[p]) /\ ~Opened(calls'[p]) /\ PlaceOK(calls'[p])
    BY DEF WalkSteps, Opened, PlaceOK
  <1> QED
    BY <1>1, ClosedStep DEF OnDisk!Unchanged

LEMMA BeginDoes ==
    ASSUME CallsOK, MadeOK, NEW p \in Process, OnDisk!Begin(p)
    PROVE  /\ CallsOK' /\ \A q \in Process \ {p} : calls'[q] = calls[q]
           /\ calls[p].step = "done" /\ OnDisk!Unchanged
           /\ MadeOK' /\ made'[p] # made[p] /\ \A q \in Process \ {p} : made'[q] = made[q]
           /\ calls'[p].step \in {"open", "check", "enter"}
           /\ calls'[p].seen = <<>> /\ (calls'[p].op = "write" => calls'[p].data = Data)
           /\ calls'[p].op # "walk" => calls'[p].path \in Path /\ calls'[p].step # "enter"
           /\ calls'[p].op = "rename" => calls'[p].may = FALSE
           /\ calls'[p].op = "walk" => /\ calls'[p].step = "enter" /\ calls'[p].path = Root
                                       /\ calls'[p].walkers = <<>> /\ calls'[p].listed = <<>>
                                       /\ calls'[p].missed = {}
  <1> DEFINE Fine(c) == /\ DOMAIN c = Fields
                        /\ c.step \in {"open", "check", "enter"}
                        /\ c.seen = <<>> /\ (c.op = "write" => c.data = Data)
                        /\ c.op # "walk" => c.path \in Path /\ c.step # "enter"
                        /\ c.op = "rename" => c.may = FALSE
                        /\ c.op = "walk" => c.step = "enter" /\ c.path = Root /\ c.walkers = <<>> /\ c.listed = <<>> /\ c.missed = {}
  <1>1. \E c : OnDisk!Call(p, c) /\ Fine(c)
    <2>1. PICK path \in Path :
             \/ OnDisk!Call(p, [OnDisk!Idle EXCEPT !.op = "read", !.step = "open", !.path = path])
             \/ \E mode \in {"Append", "Overwrite", "Overwrite_Entire"} :
                   OnDisk!Call(p, [OnDisk!Idle EXCEPT !.op = "write", !.step = "open", !.path = path, !.mode = mode, !.data = Data])
             \/ \E op \in OnDisk!Checked : OnDisk!Call(p, [OnDisk!Idle EXCEPT !.op = op, !.step = "check", !.path = path])
             \/ \E op \in {"copy", "move"}, dest \in Path, overwrite \in BOOLEAN :
                   OnDisk!Call(p, [OnDisk!Idle EXCEPT !.op = op, !.step = "check", !.path = path, !.dest = dest, !.may = overwrite])
             \/ \E newName \in {OnDisk!Last(q) : q \in Path} :
                   OnDisk!Call(p, [OnDisk!Idle EXCEPT !.op = "rename", !.step = "check", !.path = path,
                                                      !.dest = OnDisk!Join(OnDisk!Parent(path), newName)])
             \/ OnDisk!Call(p, [OnDisk!Idle EXCEPT !.op = "walk", !.step = "enter", !.path = Root])
      BY DEF OnDisk!Begin
    <2>2. Fine([OnDisk!Idle EXCEPT !.op = "read", !.step = "open", !.path = path])
      BY DEF OnDisk!Idle, Fields
    <2>3. ASSUME NEW mode
          PROVE  Fine([OnDisk!Idle EXCEPT !.op = "write", !.step = "open", !.path = path, !.mode = mode, !.data = Data])
      BY DEF OnDisk!Idle, Fields
    <2>4. ASSUME NEW op \in OnDisk!Checked
          PROVE  Fine([OnDisk!Idle EXCEPT !.op = op, !.step = "check", !.path = path])
      BY DEF OnDisk!Idle, Fields, OnDisk!Checked
    <2>5. ASSUME NEW op \in {"copy", "move"}, NEW dest, NEW overwrite
          PROVE  Fine([OnDisk!Idle EXCEPT !.op = op, !.step = "check", !.path = path, !.dest = dest, !.may = overwrite])
      BY DEF OnDisk!Idle, Fields
    <2>6. ASSUME NEW dest
          PROVE  Fine([OnDisk!Idle EXCEPT !.op = "rename", !.step = "check", !.path = path, !.dest = dest])
      BY DEF OnDisk!Idle, Fields
    <2>7. Fine([OnDisk!Idle EXCEPT !.op = "walk", !.step = "enter", !.path = Root])
      BY DEF OnDisk!Idle, Fields
    <2> HIDE DEF Fine
    <2> QED
      BY <2>1, <2>2, <2>3, <2>4, <2>5, <2>6, <2>7
  <1>2. PICK c : OnDisk!Call(p, c) /\ Fine(c)
    BY <1>1
  <1> QED
    BY <1>2, CallDoes DEF OnDisk!Call

LEMMA BeginOpens ==
    ASSUME OpenInv, MadeOK, NEW p \in Process, OnDisk!Begin(p) PROVE OpenInv'
  <1>1. CallsOK
    BY DEF OpenInv
  <1>2. ~Opened(calls[p]) /\ ~Opened(calls'[p]) /\ PlaceOK(calls'[p])
    BY <1>1, BeginDoes DEF Opened, PlaceOK
  <1> QED
    BY <1>1, <1>2, BeginDoes, ClosedStep DEF OnDisk!Unchanged

-----------------------------------------------------------------------------
\* The tree: what is made is made in a directory, and a directory is removed when it is empty.
LEMMA FilesStep ==
    ASSUME TreeOK, dirs' = dirs,
           \A g \in DOMAIN files' \ DOMAIN files : g \in Path /\ OnDisk!Parent(g) \in dirs
    PROVE  TreeOK'
  BY DEF TreeOK, OnDisk!Existing

LEMMA TreeKept ==
    ASSUME OpenInv, TreeOK, NEW p \in Process, OnDisk!Acts(p) PROVE TreeOK'
  <1>1. CASE dirs' = dirs /\ files' = files
    BY <1>1 DEF TreeOK, OnDisk!Existing
  <1>2. CASE OnDisk!OpenToWrite(p)
    <2>1. /\ dirs' = dirs /\ calls[p].op = "write" /\ OnDisk!Parent(calls[p].path) \in dirs
          /\ files' = files \/ files' = OnDisk!With(calls[p].path, <<>>)
      BY <1>2 DEF OnDisk!OpenToWrite, OnDisk!At
    <2>2. calls[p].path \in Path
      BY <2>1 DEF OpenInv, PlacesOK, PlaceOK
    <2> QED
      BY <2>1, <2>2, FilesStep DEF OnDisk!With
  <1>3. CASE OnDisk!Position(p) \/ OnDisk!WriteFile(p)
    <2>1. /\ dirs' = dirs /\ calls[p].step \in {"opened", "positioned"}
          /\ files' = files \/ \E contents : files' = OnDisk!With(calls[p].path, contents)
      BY <1>3, PositionDoes DEF OpenInv, OnDisk!Position, OnDisk!WriteFile, OnDisk!At
    <2>2. calls[p].path \in DOMAIN files
      BY <2>1 DEF OpenInv, SeenOK, Opened
    <2> QED
      BY <2>1, <2>2, FilesStep DEF OnDisk!With
  <1>4. CASE OnDisk!CopyFile(p)
    <2>1. /\ dirs' = dirs /\ files' = OnDisk!With(calls[p].dest, files[calls[p].path])
          /\ OnDisk!CanReplace(calls[p].dest, calls[p].may)
      BY <1>4 DEF OnDisk!CopyFile
    <2> QED
      BY <2>1, FilesStep DEF OnDisk!With, OnDisk!CanReplace
  <1>5. CASE OnDisk!MoveFile(p)
    <2>1. /\ dirs' = dirs /\ files' = OnDisk!Moved(calls[p].path, calls[p].dest)
          /\ calls[p].path \in DOMAIN files
          /\ calls[p].dest = calls[p].path \/ OnDisk!CanReplace(calls[p].dest, calls[p].may)
      BY <1>5 DEF OnDisk!MoveFile, OnDisk!IsFile
    <2> QED
      BY <2>1, FilesStep DEF OnDisk!Moved, OnDisk!CanReplace
  <1>6. CASE OnDisk!DeleteFile(p)
    BY <1>6, FilesStep DEF OnDisk!DeleteFile, OnDisk!Without
  <1>7. CASE OnDisk!CreateDirectory(p)
    <2>1. /\ files' = files /\ dirs' = dirs \cup {calls[p].path} /\ OnDisk!Parent(calls[p].path) \in dirs
          /\ calls[p].op = "create_directory"
      BY <1>7 DEF OnDisk!CreateDirectory, OnDisk!At
    <2>2. calls[p].path \in Path
      BY <2>1 DEF OpenInv, PlacesOK, PlaceOK
    <2> QED
      BY <2>1, <2>2 DEF TreeOK, OnDisk!Existing, Places
  <1>8. CASE OnDisk!RemoveDirectory(p)
    <2>1. /\ files' = files /\ dirs' = dirs \ {calls[p].path} /\ calls[p].path # Root
          /\ \A x \in OnDisk!Existing \ {Root} : OnDisk!Parent(x) # calls[p].path
      BY <1>8 DEF OnDisk!RemoveDirectory, OnDisk!Children, OnDisk!Existing
    <2> QED
      BY <2>1 DEF TreeOK, OnDisk!Existing
  <1> QED
    BY <1>1, <1>2, <1>3, <1>4, <1>5, <1>6, <1>7, <1>8
    DEF OnDisk!Acts, OnDisk!OpenToRead, OnDisk!GetFileSize, OnDisk!ReadFile, OnDisk!Check, OnDisk!Target,
        OnDisk!EnterDirectory, OnDisk!FindFirst, OnDisk!EndDirectory, OnDisk!ReadNextEntry, OnDisk!EntryIsDirectory,
        OnDisk!Sized, OnDisk!Refuse, OnDisk!Refused, OnDisk!Unchanged

-----------------------------------------------------------------------------
\* A walker's entries all lie in its directory, and no two walkers have the same one.
LEMMA ListedMore ==
    ASSUME NEW L \in Seq(Places), NEW e \in Places
    PROVE  /\ Append(L, e) \in Seq(Places) /\ Known(Append(L, e)) = Known(L) \cup {e}
           /\ OnDisk!ToSet(Append(L, e)) = OnDisk!ToSet(L) \cup {e}
           /\ OnDisk!IsInjective(L) /\ e \notin OnDisk!ToSet(L) => OnDisk!IsInjective(Append(L, e))
  <1>1. PICK M : M = Append(L, e)
    OBVIOUS
  <1>2. /\ M \in Seq(Places) /\ Len(M) = Len(L) + 1 /\ M[Len(L) + 1] = e
        /\ \A i \in 1..Len(L) : M[i] = L[i]
    BY <1>1
  <1>3. DOMAIN L = 1..Len(L) /\ DOMAIN M = 1..(Len(L) + 1) /\ Len(L) \in Nat
    BY <1>2
  <1>4. OnDisk!ToSet(M) = OnDisk!ToSet(L) \cup {e}
    BY <1>2, <1>3 DEF OnDisk!ToSet
  <1>5. ASSUME OnDisk!IsInjective(L), e \notin OnDisk!ToSet(L)
        PROVE  OnDisk!IsInjective(M)
    <2>1. \A i \in 1..Len(L) : L[i] # e
      BY <1>3, <1>5 DEF OnDisk!ToSet
    <2>2. \A i, j \in 1..Len(L) : L[i] = L[j] => i = j
      BY <1>3, <1>5 DEF OnDisk!IsInjective
    <2>3. \A i, j \in 1..(Len(L) + 1) : M[i] = M[j] => i = j
      BY <2>1, <2>2, <1>2, <1>3
    <2> QED
      BY <2>3, <1>3 DEF OnDisk!IsInjective
  <1> QED
    BY <1>1, <1>2, <1>4, <1>5 DEF Known

LEMMA EnterWalk ==
    ASSUME NEW W \in Walkers, NEW L \in Seq(Places), NEW d \in Places, NEW C \in SUBSET Places, NEW S, NEW D,
           WalkOK(W, L), Fresh(W, L, d), \A e \in C : OnDisk!Parent(e) = d /\ e # Root,
           Reaches(S, W, L, D \cup {d}), \A x \in S : OnDisk!Parent(x) = d => x \in C,
           NEW V, V = Append(W, [dir |-> d, entries |-> C])
    PROVE  V \in Walkers /\ V # <<>> /\ WalkOK(V, L) /\ Reaches(S, V, L, D)
  <1>1. PICK w \in [dir : Places, entries : SUBSET Places] : w = [dir |-> d, entries |-> C]
    OBVIOUS
  <1>2. /\ V \in Walkers /\ Len(V) = Len(W) + 1 /\ V[Len(W) + 1] = w /\ \A i \in 1..Len(W) : V[i] = W[i]
        /\ Len(W) \in Nat
    BY <1>1 DEF Walkers
  <1>3. w.dir = d /\ w.entries = C
    BY <1>1
  <1>4. \A i \in 1..Len(V) : i \in 1..Len(W) \/ i = Len(W) + 1
    BY <1>2
  <1>5. \A e \in C : e \notin Known(L)
    BY DEF Fresh, Known
  <1>6. \A i, j \in 1..Len(V) : V[i].dir = V[j].dir => i = j
    BY <1>2, <1>3, <1>4 DEF WalkOK, Fresh
  <1>7. \A i \in 1..Len(V) : /\ V[i].dir \in Known(L)
                             /\ \A e \in V[i].entries : OnDisk!Parent(e) = V[i].dir /\ e \notin Known(L)
    BY <1>2, <1>3, <1>4, <1>5 DEF WalkOK, Fresh
  <1>8. WalkOK(V, L)
    BY <1>6, <1>7 DEF WalkOK
  <1>9. ASSUME NEW x \in S
        PROVE  \/ x \in OnDisk!ToSet(L) \/ (\E i \in 1..Len(V) : x \in V[i].entries)
               \/ OnDisk!Parent(x) \in D \/ OnDisk!Parent(x) \notin Known(L)
    <2>1. CASE x \in C
      BY <2>1, <1>2, <1>3
    <2>2. CASE x \notin C
      <3>1. \/ x \in OnDisk!ToSet(L) \/ (\E i \in 1..Len(W) : x \in W[i].entries)
            \/ OnDisk!Parent(x) \in D \/ OnDisk!Parent(x) \notin Known(L)
        BY <2>2 DEF Reaches
      <3> QED
        BY <3>1, <1>2
    <2> QED
      BY <2>1, <2>2
  <1>10. V # <<>>
    BY <1>2
  <1> QED
    BY <1>2, <1>8, <1>9, <1>10 DEF Reaches

LEMMA LeaveWalk ==
    ASSUME NEW W \in Walkers, W # <<>>, NEW L \in Seq(Places), NEW S, NEW D,
           WalkOK(W, L), Reaches(S, W, L, D), NEW V, V = OnDisk!Leave(W),
           NEW E, E = IF OnDisk!Last(W).entries = {} THEN D ELSE D \cup {OnDisk!Last(W).dir}
    PROVE  V \in Walkers /\ WalkOK(V, L) /\ Reaches(S, V, L, E)
  <1>1. V = SubSeq(W, 1, Len(W) - 1) /\ E = IF W[Len(W)].entries = {} THEN D ELSE D \cup {W[Len(W)].dir}
    BY DEF OnDisk!Leave, OnDisk!Front, OnDisk!Last
  <1>2. Len(W) \in Nat \ {0}
    BY DEF Walkers
  <1>3. V \in Walkers /\ Len(V) = Len(W) - 1 /\ \A i \in 1..Len(V) : V[i] = W[i]
    <2>1. PICK T : T = [dir : Places, entries : SUBSET Places]
      OBVIOUS
    <2>2. W \in Seq(T) /\ Walkers = Seq(T)
      BY <2>1 DEF Walkers
    <2>6. Len(W) - 1 \in Nat
      BY <1>2
    <2>3. PICK n \in Nat : n = Len(W) - 1
      BY <2>6, Zenon
    <2>4. V = SubSeq(W, 1, n) /\ 1 \in 1..(Len(W) + 1) /\ n \in (1 - 1)..Len(W)
      BY <1>1, <1>2, <2>3
    <2>5. V \in Seq(T) /\ Len(V) = n /\ \A i \in 1..n : V[i] = W[i]
      BY <2>2, <2>4, <2>3, SubSeqProperties
    <2> QED
      BY <2>2, <2>3, <2>5
  <1>4. WalkOK(V, L)
    BY <1>2, <1>3 DEF WalkOK
  <1>5. ASSUME NEW x, NEW i \in 1..Len(W), x \in W[i].entries
        PROVE  (\E j \in 1..Len(V) : x \in V[j].entries) \/ OnDisk!Parent(x) \in E
    <2>1. CASE i = Len(W)
      <3>1. OnDisk!Parent(x) = W[Len(W)].dir
        BY <2>1, <1>5 DEF WalkOK
      <3> QED
        BY <2>1, <3>1, <1>1, <1>5
    <2>2. CASE i # Len(W)
      BY <2>2, <1>2, <1>3, <1>5
    <2> QED
      BY <2>1, <2>2
  <1>6. D \subseteq E
    BY <1>1
  <1>7. Reaches(S, V, L, E)
    BY <1>5, <1>6 DEF Reaches
  <1> QED
    BY <1>3, <1>4, <1>7

LEMMA NextWalk ==
    ASSUME NEW W \in Walkers, W # <<>>, NEW L \in Seq(Places), NEW e \in OnDisk!Last(W).entries, NEW S, NEW D,
           WalkOK(W, L), Reaches(S, W, L, D),
           NEW V, V = Taken(W, e), NEW M, M = Append(L, e)
    PROVE  /\ e \in Places /\ V \in Walkers /\ V # <<>> /\ M \in Seq(Places)
           /\ WalkOK(V, M) /\ Fresh(V, M, e) /\ Reaches(S, V, M, D \cup {e})
  <1>1. PICK T : T = [dir : Places, entries : SUBSET Places]
    OBVIOUS
  <1>2. W \in Seq(T) /\ Walkers = Seq(T) /\ Len(W) \in Nat \ {0} /\ W[Len(W)] \in T /\ e \in W[Len(W)].entries
    <2>1. W \in Seq(T) /\ Walkers = Seq(T) /\ e \in W[Len(W)].entries
      BY <1>1 DEF Walkers, OnDisk!Last
    <2> QED
      BY <2>1
  <1>3. PICK v \in T : v = W[Len(W)]
    BY <1>2
  <1>4. PICK w : w = [v EXCEPT !.entries = @ \ {e}]
    OBVIOUS
  <1>5. w.dir = v.dir /\ w.entries = v.entries \ {e} /\ e \in Places /\ w \in T
    BY <1>1, <1>2, <1>3, <1>4
  <1>6. V = [W EXCEPT ![Len(W)] = w]
    BY <1>3, <1>4 DEF Taken
  <1>7. /\ V \in Walkers /\ Len(V) = Len(W) /\ V # <<>>
        /\ V[Len(W)] = w /\ \A i \in 1..Len(W) : i # Len(W) => V[i] = W[i]
    <2>1. DOMAIN V = DOMAIN W /\ V[Len(W)] = w /\ \A i \in 1..Len(W) : i # Len(W) => V[i] = W[i]
      BY <1>2, <1>6
    <2>2. V \in Seq(T) /\ Len(V) = Len(W)
      <3>1. PICK n \in 1..Len(W) : n = Len(W)
        BY <1>2
      <3>2. V = [W EXCEPT ![n] = w] /\ w \in T
        BY <3>1, <1>5, <1>6
      <3>3. [W EXCEPT ![n] = w] \in Seq(T) /\ Len([W EXCEPT ![n] = w]) = Len(W)
        BY <1>2, <3>2, ExceptSeq
      <3> QED
        BY <3>2, <3>3
    <2> QED
      BY <1>2, <2>1, <2>2
  <1>8. \A i \in 1..Len(W) : /\ V[i].dir = W[i].dir /\ V[i].entries = W[i].entries \ {e}
    <2>1. \A i \in 1..Len(W) : i # Len(W) => e \notin W[i].entries
      <3> SUFFICES ASSUME NEW i \in 1..Len(W), i # Len(W), e \in W[i].entries PROVE FALSE
        OBVIOUS
      <3>1. Len(W) \in 1..Len(W)
        BY <1>2
      <3>2. OnDisk!Parent(e) = W[i].dir /\ OnDisk!Parent(e) = W[Len(W)].dir
        BY <1>2, <3>1 DEF WalkOK
      <3> QED
        BY <3>1, <3>2 DEF WalkOK
    <2> QED
      BY <2>1, <1>3, <1>5, <1>7
  <1>9. /\ M \in Seq(Places) /\ Known(M) = Known(L) \cup {e} /\ OnDisk!ToSet(M) = OnDisk!ToSet(L) \cup {e}
        /\ OnDisk!IsInjective(L) /\ e \notin OnDisk!ToSet(L) => OnDisk!IsInjective(M)
    BY <1>5, ListedMore
  <1>10. e \notin Known(L) /\ OnDisk!Parent(e) \in Known(L)
    BY <1>2 DEF WalkOK
  <1>11. OnDisk!IsInjective(M)
    BY <1>9, <1>10 DEF WalkOK, Known
  <1>12. \A i, j \in 1..Len(V) : V[i].dir = V[j].dir => i = j
    BY <1>7, <1>8 DEF WalkOK
  <1>13. \A i \in 1..Len(V) : /\ V[i].dir \in Known(M)
                              /\ \A x \in V[i].entries : OnDisk!Parent(x) = V[i].dir /\ x \notin Known(M)
    BY <1>7, <1>8, <1>9 DEF WalkOK
  <1>14. \A x \in OnDisk!ToSet(M) : OnDisk!Parent(x) \in Known(M)
    BY <1>9, <1>10 DEF WalkOK
  <1>15. WalkOK(V, M)
    BY <1>11, <1>12, <1>13, <1>14 DEF WalkOK
  <1>16. Fresh(V, M, e)
    <2>1. \A i \in 1..Len(V) : V[i].dir # e
      BY <1>7, <1>8, <1>10 DEF WalkOK
    <2>2. \A x \in OnDisk!ToSet(M) : OnDisk!Parent(x) # e
      BY <1>9, <1>10 DEF WalkOK
    <2> QED
      BY <2>1, <2>2, <1>9 DEF Fresh
  <1>17. ASSUME NEW x \in S
         PROVE  \/ x \in OnDisk!ToSet(M) \/ (\E i \in 1..Len(V) : x \in V[i].entries)
                \/ OnDisk!Parent(x) \in D \cup {e} \/ OnDisk!Parent(x) \notin Known(M)
    BY <1>7, <1>8, <1>9 DEF Reaches
  <1> QED
    BY <1>5, <1>7, <1>9, <1>15, <1>16, <1>17 DEF Reaches

\* Less of what stays is reached as well.
LEMMA LessReached ==
    ASSUME NEW c, NEW S, WalkInv(c, S), NEW T, T \subseteq S
    PROVE  WalkInv(c, T)
  BY DEF WalkInv, Reaches

-----------------------------------------------------------------------------
\* What the others do to a walk.
LEMMA WalksOfOthers ==
    ASSUME WalksOK, NEW p \in Process, \A q \in Process \ {p} : calls'[q] = calls[q],
           \A q \in Process \ {p} : stable'[q] \subseteq stable[q],
           calls'[p].op = "walk" => WalkInv(calls'[p], stable'[p])
    PROVE  WalksOK'
  <1> SUFFICES ASSUME NEW q \in Process, calls'[q].op = "walk" PROVE WalkInv(calls'[q], stable'[q])
    BY DEF WalksOK
  <1>1. CASE q = p
    BY <1>1
  <1>2. CASE q # p
    BY <1>2, LessReached DEF WalksOK
  <1> QED
    BY <1>1, <1>2

LEMMA EnterDirectoryWalks ==
    ASSUME OpenInv, NEW p \in Process, WalksOK, OnDisk!EnterDirectory(p), NEW S, S \subseteq stable[p]
    PROVE  calls'[p].op = "walk" /\ WalkInv(calls'[p], S)
  <1>1. CallsOK /\ calls[p].op = "walk" /\ calls[p].step = "enter"
    BY DEF OpenInv, OnDisk!EnterDirectory, OnDisk!At
  <1>2. PICK c : c = calls[p]
    OBVIOUS
  <1>3. PICK d : d = calls'[p]
    OBVIOUS
  <1>4. WalkInv(c, S)
    BY <1>1, <1>2, LessReached DEF WalksOK
  <1>5. /\ d.op = "walk" /\ d.path = c.path /\ d.listed = c.listed /\ d.walkers = c.walkers /\ d.missed = c.missed
        /\ d.step \in {"find", "asserted"}
    BY <1>1, <1>2, <1>3, EnterDirectoryDoes DEF Changes, Fields
  <1> QED
    BY <1>1, <1>2, <1>3, <1>4, <1>5 DEF WalkInv, ToEnter

LEMMA FindFirstWalks ==
    ASSUME OpenInv, TreeOK, StableOK, NEW p \in Process, WalksOK, OnDisk!FindFirst(p), NEW S, S \subseteq stable[p]
    PROVE  calls'[p].op = "walk" /\ WalkInv(calls'[p], S)
  <1>1. CallsOK /\ calls[p].op = "walk" /\ calls[p].step = "find"
    BY DEF OpenInv, OnDisk!FindFirst, OnDisk!At
  <1>2. PICK c : c = calls[p]
    OBVIOUS
  <1>3. PICK d : d = calls'[p]
    OBVIOUS
  <1>4. WalkInv(c, S)
    BY <1>1, <1>2, LessReached DEF WalksOK
  <1>5. /\ d.op = "walk" /\ d.path = c.path /\ d.listed = c.listed
        /\ \/ /\ OnDisk!IsDirectory(c.path) /\ d.step = "next"
              /\ d.walkers = Append(c.walkers, OnDisk!Walker(c.path)) /\ d.missed = c.missed
           \/ /\ d.walkers = c.walkers /\ d.step = IF c.walkers = <<>> THEN "done" ELSE "next"
              /\ d.missed = c.missed \cup {c.path}
    <2>1. Changes(p, {"step", "walkers", "missed", "ok"})
      BY <1>1, FindFirstDoes
    <2>2. d.op = "walk" /\ d.path = c.path /\ d.listed = c.listed
      BY <2>1, <1>1, <1>2, <1>3 DEF Changes, Fields
    <2> QED
      BY <2>2, <1>1, <1>2, <1>3, FindFirstDoes DEF OnDisk!GoesOn
  <1>6. PICK W : W = c.walkers
    OBVIOUS
  <1>7. PICK L : L = c.listed
    OBVIOUS
  <1>8. PICK r : r = c.path
    OBVIOUS
  <1>9. PICK D : D = c.missed
    OBVIOUS
  <1>10. /\ W \in Walkers /\ L \in Seq(Places) /\ r \in Places /\ WalkOK(W, L) /\ Fresh(W, L, r)
         /\ Reaches(S, W, L, D \cup {r})
    BY <1>1, <1>2, <1>4, <1>6, <1>7, <1>8, <1>9 DEF WalkInv, ToEnter
  <1>11. CASE d.step = "next" /\ d.walkers = Append(W, OnDisk!Walker(r)) /\ d.missed = D
    <2>1. PICK C : C = OnDisk!Children(r)
      OBVIOUS
    <2>2. C \in SUBSET Places /\ \A e \in C : OnDisk!Parent(e) = r /\ e # Root
      BY <2>1 DEF OnDisk!Children, TreeOK, Places
    <2>3. \A x \in S : OnDisk!Parent(x) = r => x \in C
      BY <2>1 DEF OnDisk!Children, StableOK, OnDisk!Existing
    <2>4. PICK V : V = d.walkers
      OBVIOUS
    <2>5. V = Append(W, [dir |-> r, entries |-> C])
      BY <1>11, <2>1, <2>4 DEF OnDisk!Walker
    <2>6. V \in Walkers /\ V # <<>> /\ WalkOK(V, L) /\ Reaches(S, V, L, D)
      BY <1>10, <2>2, <2>3, <2>5, EnterWalk
    <2>7. D \cup {} = D
      OBVIOUS
    <2> QED
      BY <1>3, <1>5, <1>7, <1>10, <1>11, <2>4, <2>6, <2>7 DEF WalkInv, ToEnter
  <1>12. CASE d.walkers = W /\ d.step = (IF W = <<>> THEN "done" ELSE "next") /\ d.missed = D \cup {r}
    <2>1. d.step \in {"done", "next"} /\ ToEnter(d) = D \cup {r}
      BY <1>12 DEF ToEnter
    <2> QED
      BY <1>3, <1>5, <1>7, <1>10, <1>12, <2>1 DEF WalkInv
  <1> QED
    BY <1>5, <1>6, <1>8, <1>9, <1>11, <1>12

LEMMA EndDirectoryWalks ==
    ASSUME OpenInv, NEW p \in Process, WalksOK, OnDisk!EndDirectory(p), NEW S, S \subseteq stable[p]
    PROVE  calls'[p].op = "walk" /\ WalkInv(calls'[p], S)
  <1>1. CallsOK /\ calls[p].op = "walk" /\ calls[p].step = "next"
    BY DEF OpenInv, OnDisk!EndDirectory, OnDisk!At
  <1>2. PICK c : c = calls[p]
    OBVIOUS
  <1>3. PICK d : d = calls'[p]
    OBVIOUS
  <1>4. WalkInv(c, S)
    BY <1>1, <1>2, LessReached DEF WalksOK
  <1>5. PICK W : W = c.walkers
    OBVIOUS
  <1>6. PICK L : L = c.listed
    OBVIOUS
  <1>7. PICK D : D = c.missed
    OBVIOUS
  <1>8. W \in Walkers /\ W # <<>> /\ L \in Seq(Places) /\ WalkOK(W, L) /\ Reaches(S, W, L, D)
    <2>1. ToEnter(c) = D
      BY <1>1, <1>2, <1>7 DEF ToEnter
    <2> QED
      BY <2>1, <1>1, <1>2, <1>4, <1>5, <1>6 DEF WalkInv
  <1>9. PICK V : V = OnDisk!Leave(W)
    OBVIOUS
  <1>10. PICK E : E = IF OnDisk!Last(W).entries = {} THEN D ELSE D \cup {OnDisk!Last(W).dir}
    OBVIOUS
  <1>11. V \in Walkers /\ WalkOK(V, L) /\ Reaches(S, V, L, E)
    BY <1>8, <1>9, <1>10, LeaveWalk
  <1>12. /\ d.op = "walk" /\ d.listed = L /\ d.walkers = V /\ d.missed = E
         /\ d.step = IF V = <<>> THEN "done" ELSE "next"
    BY <1>1, <1>2, <1>3, <1>5, <1>6, <1>7, <1>9, <1>10, EndDirectoryDoes DEF Changes, Fields, OnDisk!GoesOn
  <1>13. d.step \in {"done", "next"} /\ ToEnter(d) = E
    BY <1>12 DEF ToEnter
  <1> QED
    BY <1>3, <1>8, <1>11, <1>12, <1>13 DEF WalkInv

LEMMA ReadNextEntryWalks ==
    ASSUME OpenInv, NEW p \in Process, WalksOK, OnDisk!ReadNextEntry(p), NEW S, S \subseteq stable[p]
    PROVE  calls'[p].op = "walk" /\ WalkInv(calls'[p], S)
  <1>1. CallsOK /\ calls[p].op = "walk" /\ calls[p].step = "next"
    BY DEF OpenInv, OnDisk!ReadNextEntry, OnDisk!At
  <1>2. PICK c : c = calls[p]
    OBVIOUS
  <1>3. PICK d : d = calls'[p]
    OBVIOUS
  <1>4. WalkInv(c, S)
    BY <1>1, <1>2, LessReached DEF WalksOK
  <1>5. PICK W : W = c.walkers
    OBVIOUS
  <1>6. PICK L : L = c.listed
    OBVIOUS
  <1>15. PICK D : D = c.missed
    OBVIOUS
  <1>7. W \in Walkers /\ W # <<>> /\ L \in Seq(Places) /\ WalkOK(W, L) /\ Reaches(S, W, L, D)
    <2>1. ToEnter(c) = D
      BY <1>1, <1>2, <1>15 DEF ToEnter
    <2> QED
      BY <2>1, <1>1, <1>2, <1>4, <1>5, <1>6 DEF WalkInv
  <1>8. Changes(p, {"step", "path", "listed", "walkers"}) /\ d.step = "listed"
    BY <1>1, <1>2, <1>3, <1>5, <1>7, ReadNextEntryDoes
  <1>9. PICK e \in OnDisk!Last(W).entries :
           d.path = e /\ d.listed = Append(L, e) /\ d.walkers = Taken(W, e)
    BY <1>1, <1>2, <1>3, <1>5, <1>6, <1>7, ReadNextEntryDoes
  <1>10. d.op = "walk" /\ d.missed = D
    BY <1>1, <1>2, <1>3, <1>8, <1>15 DEF Changes, Fields
  <1>11. PICK V : V = Taken(W, e)
    OBVIOUS
  <1>12. PICK M : M = Append(L, e)
    OBVIOUS
  <1>13. /\ e \in Places /\ V \in Walkers /\ V # <<>> /\ M \in Seq(Places)
         /\ WalkOK(V, M) /\ Fresh(V, M, e) /\ Reaches(S, V, M, D \cup {e})
    BY <1>7, <1>11, <1>12, NextWalk
  <1>14. ToEnter(d) = D \cup {e}
    BY <1>8, <1>9, <1>10 DEF ToEnter
  <1> QED
    BY <1>3, <1>8, <1>9, <1>10, <1>11, <1>12, <1>13, <1>14 DEF WalkInv

LEMMA EntryIsDirectoryWalks ==
    ASSUME OpenInv, TreeOK, StableOK, NEW p \in Process, WalksOK, OnDisk!EntryIsDirectory(p), NEW S, S \subseteq stable[p]
    PROVE  calls'[p].op = "walk" /\ WalkInv(calls'[p], S)
  <1>1. CallsOK /\ calls[p].op = "walk" /\ calls[p].step = "listed"
    BY DEF OpenInv, OnDisk!EntryIsDirectory, OnDisk!At
  <1>2. PICK c : c = calls[p]
    OBVIOUS
  <1>3. PICK d : d = calls'[p]
    OBVIOUS
  <1>4. WalkInv(c, S)
    BY <1>1, <1>2, LessReached DEF WalksOK
  <1>5. d.op = "walk" /\ d.path = c.path /\ d.walkers = c.walkers /\ d.listed = c.listed
    BY <1>1, <1>2, <1>3, EntryIsDirectoryDoes DEF Changes, Fields
  <1>6. CASE d.step = "enter" /\ d.missed = c.missed
    BY <1>1, <1>2, <1>3, <1>4, <1>5, <1>6 DEF WalkInv, ToEnter
  <1>7. CASE /\ d.step = "next" /\ c.missed \subseteq d.missed
             /\ OnDisk!IsDirectory(c.path) => c.path \in d.missed
    <2>1. ~OnDisk!IsDirectory(c.path) => \A x \in S : OnDisk!Parent(x) # c.path
      BY DEF OnDisk!IsDirectory, StableOK, TreeOK
    <2>2. Reaches(S, c.walkers, c.listed, c.missed \cup {c.path})
      BY <1>1, <1>2, <1>4 DEF WalkInv, ToEnter
    <2>3. Reaches(S, c.walkers, c.listed, d.missed)
      BY <1>7, <2>1, <2>2 DEF Reaches
    <2>4. ToEnter(d) = d.missed
      BY <1>7 DEF ToEnter
    <2> QED
      BY <1>1, <1>2, <1>3, <1>4, <1>5, <1>7, <2>3, <2>4 DEF WalkInv
  <1> QED
    BY <1>1, <1>2, <1>3, <1>6, <1>7, EntryIsDirectoryDoes

LEMMA BeginWalks ==
    ASSUME OpenInv, MadeOK, NEW p \in Process, OnDisk!Begin(p), calls'[p].op = "walk", NEW S
    PROVE  WalkInv(calls'[p], S)
  <1>1. /\ calls'[p].step = "enter" /\ calls'[p].path = Root /\ calls'[p].walkers = <<>> /\ calls'[p].listed = <<>>
        /\ calls'[p].missed = {}
    BY BeginDoes DEF OpenInv
  <1>2. <<>> \in Walkers /\ <<>> \in Seq(Places) /\ Len(<<>>) = 0
    BY DEF Walkers
  <1>3. OnDisk!ToSet(<<>>) = {} /\ OnDisk!IsInjective(<<>>)
    BY DEF OnDisk!ToSet, OnDisk!IsInjective
  <1>4. WalkOK(<<>>, <<>>) /\ Fresh(<<>>, <<>>, Root) /\ Reaches(S, <<>>, <<>>, {Root}) /\ Root \in Places
    BY <1>2, <1>3 DEF WalkOK, Fresh, Reaches, Known, Places
  <1> QED
    BY <1>1, <1>2, <1>4 DEF WalkInv, ToEnter

-----------------------------------------------------------------------------
\* What is held: files get what is written, and calls see what files hold.
LEMMA SameSeen ==
    ASSUME HeldOK, NEW p \in Process, NEW F, Changes(p, F), F \cap {"seen", "op"} = {}, calls[p].op = "write" => "data" \notin F,
           calls'[p].step # "positioned", \A f \in DOMAIN files' : files'[f] \in Seq(Bytes)
    PROVE  HeldOK'
  <1>1. calls'[p].seen = calls[p].seen /\ calls'[p].op = calls[p].op /\ (calls'[p].op = "write" => calls'[p].data = calls[p].data)
    BY DEF Changes, Fields
  <1> QED
    BY <1>1 DEF HeldOK, Changes, Bytes, OnDisk!ToSet

LEMMA MoreSeen ==
    ASSUME HeldOK, NEW p \in Process, NEW F, Changes(p, F), F \cap {"data", "op"} = {},
           calls'[p].seen \in Seq(Bytes), calls'[p].step = "positioned" => calls'[p].pointer \in 0..Len(calls'[p].seen),
           \A f \in DOMAIN files' : files'[f] \in Seq(Bytes)
    PROVE  HeldOK'
  <1>1. calls'[p].op = calls[p].op /\ calls'[p].data = calls[p].data
    BY DEF Changes, Fields
  <1> QED
    BY <1>1 DEF HeldOK, Changes, Bytes, OnDisk!ToSet

LEMMA DataHeld == Data \in Seq(Bytes) /\ <<>> \in Seq(Bytes)
  <1>1. Data \in Seq(OnDisk!ToSet(Data)) /\ OnDisk!ToSet(Data) \subseteq Bytes
    BY DiskAssumption DEF OnDisk!FilesAssumption, Bytes
  <1> QED
    BY <1>1, SeqMonotonic

LEMMA OverwrittenHeld ==
    ASSUME NEW s \in Seq(Bytes), NEW n \in 0..Len(s), NEW d \in Seq(Bytes)
    PROVE  OnDisk!Overwritten(s, d, n) \in Seq(Bytes)
  <1>1. PICK m \in Int : m = n + Len(d) + 1 /\ m > 0
    OBVIOUS
  <1>2. \A i \in 1..n : s[i] \in Bytes
    OBVIOUS
  <1>3. \A i \in m..Len(s) : s[i] \in Bytes
    BY <1>1
  <1>4. SubSeq(s, 1, n) \in Seq(Bytes)
    BY <1>2, SubSeqProperties
  <1>5. SubSeq(s, m, Len(s)) \in Seq(Bytes)
    BY <1>1, <1>3, SubSeqProperties
  <1>6. SubSeq(s, 1, n) \o d \in Seq(Bytes)
    BY <1>4, ConcatProperties
  <1>7. (SubSeq(s, 1, n) \o d) \o SubSeq(s, m, Len(s)) \in Seq(Bytes)
    BY <1>5, <1>6, ConcatProperties
  <1> QED
    BY <1>1, <1>7 DEF OnDisk!Overwritten

LEMMA OpenToWriteHolds ==
    ASSUME OpenInv, HeldOK, NEW p \in Process, OnDisk!OpenToWrite(p) PROVE HeldOK'
  <1>1. CallsOK
    BY DEF OpenInv
  <1>2. /\ Changes(p, {"step", "seen"})
        /\ calls'[p].step = "opened" /\ calls'[p].seen = files'[calls[p].path]
    BY <1>1, OpenToWriteDoes
  <1>3. files' = IF calls[p].path \in DOMAIN files THEN files ELSE OnDisk!With(calls[p].path, <<>>)
    BY DEF OnDisk!OpenToWrite
  <1>4. calls[p].path \in DOMAIN files' /\ \A f \in DOMAIN files' : files'[f] \in Seq(Bytes)
    BY <1>3, DataHeld DEF OnDisk!With, HeldOK
  <1> QED
    BY <1>2, <1>4, MoreSeen

LEMMA PositionHolds ==
    ASSUME OpenInv, HeldOK, NEW p \in Process, OnDisk!Position(p) PROVE HeldOK'
  <1>1. CallsOK /\ calls[p].op = "write" /\ calls[p].step = "opened"
    BY DEF OpenInv, OnDisk!Position, OnDisk!At
  <1>2. /\ Changes(p, {"step", "seen", "pointer", "missed"})
        /\ calls'[p].step = "positioned" /\ calls'[p].seen = files'[calls[p].path]
    BY <1>1, PositionDoes
  <1>3. calls[p].path \in DOMAIN files
    BY <1>1 DEF OpenInv, SeenOK, Opened
  <1>4. PICK s \in Seq(Bytes) : s = files[calls[p].path]
    BY <1>3 DEF HeldOK
  <1>5. /\ files' = files \/ (calls[p].mode = "Overwrite_Entire" /\ files' = OnDisk!With(calls[p].path, <<>>))
        /\ calls'[p].pointer \in IF calls[p].mode = "Append" THEN {0, Len(s)} ELSE {0}
    BY <1>1, <1>4, PositionDoes
  <1>6. \A f \in DOMAIN files' : files'[f] \in Seq(Bytes)
    BY <1>5, DataHeld DEF OnDisk!With, HeldOK
  <1>7. CASE calls'[p].pointer = 0
    <2>1. calls'[p].seen \in {s, <<>>}
      BY <1>2, <1>3, <1>4, <1>5 DEF OnDisk!With
    <2>2. calls'[p].seen \in Seq(Bytes)
      BY <2>1, DataHeld
    <2>3. calls'[p].pointer \in 0..Len(calls'[p].seen)
      BY <1>7, <2>2
    <2> QED
      BY <1>2, <1>6, <2>2, <2>3, MoreSeen
  <1>8. CASE calls[p].mode = "Append" /\ calls'[p].pointer = Len(s)
    <2>1. calls'[p].seen = s
      BY <1>2, <1>4, <1>5, <1>8
    <2>2. calls'[p].pointer \in 0..Len(calls'[p].seen) /\ calls'[p].seen \in Seq(Bytes)
      BY <1>8, <2>1
    <2> QED
      BY <1>2, <1>6, <2>2, MoreSeen
  <1> QED
    BY <1>5, <1>7, <1>8

LEMMA WriteFileHolds ==
    ASSUME OpenInv, HeldOK, NEW p \in Process, OnDisk!WriteFile(p) PROVE HeldOK'
  <1>1. CallsOK /\ calls[p].op = "write" /\ calls[p].step = "positioned" /\ \E ok : OnDisk!Return(p, ok)
    BY DEF OpenInv, OnDisk!WriteFile, OnDisk!At
  <1>2. Changes(p, {"step", "ok"}) /\ calls'[p].step = "done"
    BY <1>1, ReturnDoes
  <1>3. calls[p].path \in DOMAIN files /\ files[calls[p].path] = calls[p].seen
    BY <1>1 DEF OpenInv, SeenOK, Opened
  <1>4. PICK s \in Seq(Bytes) : s = calls[p].seen
    BY DEF HeldOK
  <1>5. PICK n \in 0..Len(s) : n = calls[p].pointer
    BY <1>1, <1>4 DEF HeldOK
  <1>6. calls[p].data = Data
    BY <1>1 DEF HeldOK
  <1>7. PICK d : d = SubSeq(Data, 1, Len(Data) % SizeLimit)
    OBVIOUS
  <1>8. files' = OnDisk!With(calls[p].path, OnDisk!Overwritten(s, d, n))
    BY <1>3, <1>4, <1>5, <1>6, <1>7 DEF OnDisk!WriteFile
  <1>9. d \in Seq(Bytes)
    <2>1. PICK m \in 0..Len(Data) : m = Len(Data) % SizeLimit
      <3>1. Len(Data) \in Nat /\ SizeLimit \in Nat \ {0}
        BY DataHeld, DiskAssumption DEF OnDisk!FilesAssumption
      <3>2. Len(Data) % SizeLimit \in Nat /\ Len(Data) % SizeLimit <= Len(Data)
        BY <3>1
      <3> QED
        BY <3>1, <3>2
    <2>2. \A i \in 1..m : Data[i] \in Bytes
      BY DataHeld
    <2> QED
      BY <2>1, <2>2, <1>7, DataHeld, SubSeqProperties
  <1>10. OnDisk!Overwritten(s, d, n) \in Seq(Bytes)
    BY <1>9, OverwrittenHeld
  <1>11. \A f \in DOMAIN files' : files'[f] \in Seq(Bytes)
    BY <1>8, <1>10 DEF OnDisk!With, HeldOK
  <1> QED
    BY <1>2, <1>11, SameSeen

LEMMA ActsHold ==
    ASSUME OpenInv, WalksOK, HeldOK, NEW p \in Process, OnDisk!Acts(p)
    PROVE  HeldOK'
  <1>1. CallsOK
    BY DEF OpenInv
  <1>2. \A f \in DOMAIN files : files[f] \in Seq(Bytes)
    BY DEF HeldOK
  <1>3. CASE OnDisk!OpenToRead(p)
    <2>1. calls[p].path \in DOMAIN files /\ files' = files
      BY <1>3 DEF OnDisk!OpenToRead, OnDisk!CanOpen
    <2>2. Changes(p, {"step", "seen"}) /\ calls'[p].step = "opened" /\ calls'[p].seen \in Seq(Bytes)
      BY <1>1, <1>2, <1>3, <2>1, OpenToReadDoes
    <2> QED
      BY <1>2, <2>1, <2>2, MoreSeen
  <1>4. CASE OnDisk!GetFileSize(p)
    <2>1. /\ Changes(p, {"step", "pointer", "missed", "ok"})
          /\ calls'[p].step = IF calls[p].op = "read" THEN "sized" ELSE "done"
      BY <1>1, <1>4, GetFileSizeDoes
    <2>2. files' = files
      BY <1>4 DEF OnDisk!GetFileSize, OnDisk!Sized
    <2>3. calls'[p].step # "positioned"
      BY <2>1
    <2> QED
      BY <1>2, <2>1, <2>2, <2>3, SameSeen
  <1>5. CASE OnDisk!ReadFile(p)
    <2>1. /\ files' = files /\ Changes(p, {"step", "ok", "data"}) /\ calls'[p].step \in {"done", "asserted"}
          /\ calls[p].op = "read"
      BY <1>1, <1>5, ReadFileDoes DEF OnDisk!ReadFile, OnDisk!At
    <2> QED
      BY <1>2, <2>1, SameSeen
  <1>6. CASE OnDisk!OpenToWrite(p) \/ OnDisk!Position(p) \/ OnDisk!WriteFile(p)
    BY <1>6, OpenToWriteHolds, PositionHolds, WriteFileHolds
  <1>7. CASE OnDisk!Check(p)
    <2>1. files' = files /\ (OnDisk!Return(p, FALSE) \/ \E s \in {"target", "open", "act"} : OnDisk!GoTo(p, s))
      BY <1>7 DEF OnDisk!Check, OnDisk!Unchanged
    <2>2. CASE OnDisk!Return(p, FALSE)
      BY <1>1, <1>2, <2>1, <2>2, ReturnDoes, SameSeen
    <2>3. ASSUME NEW s \in {"target", "open", "act"}, OnDisk!GoTo(p, s) PROVE HeldOK'
      <3>1. Changes(p, {"step"}) /\ calls'[p].step # "positioned"
        BY <1>1, <2>3, GoToDoes
      <3> QED
        BY <1>2, <2>1, <3>1, SameSeen
    <2> QED
      BY <2>1, <2>2, <2>3
  <1>8. CASE OnDisk!Target(p)
    <2>1. files' = files /\ Changes(p, {"step", "dest"}) /\ calls'[p].step = "act"
      BY <1>1, <1>8, TargetDoes DEF OnDisk!Target, OnDisk!Unchanged
    <2> QED
      BY <1>2, <2>1, SameSeen
  <1>9. CASE \/ OnDisk!CopyFile(p) \/ OnDisk!MoveFile(p) \/ OnDisk!DeleteFile(p)
             \/ OnDisk!CreateDirectory(p) \/ OnDisk!RemoveDirectory(p)
    <2>1. OnDisk!Return(p, TRUE)
      BY <1>9 DEF OnDisk!CopyFile, OnDisk!MoveFile, OnDisk!DeleteFile, OnDisk!CreateDirectory, OnDisk!RemoveDirectory
    <2>2. Changes(p, {"step", "ok"}) /\ calls'[p].step = "done"
      BY <1>1, <2>1, ReturnDoes
    <2>3. \A f \in DOMAIN files' : files'[f] \in Seq(Bytes)
      BY ZenonT(40), <1>2, <1>9 DEF OnDisk!CopyFile, OnDisk!MoveFile, OnDisk!DeleteFile, OnDisk!CreateDirectory, OnDisk!RemoveDirectory,
                        OnDisk!With, OnDisk!Moved, OnDisk!Without, OnDisk!CanOpen, OnDisk!IsFile
    <2> QED
      BY <2>2, <2>3, SameSeen
  <1>10. CASE OnDisk!EnterDirectory(p)
    <2>1. files' = files /\ Changes(p, {"step"}) /\ calls'[p].step # "positioned"
      BY <1>1, <1>10, EnterDirectoryDoes DEF OnDisk!EnterDirectory, OnDisk!Unchanged
    <2> QED
      BY <1>2, <2>1, SameSeen
  <1>15. CASE OnDisk!FindFirst(p)
    <2>1. files' = files /\ Changes(p, {"step", "walkers", "missed", "ok"}) /\ calls'[p].step # "positioned"
      BY <1>1, <1>15, FindFirstDoes DEF OnDisk!FindFirst, OnDisk!GoesOn, OnDisk!Unchanged
    <2> QED
      BY <1>2, <2>1, SameSeen
  <1>11. CASE OnDisk!EndDirectory(p)
    <2>1. /\ Changes(p, {"step", "walkers", "missed", "ok"})
          /\ calls'[p].step \in {"done", "next"}
      BY <1>1, <1>11, EndDirectoryDoes DEF OnDisk!GoesOn
    <2>2. files' = files
      BY <1>11 DEF OnDisk!EndDirectory, OnDisk!Unchanged
    <2>3. calls'[p].step # "positioned"
      BY <2>1
    <2> QED
      BY <1>2, <2>1, <2>2, <2>3, SameSeen
  <1>12. CASE OnDisk!ReadNextEntry(p)
    <2>1. calls[p].walkers \in Walkers /\ calls[p].walkers # <<>>
      BY <1>12 DEF WalksOK, WalkInv, OnDisk!ReadNextEntry, OnDisk!At
    <2>2. files' = files /\ Changes(p, {"step", "path", "listed", "walkers"}) /\ calls'[p].step = "listed"
      BY <1>1, <1>12, <2>1, ReadNextEntryDoes DEF OnDisk!ReadNextEntry, OnDisk!Unchanged
    <2> QED
      BY <1>2, <2>2, SameSeen
  <1>13. CASE OnDisk!EntryIsDirectory(p)
    <2>1. files' = files
      BY <1>13 DEF OnDisk!EntryIsDirectory, OnDisk!Unchanged
    <2>2. Changes(p, {"step", "missed"}) /\ calls'[p].step # "positioned"
      BY <1>1, <1>13, EntryIsDirectoryDoes
    <2> QED
      BY <1>2, <2>1, <2>2, SameSeen
  <1>14. CASE OnDisk!Refuse(p)
    <2>1. files' = files /\ OnDisk!Return(p, FALSE)
      BY <1>14 DEF OnDisk!Refuse, OnDisk!Refused
    <2>2. Changes(p, {"step", "ok"}) /\ calls'[p].step = "done"
      BY <1>1, <2>1, ReturnDoes
    <2> QED
      BY <1>2, <2>1, <2>2, SameSeen
  <1> QED
    BY <1>3, <1>4, <1>5, <1>6, <1>7, <1>8, <1>9, <1>10, <1>11, <1>12, <1>13, <1>14, <1>15 DEF OnDisk!Acts

-----------------------------------------------------------------------------
\* No call but a walk is where a walk is.
LEMMA ActsAlone ==
    ASSUME OpenInv, WalksOK, HeldOK, NEW p \in Process, OnDisk!Acts(p)
    PROVE  /\ OpenInv' /\ calls'[p].op = calls[p].op
           /\ \A q \in Process \ {p} : calls'[q] = calls[q]
  <1> DEFINE Done == /\ OpenInv' /\ calls'[p].op = calls[p].op
                     /\ \A q \in Process \ {p} : calls'[q] = calls[q]
  <1>1. CallsOK
    BY DEF OpenInv
  <1>2. CASE OnDisk!OpenToRead(p)
    BY <1>1, <1>2, OpenToReadDoes, OpenToReadOpens DEF Changes, Fields
  <1>3. CASE OnDisk!GetFileSize(p)
    BY <1>1, <1>3, GetFileSizeDoes, GetFileSizeOpens DEF Changes, Fields
  <1>4. CASE OnDisk!ReadFile(p)
    BY <1>1, <1>4, ReadFileDoes, ReadFileOpens DEF Changes, Fields
  <1>5. CASE OnDisk!OpenToWrite(p)
    BY <1>1, <1>5, OpenToWriteDoes, OpenToWriteOpens DEF Changes, Fields
  <1>6. CASE OnDisk!Position(p)
    BY <1>1, <1>6, PositionDoes, PositionOpens DEF Changes, Fields
  <1>7. CASE OnDisk!WriteFile(p)
    <2>1. \E ok : OnDisk!Return(p, ok)
      BY <1>7 DEF OnDisk!WriteFile
    <2> QED
      BY <1>1, <1>7, <2>1, ReturnDoes, WriteFileOpens DEF Changes, Fields
  <1>8. CASE OnDisk!Check(p)
    <2>1. OnDisk!Return(p, FALSE) \/ \E s : OnDisk!GoTo(p, s)
      BY <1>8 DEF OnDisk!Check
    <2>2. calls'[p].op = calls[p].op /\ \A q \in Process \ {p} : calls'[q] = calls[q]
      BY <1>1, <2>1, ReturnDoes, GoToDoes DEF Changes, Fields
    <2> QED
      BY <1>8, <2>2, CheckOpens
  <1>9. CASE OnDisk!Target(p)
    BY <1>1, <1>9, TargetDoes, CheckOpens DEF Changes, Fields
  <1>10. CASE \/ OnDisk!CopyFile(p) \/ OnDisk!MoveFile(p) \/ OnDisk!DeleteFile(p)
              \/ OnDisk!CreateDirectory(p) \/ OnDisk!RemoveDirectory(p)
    <2>1. OnDisk!Return(p, TRUE)
      BY <1>10 DEF OnDisk!CopyFile, OnDisk!MoveFile, OnDisk!DeleteFile, OnDisk!CreateDirectory, OnDisk!RemoveDirectory
    <2>2. calls'[p].op = calls[p].op /\ \A q \in Process \ {p} : calls'[q] = calls[q]
      BY <1>1, <2>1, ReturnDoes DEF Changes, Fields
    <2> QED
      BY <1>10, <2>2, ActOpens
  <1>11. CASE OnDisk!EnterDirectory(p)
    <2>1. calls[p].op = "walk" /\ calls[p].step = "enter" /\ OnDisk!Unchanged
      BY <1>11 DEF OnDisk!EnterDirectory, OnDisk!At
    <2>2. Changes(p, {"step"}) /\ calls'[p].step \in {"find", "asserted"}
      BY <1>1, <1>11, EnterDirectoryDoes
    <2>3. CallsOK' /\ calls'[p].op = calls[p].op /\ \A q \in Process \ {p} : calls'[q] = calls[q]
      BY <2>2 DEF Changes, Fields
    <2> QED
      BY <2>1, <2>2, <2>3, WalkOpens DEF WalkSteps
  <1>16. CASE OnDisk!FindFirst(p)
    <2>1. calls[p].op = "walk" /\ calls[p].step = "find" /\ OnDisk!Unchanged
      BY <1>16 DEF OnDisk!FindFirst, OnDisk!At
    <2>2. Changes(p, {"step", "walkers", "missed", "ok"}) /\ calls'[p].step \in {"next", "done"}
      BY <1>1, <1>16, FindFirstDoes DEF OnDisk!GoesOn
    <2>3. CallsOK' /\ calls'[p].op = calls[p].op /\ \A q \in Process \ {p} : calls'[q] = calls[q]
      BY <2>2 DEF Changes, Fields
    <2> QED
      BY <2>1, <2>2, <2>3, WalkOpens DEF WalkSteps
  <1>12. CASE OnDisk!EndDirectory(p)
    <2>1. calls[p].op = "walk" /\ calls[p].step = "next" /\ OnDisk!Unchanged
      BY <1>12 DEF OnDisk!EndDirectory, OnDisk!At
    <2>2. Changes(p, {"step", "walkers", "missed", "ok"}) /\ calls'[p].step \in {"next", "done"}
      BY <1>1, <1>12, EndDirectoryDoes DEF OnDisk!GoesOn
    <2>3. CallsOK' /\ calls'[p].op = calls[p].op /\ \A q \in Process \ {p} : calls'[q] = calls[q]
      BY <2>2 DEF Changes, Fields
    <2> QED
      BY <2>1, <2>2, <2>3, WalkOpens DEF WalkSteps
  <1>13. CASE OnDisk!ReadNextEntry(p)
    <2>1. calls[p].op = "walk" /\ calls[p].step = "next" /\ OnDisk!Unchanged
      BY <1>13 DEF OnDisk!ReadNextEntry, OnDisk!At
    <2>2. calls[p].walkers \in Walkers /\ calls[p].walkers # <<>>
      BY <2>1 DEF WalksOK, WalkInv
    <2>3. Changes(p, {"step", "path", "listed", "walkers"}) /\ calls'[p].step = "listed"
      BY <1>1, <1>13, <2>2, ReadNextEntryDoes
    <2>4. CallsOK' /\ calls'[p].op = calls[p].op /\ \A q \in Process \ {p} : calls'[q] = calls[q]
      BY <2>3 DEF Changes, Fields
    <2> QED
      BY <2>1, <2>3, <2>4, WalkOpens DEF WalkSteps
  <1>14. CASE OnDisk!EntryIsDirectory(p)
    <2>1. calls[p].op = "walk" /\ calls[p].step = "listed" /\ OnDisk!Unchanged
      BY <1>14 DEF OnDisk!EntryIsDirectory, OnDisk!At
    <2>2. Changes(p, {"step", "missed"}) /\ calls'[p].step \in {"enter", "next"}
      BY <1>1, <1>14, EntryIsDirectoryDoes
    <2>3. CallsOK' /\ calls'[p].op = calls[p].op /\ \A q \in Process \ {p} : calls'[q] = calls[q]
      BY <2>2 DEF Changes, Fields
    <2> QED
      BY <2>1, <2>2, <2>3, WalkOpens DEF WalkSteps
  <1>15. CASE OnDisk!Refuse(p)
    <2>1. OnDisk!Return(p, FALSE)
      BY <1>15 DEF OnDisk!Refuse, OnDisk!Refused
    <2> QED
      BY <1>1, <1>15, <2>1, ReturnDoes, RefuseOpens DEF Changes, Fields
  <1> HIDE DEF Done
  <1> QED
    BY <1>2, <1>3, <1>4, <1>5, <1>6, <1>7, <1>8, <1>9, <1>10, <1>11, <1>12, <1>13, <1>14, <1>15, <1>16 DEF OnDisk!Acts, Done

LEMMA ActsWalk ==
    ASSUME OpenInv, TreeOK, StableOK, WalksOK, NEW p \in Process, OnDisk!Acts(p), calls[p].op = "walk",
           NEW S, S \subseteq stable[p]
    PROVE  WalkInv(calls'[p], S)
  <1>1. calls[p].step \in {"enter", "find", "next", "listed", "done", "asserted"}
    BY DEF WalksOK, WalkInv
  <1>2. \/ OnDisk!EnterDirectory(p) \/ OnDisk!FindFirst(p) \/ OnDisk!EndDirectory(p)
        \/ OnDisk!ReadNextEntry(p) \/ OnDisk!EntryIsDirectory(p)
    BY <1>1 DEF OnDisk!Acts, OnDisk!OpenToRead, OnDisk!GetFileSize, OnDisk!Sized, OnDisk!ReadFile, OnDisk!OpenToWrite, OnDisk!Position,
                OnDisk!WriteFile, OnDisk!Check, OnDisk!Target, OnDisk!CopyFile, OnDisk!MoveFile, OnDisk!DeleteFile,
                OnDisk!CreateDirectory, OnDisk!RemoveDirectory, OnDisk!Refuse, OnDisk!At
  <1> QED
    BY <1>2, EnterDirectoryWalks, FindFirstWalks, EndDirectoryWalks, ReadNextEntryWalks, EntryIsDirectoryWalks

\* What was there ever since a walk began, as its step says.
LEMMA StaysStable ==
    ASSUME TreeOK', StableOK,
           stable' = [p \in Process |-> IF made'[p] = made[p] THEN stable[p] \cap OnDisk!Existing'
                                        ELSE IF calls'[p].op = "walk" THEN OnDisk!Existing' \ {Root} ELSE {}]
    PROVE  StableOK'
  <1> SUFFICES ASSUME NEW p \in Process
               PROVE  /\ stable'[p] \subseteq OnDisk!Existing' \ {Root}
                      /\ \A x \in stable'[p] : OnDisk!Parent(x) \in stable'[p] \cup {Root}
    BY DEF StableOK, OnDisk!Parent, OnDisk!Front
  <1>1. \A x \in OnDisk!Existing' \ {Root} : OnDisk!Parent(x) \in OnDisk!Existing'
    BY DEF TreeOK, OnDisk!Existing
  <1>2. CASE made'[p] = made[p]
    BY <1>1, <1>2 DEF StableOK
  <1>3. CASE made'[p] # made[p]
    BY <1>1, <1>3
  <1> QED
    BY <1>2, <1>3

LEMMA DiskNextOK == DiskInv /\ [OnDisk!Next]_(OnDisk!vars) => DiskInv'
  <1> SUFFICES ASSUME DiskInv, [OnDisk!Next]_(OnDisk!vars)
               PROVE  DiskInv'
    OBVIOUS
  <1>1. OpenInv /\ TreeOK /\ WalksOK /\ StableOK /\ MadeOK /\ HeldOK /\ CallsOK
    BY DEF DiskInv, OpenInv
  <1>2. CASE OnDisk!Next
    <2>1. stable' = [p \in Process |-> IF made'[p] = made[p] THEN stable[p] \cap OnDisk!Existing'
                                       ELSE IF calls'[p].op = "walk" THEN OnDisk!Existing' \ {Root} ELSE {}]
      BY <1>2 DEF OnDisk!Next
    <2>2. ASSUME NEW p \in Process, OnDisk!Acts(p), UNCHANGED made PROVE DiskInv'
      <3>1. OpenInv' /\ TreeOK' /\ MadeOK' /\ calls'[p].op = calls[p].op /\ \A q \in Process \ {p} : calls'[q] = calls[q]
        BY <1>1, <2>2, ActsAlone, TreeKept DEF MadeOK
      <3>2. StableOK'
        BY <1>1, <2>1, <3>1, StaysStable
      <3>3. \A q \in Process : stable'[q] \subseteq stable[q]
        BY <2>1, <2>2
      <3>4. calls'[p].op = "walk" => WalkInv(calls'[p], stable'[p])
        BY <1>1, <2>2, <3>1, <3>3, ActsWalk
      <3>5. WalksOK'
        BY <1>1, <3>1, <3>3, <3>4, WalksOfOthers
      <3>6. HeldOK'
        BY <1>1, <2>2, ActsHold
      <3> QED
        BY <3>1, <3>2, <3>5, <3>6 DEF DiskInv
    <2>3. ASSUME NEW p \in Process, OnDisk!Begin(p) PROVE DiskInv'
      <3>1. /\ \A q \in Process \ {p} : calls'[q] = calls[q] /\ made'[q] = made[q]
            /\ MadeOK' /\ OnDisk!Unchanged
        BY <1>1, <2>3, BeginDoes
      <3>2. OpenInv'
        BY <1>1, <2>3, BeginOpens
      <3>3. TreeOK'
        BY <1>1, <3>1 DEF OnDisk!Unchanged, TreeOK, OnDisk!Existing
      <3>4. StableOK'
        BY <1>1, <2>1, <3>3, StaysStable
      <3>5. \A q \in Process \ {p} : stable'[q] \subseteq stable[q]
        BY <2>1, <3>1
      <3>6. calls'[p].op = "walk" => WalkInv(calls'[p], stable'[p])
        BY <1>1, <2>3, BeginWalks
      <3>7. WalksOK'
        BY <1>1, <3>1, <3>5, <3>6, WalksOfOthers
      <3>8. HeldOK'
        <4>1. files' = files /\ calls'[p].step # "positioned" /\ calls'[p].seen = <<>>
              /\ (calls'[p].op = "write" => calls'[p].data = Data)
          BY <1>1, <2>3, BeginDoes DEF OnDisk!Unchanged
        <4> QED
          BY <1>1, <3>1, <4>1, DataHeld DEF HeldOK
      <3> QED
        BY <3>1, <3>2, <3>3, <3>4, <3>7, <3>8 DEF DiskInv
    <2> QED
      BY <1>2, <2>2, <2>3 DEF OnDisk!Next
  <1>3. CASE UNCHANGED OnDisk!vars
    <2>1. UNCHANGED <<files, dirs, handles, calls, made, stable>>
      BY <1>3 DEF OnDisk!vars
    <2>2. OpenInv'
      BY <1>1, <2>1 DEF OpenInv, CallsOK, PlacesOK, HandlesOK, SharedOK, SeenOK
    <2>3. TreeOK' /\ WalksOK' /\ StableOK' /\ MadeOK' /\ HeldOK'
      BY <1>1, <2>1 DEF TreeOK, WalksOK, StableOK, MadeOK, HeldOK, OnDisk!Existing
    <2> QED
      BY <2>2, <2>3 DEF DiskInv
  <1> QED
    BY <1>2, <1>3

LEMMA DiskInitOK == OnDisk!Init => DiskInv
  <1> SUFFICES ASSUME OnDisk!Init PROVE DiskInv
    OBVIOUS
  <1>1. /\ files = InitialFiles /\ dirs = InitialDirs /\ handles = {}
        /\ calls = [p \in Process |-> OnDisk!Idle]
        /\ made = [p \in Process |-> 0] /\ stable = [p \in Process |-> {}]
    BY DEF OnDisk!Init
  <1>2. DOMAIN OnDisk!Idle = Fields /\ OnDisk!Idle.op = "idle" /\ OnDisk!Idle.step = "done"
    BY DEF OnDisk!Idle, Fields
  <1>3. CallsOK /\ PlacesOK /\ \A p \in Process : ~Opened(calls[p])
    BY <1>1, <1>2 DEF CallsOK, PlacesOK, PlaceOK, Opened
  <1>4. OpenInv
    BY <1>1, <1>3 DEF OpenInv, HandlesOK, SharedOK, SeenOK
  <1>5. TreeOK
    BY <1>1, DiskAssumption DEF TreeOK, OnDisk!Existing, OnDisk!FilesAssumption, Places
  <1>6. WalksOK /\ StableOK /\ MadeOK
    BY <1>1, <1>2 DEF WalksOK, StableOK, MadeOK
  <1>7. HeldOK
    <2>1. ASSUME NEW f \in DOMAIN InitialFiles PROVE InitialFiles[f] \in Seq(Bytes)
      <3>1. InitialFiles[f] \in Seq(OnDisk!ToSet(InitialFiles[f])) /\ OnDisk!ToSet(InitialFiles[f]) \subseteq Bytes
        BY DiskAssumption DEF OnDisk!FilesAssumption, Bytes
      <3> QED
        BY <3>1, SeqMonotonic
    <2>2. \A p \in Process : calls[p].seen = <<>> /\ calls[p].op = "idle" /\ calls[p].step = "done"
      BY <1>1 DEF OnDisk!Idle
    <2> QED
      BY <1>1, <2>1, <2>2, DataHeld DEF HeldOK
  <1> QED
    BY <1>4, <1>5, <1>6, <1>7 DEF DiskInv

-----------------------------------------------------------------------------
\* Paths are longer than those of their directories.
LEMMA ParentShorter ==
    ASSUME NEW x \in Path
    PROVE  Len(x) \in Nat /\ Len(OnDisk!Parent(x)) \in Nat /\ Len(OnDisk!Parent(x)) < Len(x)
  <1>1. PICK T : x \in Seq(T) /\ x # <<>>
    BY DiskAssumption DEF OnDisk!FilesAssumption
  <1>2. Len(x) \in Nat \ {0} /\ OnDisk!Parent(x) = SubSeq(x, 1, Len(x) - 1)
    BY <1>1 DEF OnDisk!Parent, OnDisk!Front
  <1>3. PICK n \in Nat : n = Len(x) - 1
    BY <1>2
  <1>4. 1 \in 1..(Len(x) + 1) /\ n \in (1 - 1)..Len(x)
    BY <1>2, <1>3
  <1>5. Len(SubSeq(x, 1, n)) = n
    BY <1>1, <1>4, SubSeqProperties
  <1> QED
    BY <1>2, <1>3, <1>5

\* What reaches up to the root, each in a directory that reaches up too, is listed if nothing waits.
LEMMA AllListed ==
    ASSUME NEW S, S \subseteq Path, \A x \in S : OnDisk!Parent(x) \in S \cup {Root},
           NEW L, Reaches(S, <<>>, L, {})
    PROVE  S \subseteq OnDisk!ToSet(L)
  <1> SUFFICES ASSUME S \ OnDisk!ToSet(L) # {} PROVE FALSE
    OBVIOUS
  <1> DEFINE T == {Len(x) : x \in S \ OnDisk!ToSet(L)}
  <1>1. T \subseteq Nat /\ T # {}
    BY ParentShorter
  <1>2. PICK R : IsWellFoundedOn(R, Nat) /\ \A a, b \in Nat : a < b => <<a, b>> \in R
    BY LessIsWellFounded
  <1>3. PICK n \in T : \A m \in T : ~ (<<m, n>> \in R)
    BY <1>1, <1>2, MinimumExists
  <1>4. PICK x \in S \ OnDisk!ToSet(L) : n = Len(x)
    BY <1>3
  <1>5. OnDisk!Parent(x) \in S /\ OnDisk!Parent(x) \notin OnDisk!ToSet(L)
    <2>1. OnDisk!Parent(x) \notin Known(L)
      BY <1>4 DEF Reaches
    <2> QED
      BY <1>4, <2>1 DEF Known
  <1>6. Len(OnDisk!Parent(x)) \in T /\ Len(OnDisk!Parent(x)) < n /\ n \in Nat /\ Len(OnDisk!Parent(x)) \in Nat
    BY <1>4, <1>5, ParentShorter
  <1> QED
    BY <1>2, <1>3, <1>6

LEMMA DiskInvShows == DiskInv => OnDisk!NoneChangesUnder
  <1> SUFFICES ASSUME DiskInv, NEW p \in Process, NEW c, c = calls[p]
               PROVE  /\ c.step \in {"opened", "sized", "positioned"} =>
                             c.path \in DOMAIN files /\ files[c.path] = c.seen
                      /\ c.op = "read" /\ c.step = "done" /\ c.ok /\ c.missed = {} => c.data = c.seen
                      /\ c.op = "read" /\ c.step = "asserted" => Len(c.seen) >= SizeLimit
                      /\ c.step \in {"done", "asserted", "check", "open"} => \A h \in handles : h.by # p
                      /\ c.op = "walk" => OnDisk!IsInjective(c.listed)
                      /\ c.op = "walk" /\ c.step = "done" =>
                             /\ \A x \in stable[p] :
                                    OnDisk!Parent(x) \in (OnDisk!ToSet(c.listed) \cup {Root}) \ c.missed =>
                                        x \in OnDisk!ToSet(c.listed)
                             /\ c.missed = {} => stable[p] \subseteq OnDisk!ToSet(c.listed)
    BY DEF OnDisk!NoneChangesUnder
  <1>1. OpenInv /\ TreeOK /\ WalksOK /\ StableOK
    BY DEF DiskInv
  <1>2. c.step \in {"opened", "sized", "positioned"} => c.path \in DOMAIN files /\ files[c.path] = c.seen
    BY <1>1 DEF OpenInv, SeenOK, Opened
  <1>3. /\ c.op = "read" /\ c.step = "done" /\ c.ok /\ c.missed = {} => c.data = c.seen
        /\ c.op = "read" /\ c.step = "asserted" => Len(c.seen) >= SizeLimit
    BY <1>1 DEF OpenInv, PlacesOK, PlaceOK
  <1>4. c.step \in {"done", "asserted", "check", "open"} => \A h \in handles : h.by # p
    <2> SUFFICES ASSUME c.step \in {"done", "asserted", "check", "open"} PROVE \A h \in handles : h.by # p
      OBVIOUS
    <2>1. ~Opened(calls[p])
      BY DEF Opened
    <2> QED
      BY <1>1, <2>1 DEF OpenInv, HandlesOK, HandleOf
  <1>5. c.op = "walk" => OnDisk!IsInjective(c.listed)
    BY <1>1 DEF WalksOK, WalkInv, WalkOK
  <1>6. c.op = "walk" /\ c.step = "done" => Reaches(stable[p], <<>>, c.listed, c.missed)
    BY <1>1 DEF WalksOK, WalkInv, ToEnter
  <1>7. ASSUME c.op = "walk", c.step = "done", NEW x \in stable[p],
               OnDisk!Parent(x) \in (OnDisk!ToSet(c.listed) \cup {Root}) \ c.missed
        PROVE  x \in OnDisk!ToSet(c.listed)
    <2>1. Len(<<>>) = 0
      OBVIOUS
    <2> QED
      BY <1>6, <1>7, <2>1 DEF Reaches, Known
  <1>8. ASSUME c.op = "walk", c.step = "done", c.missed = {} PROVE stable[p] \subseteq OnDisk!ToSet(c.listed)
    <2>1. Reaches(stable[p], <<>>, c.listed, {})
      BY <1>6, <1>8
    <2>2. stable[p] \subseteq Path /\ \A x \in stable[p] : OnDisk!Parent(x) \in stable[p] \cup {Root}
      BY <1>1 DEF StableOK, TreeOK, OnDisk!Existing, Places
    <2> QED
      BY <2>1, <2>2, AllListed
  <1> QED
    BY <1>2, <1>3, <1>4, <1>5, <1>7, <1>8

LEMMA DiskTyped == DiskInv => OnDisk!TypeOK
  <1> SUFFICES ASSUME DiskInv PROVE OnDisk!TypeOK
    OBVIOUS
  <1>1. OpenInv /\ TreeOK /\ HeldOK
    BY DEF DiskInv
  <1>2. \A h \in handles : h.by \in Process /\ h.path \in DOMAIN files
    BY <1>1 DEF OpenInv, HandlesOK, HandleOf, SeenOK
  <1> QED
    BY <1>1, <1>2 DEF OnDisk!TypeOK, TreeOK, Places, HeldOK, Bytes

-----------------------------------------------------------------------------
\* What one step may do to a file, by the call that takes it.
Keeps(p) == \A f \in DOMAIN files :
    \/ f \in DOMAIN files' /\ files'[f] = files[f]
    \/ /\ calls[p] # calls'[p]
       /\ \/ calls[p].op \in {"write", "delete_file"} /\ f = calls[p].path
          \/ calls[p].op \in {"copy", "move"} /\ f = calls[p].dest /\ calls[p].may
          \/ calls[p].op \in {"move", "rename"} /\ f = calls[p].path /\ files'[calls[p].dest] = files[f]

LEMMA ActKeeps ==
    ASSUME OpenInv, NEW p \in Process, OnDisk!Acts(p)
    PROVE  Keeps(p)
  <1>1. CallsOK /\ PlacesOK
    BY DEF OpenInv
  <1>2. CASE files' = files
    BY <1>2 DEF Keeps
  <1>3. ASSUME calls'[p].step # calls[p].step PROVE calls'[p] # calls[p]
    BY <1>3
  <1>4. CASE OnDisk!OpenToWrite(p)
    BY <1>4 DEF Keeps, OnDisk!OpenToWrite, OnDisk!With
  <1>5. CASE OnDisk!Position(p)
    <2>1. files' = files \/ files' = OnDisk!With(calls[p].path, <<>>)
      BY <1>1, <1>5, PositionDoes
    <2>2. calls'[p].step = "positioned" /\ calls[p].op = "write" /\ calls[p].step = "opened"
      BY <1>1, <1>5, PositionDoes DEF OnDisk!Position, OnDisk!At
    <2> QED
      BY <1>3, <2>1, <2>2 DEF Keeps, OnDisk!With
  <1>6. CASE OnDisk!WriteFile(p)
    <2>1. /\ calls[p].op = "write" /\ calls[p].step = "positioned" /\ \E ok : OnDisk!Return(p, ok)
          /\ \E contents : files' = OnDisk!With(calls[p].path, contents)
      BY <1>6 DEF OnDisk!WriteFile, OnDisk!At
    <2>2. calls'[p].step = "done"
      BY <1>1, <2>1, ReturnDoes
    <2> QED
      BY <1>3, <2>1, <2>2 DEF Keeps, OnDisk!With
  <1>7. CASE OnDisk!CopyFile(p)
    <2>1. /\ calls[p].op = "copy" /\ calls[p].step = "act" /\ OnDisk!Return(p, TRUE)
          /\ files' = OnDisk!With(calls[p].dest, files[calls[p].path])
          /\ OnDisk!CanReplace(calls[p].dest, calls[p].may)
      BY <1>7 DEF OnDisk!CopyFile, OnDisk!At
    <2>2. calls'[p] # calls[p]
      BY <1>1, <1>3, <2>1, ReturnDoes
    <2> QED
      BY <2>1, <2>2 DEF Keeps, OnDisk!With, OnDisk!CanReplace
  <1>8. CASE OnDisk!MoveFile(p)
    <2>1. /\ calls[p].op \in {"move", "rename"} /\ calls[p].step = "act" /\ OnDisk!Return(p, TRUE)
          /\ files' = OnDisk!Moved(calls[p].path, calls[p].dest) /\ calls[p].path \in DOMAIN files
          /\ calls[p].dest = calls[p].path \/ OnDisk!CanReplace(calls[p].dest, calls[p].may)
      BY <1>8 DEF OnDisk!MoveFile, OnDisk!IsFile
    <2>2. calls'[p] # calls[p]
      BY <1>1, <1>3, <2>1, ReturnDoes
    <2>3. files'[calls[p].dest] = files[calls[p].path]
      BY <2>1 DEF OnDisk!Moved
    <2>4. calls[p].op = "rename" => calls[p].may = FALSE
      BY <1>1 DEF PlacesOK, PlaceOK
    <2>5. ASSUME NEW f \in DOMAIN files, f # calls[p].path, f # calls[p].dest
          PROVE  f \in DOMAIN files' /\ files'[f] = files[f]
      BY <2>1, <2>5 DEF OnDisk!Moved
    <2>6. ASSUME calls[p].dest \in DOMAIN files, calls[p].dest # calls[p].path PROVE calls[p].op = "move" /\ calls[p].may
      BY <2>1, <2>4, <2>6 DEF OnDisk!CanReplace
    <2> QED
      BY <2>1, <2>2, <2>3, <2>5, <2>6 DEF Keeps
  <1>9. CASE OnDisk!DeleteFile(p)
    <2>1. /\ calls[p].op = "delete_file" /\ calls[p].step = "act" /\ OnDisk!Return(p, TRUE)
          /\ files' = OnDisk!Without(calls[p].path)
      BY <1>9 DEF OnDisk!DeleteFile, OnDisk!At
    <2>2. calls'[p] # calls[p]
      BY <1>1, <1>3, <2>1, ReturnDoes
    <2> QED
      BY <2>1, <2>2 DEF Keeps, OnDisk!Without
  <1> QED
    BY <1>2, <1>4, <1>5, <1>6, <1>7, <1>8, <1>9
    DEF OnDisk!Acts, OnDisk!OpenToRead, OnDisk!GetFileSize, OnDisk!ReadFile, OnDisk!Check, OnDisk!Target,
        OnDisk!Sized, OnDisk!CreateDirectory, OnDisk!RemoveDirectory, OnDisk!EnterDirectory, OnDisk!FindFirst,
        OnDisk!EndDirectory, OnDisk!ReadNextEntry, OnDisk!EntryIsDirectory, OnDisk!Refuse, OnDisk!Refused, OnDisk!Unchanged

LEMMA StepKeeps ==
    ASSUME DiskInv, OnDisk!Next
    PROVE  \A f \in DOMAIN files :
           \/ f \in DOMAIN files' /\ files'[f] = files[f]
           \/ \E p \in Process :
                  LET c == calls[p]
                  IN  /\ c # calls'[p]
                      /\ \/ c.op \in {"write", "delete_file"} /\ f = c.path
                         \/ c.op \in {"copy", "move"} /\ f = c.dest /\ c.may
                         \/ c.op \in {"move", "rename"} /\ f = c.path /\ files'[c.dest] = files[f]
  <1>1. CASE files' = files
    BY <1>1
  <1>2. ASSUME NEW p \in Process, OnDisk!Acts(p) PROVE Keeps(p)
    BY <1>2, ActKeeps DEF DiskInv
  <1> QED
    BY <1>1, <1>2 DEF Keeps, OnDisk!Next, OnDisk!Begin, OnDisk!Call, OnDisk!Unchanged

LEMMA DiskSteps == AllSpec => OnDisk!Init /\ [][OnDisk!Next]_(OnDisk!vars)
  <1>1. AllInit => OnDisk!Init
    BY DEF AllInit
  <1>2. [AllNext]_all => [OnDisk!Next]_(OnDisk!vars)
    BY DEF AllNext, OfStatics, OfCondition, OfStorage, OfFiles, Of, all, disk, OnDisk!vars
  <1> QED
    BY <1>1, <1>2, PTL DEF AllSpec

LEMMA DiskInvHolds == AllSpec => []DiskInv
  BY DiskInitOK, DiskNextOK, DiskSteps, PTL

\* path.nt.ixx, lines 638-691: no call changes a file that another has open; what is read is the whole
\* of what was opened unless its size was refused, and the assert fires only for a size beyond 32 bits;
\* a walk lists nothing twice and all that stayed there, but for the directories in which a call was
\* refused.
THEOREM OpenFilesStay == AllSpec => []NoneChangesUnder
  <1>1. DiskInv => NoneChangesUnder
    BY DiskInvShows DEF NoneChangesUnder
  <1> QED
    BY <1>1, DiskInvHolds, PTL

\* path.nt.ixx, lines 515-560: contents are lost only by a call that was told to replace or delete them.
THEOREM ContentsLostOnlyIfAllowed == AllSpec => KeptUnlessAllowed
  <1>1. DiskInv /\ [OnDisk!Next]_(OnDisk!vars) => [\A f \in DOMAIN files :
           \/ f \in DOMAIN files' /\ files'[f] = files[f]
           \/ \E p \in Process :
                  LET c == calls[p]
                  IN  /\ c # calls'[p]
                      /\ \/ c.op \in {"write", "delete_file"} /\ f = c.path
                         \/ c.op \in {"copy", "move"} /\ f = c.dest /\ c.may
                         \/ c.op \in {"move", "rename"} /\ f = c.path /\ files'[c.dest] = files[f]]_(OnDisk!vars)
    BY StepKeeps
  <1> QED
    BY <1>1, DiskInvHolds, DiskSteps, PTL DEF KeptUnlessAllowed, OnDisk!KeptUnlessAllowed

-----------------------------------------------------------------------------
(* What the behaviours of MCThreads keep. *)

\* Every waiter waits for the first notification of all, and takes nothing back.
FirstNotification == /\ IsFiniteSet(Waiter) /\ Waiter \cap Notifier = {}
                     /\ Nobody \notin Waiter \cup Notifier
                     /\ Need1 = 1 /\ Need2 = 1 /\ Take = 0 /\ NotifyAll = TRUE

\* windows_thread.cpp, lines 42-124: a notify_all reaches every waiter that waits for it, whatever
\* the threads do between the steps of wait and notify_all.
THEOREM AllWaitersReached ==
    ASSUME FirstNotification PROVE AllSpec => []NoWaiterLeftBehind
  <1>1. Waking!FirstForAll
    BY DEF FirstNotification, Waking!FirstForAll, MCNeed, IsFiniteSet, Waking!IsFiniteSet
  <1>2. Waking!Spec => []Waking!NoWaiterLeftBehind
    BY <1>1, Waking!FirstNotificationReachesAll
  <1>3. Waking!NoWaiterLeftBehind => NoWaiterLeftBehind
    BY DEF Waking!NoWaiterLeftBehind, NoWaiterLeftBehind, Condition!NoWaiterLeftBehind,
           Waking!Awake, Waking!Asleep, Condition!Awake, Condition!Asleep
  <1> QED
    BY <1>2, <1>3, IsOfCondition, PTL

\* os.win64.memory.ixx, lines 85-159: no byte of the temporary storage is given out twice before
\* the storage is emptied, whatever the threads do.
THEOREM StorageReturnsFresh == AllSpec => []ReturnsFresh
  <1>1. Storing!PlatformAssumption /\ PoolHeader \in Nat \ {0}
    BY StorageAssumption DEF Temporary!PlatformAssumption, Storing!PlatformAssumption
  <1>2. Storing!Spec => []Storing!ReturnsFresh
    BY <1>1, Storing!StorageGivenOnce
  <1>3. Storing!ReturnsFresh => ReturnsFresh
    BY DEF Storing!ReturnsFresh, ReturnsFresh, Temporary!ReturnsFresh, Storing!At, Temporary!At,
           Storing!Promise!Inside, Temporary!Promise!Inside,
           Storing!Promise!Overlap, Temporary!Promise!Overlap
  <1> QED
    BY <1>2, <1>3, IsOfStorage, PTL

\* All states of the components are well typed, however many threads, waiters, statics and processes.
THEOREM AllTyped == AllSpec => []AllTypesOK
  <1>1. Waking!Client
    BY ClientAssumption DEF Waking!Client, MCNeed, IsFiniteSet, Waking!IsFiniteSet
  <1>2. Waking!Spec => []Waking!TypeOK
    BY <1>1, Waking!CountsWaiters
  <1>3. Waking!TypeOK => Condition!TypeOK
    BY DEF Waking!TypeOK, Waking!Places, Condition!TypeOK, Condition!Places
  <1>4. Storing!PlatformAssumption /\ PoolHeader \in Nat \ {0}
    BY StorageAssumption DEF Temporary!PlatformAssumption, Storing!PlatformAssumption
  <1>5. Storing!Spec => []Storing!TypeOK
    BY <1>4, Storing!StorageTyped
  <1>6. Storing!TypeOK => Temporary!TypeOK
    BY DEF Storing!TypeOK, Storing!Calls, Storing!Block, Temporary!TypeOK, Temporary!Calls, Temporary!Block
  <1>7. TypeOK /\ Condition!TypeOK /\ Temporary!TypeOK /\ OnDisk!TypeOK => AllTypesOK
    BY DEF AllTypesOK
  <1> QED
    BY <1>2, <1>3, <1>5, <1>6, <1>7, StaticsTyped, DiskInvHolds, DiskTyped,
       IsOfStatics, IsOfCondition, IsOfStorage, PTL

\* thread_safe_statics.cpp, in a behaviour of all components: no static is used before it is constructed.
THEOREM AllStaticsConstructed == AllSpec => []UsesConstructed
  BY StaticsConstructedOnce, IsOfStatics, PTL
=============================================================================
