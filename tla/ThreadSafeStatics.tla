------------------------- MODULE ThreadSafeStatics -------------------------
(***************************************************************************)
(* Initialization of function-local statics (thread_safe_statics.cpp).     *)
(* The compiler guards each static with an integer, Once, and calls        *)
(* _Init_thread_header only if it is greater than the thread's epoch; the  *)
(* thread that finds it uninitialized runs the initializer and then calls  *)
(* _Init_thread_footer.  A section under the lock is one step.  An         *)
(* initializer may use other statics.                                      *)
(***************************************************************************)
EXTENDS Integers, FiniteSets

CONSTANTS Thread, Static,
          Needs,        \* of each static: the ones its initializer uses
          HalfRange,    \* 2^31, half of the values of the counter
          MaxAborts     \* bound: initializers that end in an exception

uninitialized == 0
being_initialized == -1
epoch_start == -HalfRange

ASSUME StaticsAssumption ==
    /\ Needs \in [Static -> SUBSET Static]
    /\ HalfRange \in Nat /\ HalfRange > 1 /\ MaxAborts \in Nat

VARIABLES native,       \* whether the system has condition variables, or the event is used
          Once,         \* the guard of each static
          GlobalEpoch,  \* _Init_global_epoch
          ThreadEpoch,  \* _Init_thread_epoch of each thread
          at,           \* where each thread is with each static
          constructed,  \* statics whose initializer has completed
          used,         \* statics each thread has gone on to use
          aborts

vars == <<native, Once, GlobalEpoch, ThreadEpoch, at, constructed, used, aborts>>

\* What the system has is found out at the start.
Init == /\ native \in BOOLEAN
        /\ Once = [s \in Static |-> uninitialized]
        /\ GlobalEpoch = epoch_start
        /\ ThreadEpoch = [t \in Thread |-> epoch_start]
        /\ at = [t \in Thread |-> [s \in Static |-> "out"]]
        /\ constructed = {}
        /\ used = [t \in Thread |-> {}]
        /\ aborts = 0

GoTo(t, s, step) == at' = [at EXCEPT ![t][s] = step]

Uses(t, s) == used' = [used EXCEPT ![t] = @ \cup {s}]

\* A thread comes to a static in its own code or in the innermost initializer
\* it runs.
Comes(t, s) == /\ at[t][s] = "out"
               /\ \/ \A r \in Static : at[t][r] = "out"
                  \/ \E r \in Static : /\ at[t][r] = "construct" /\ s \in Needs[r] \ used[t]
                                       /\ \A q \in Needs[r] : at[t][q] = "out"

\* The test the compiler makes without the lock.
Guard(t, s) == Once[s] > ThreadEpoch[t]

Begin(t, s) == /\ Comes(t, s)
               /\ IF Guard(t, s) THEN GoTo(t, s, "header") /\ UNCHANGED used
                                 ELSE Uses(t, s) /\ UNCHANGED at
               /\ UNCHANGED <<native, Once, GlobalEpoch, ThreadEpoch, constructed, aborts>>

\* A faulty claim does not mark the static.
ClaimUnmarked(t, s) == /\ Once[s] = uninitialized
                       /\ GoTo(t, s, "construct")
                       /\ UNCHANGED <<Once, ThreadEpoch, used>>

\* _Init_thread_header, when it has the lock: the static is the thread's to
\* initialize, or it is another's, or it is done.
Claim(t, s) == /\ Once[s] = uninitialized
               /\ Once' = [Once EXCEPT ![s] = being_initialized]
               /\ GoTo(t, s, "construct")
               /\ UNCHANGED <<ThreadEpoch, used>>

\* A native wait releases the lock and sleeps at once.
Wait(t, s) == /\ Once[s] = being_initialized
              /\ GoTo(t, s, IF native THEN "asleep" ELSE "unlocked")
              /\ UNCHANGED <<Once, ThreadEpoch, used>>

\* A faulty header takes a static under initialization for an initialized one.
SkipUnlessMine(t, s) == /\ Once[s] # uninitialized
                        /\ ThreadEpoch' = [ThreadEpoch EXCEPT ![t] = GlobalEpoch]
                        /\ Uses(t, s)
                        /\ GoTo(t, s, "out")
                        /\ UNCHANGED Once

Skip(t, s) == /\ Once[s] \notin {uninitialized, being_initialized}
              /\ ThreadEpoch' = [ThreadEpoch EXCEPT ![t] = GlobalEpoch]
              /\ Uses(t, s)
              /\ GoTo(t, s, "out")
              /\ UNCHANGED Once

Header(t, s) == /\ at[t][s] \in {"header", "relock"}
                /\ Claim(t, s) \/ Wait(t, s) \/ Skip(t, s)
                /\ UNCHANGED <<native, GlobalEpoch, constructed, aborts>>

\* The event may be set and reset before the thread waits for it.
Sleep(t, s) == /\ at[t][s] = "unlocked"
               /\ GoTo(t, s, "asleep")
               /\ UNCHANGED <<native, Once, GlobalEpoch, ThreadEpoch, constructed, used, aborts>>

\* The wait for the event ends by itself.  A native wait does so too, but the
\* model does without: the comment at line 183 says that it may be infinite.
TimeOut(t, s) == /\ at[t][s] = "asleep" /\ ~native
                 /\ GoTo(t, s, "relock")
                 /\ UNCHANGED <<native, Once, GlobalEpoch, ThreadEpoch, constructed, used, aborts>>

\* The initializer, which has used what it needs, ends or throws.
Construct(t, s) == /\ at[t][s] = "construct" /\ Needs[s] \subseteq used[t]
                   /\ GoTo(t, s, "footer")
                   /\ constructed' = constructed \cup {s}
                   /\ UNCHANGED <<native, Once, GlobalEpoch, ThreadEpoch, used, aborts>>

Abort(t, s) == /\ at[t][s] = "construct"
               /\ \A q \in Needs[s] : at[t][q] = "out"
               /\ aborts < MaxAborts /\ aborts' = aborts + 1
               /\ Once' = [Once EXCEPT ![s] = uninitialized]
               /\ GoTo(t, s, "notify")
               /\ UNCHANGED <<native, GlobalEpoch, ThreadEpoch, constructed, used>>

NewEpoch == GlobalEpoch + 1

\* _Init_thread_footer.  The epoch must not reach the two special values.
Footer(t, s) == /\ at[t][s] = "footer" /\ GlobalEpoch + 1 < being_initialized
                /\ GlobalEpoch' = GlobalEpoch + 1
                /\ Once' = [Once EXCEPT ![s] = NewEpoch]
                /\ ThreadEpoch' = [ThreadEpoch EXCEPT ![t] = GlobalEpoch + 1]
                /\ Uses(t, s)
                /\ GoTo(t, s, "notify")
                /\ UNCHANGED <<native, constructed, aborts>>

\* A faulty notification wakes nobody.
NotifyNobody(t, s) == /\ at[t][s] = "notify"
                      /\ GoTo(t, s, "out")
                      /\ UNCHANGED <<native, Once, GlobalEpoch, ThreadEpoch, constructed, used, aborts>>

\* All threads that sleep are woken, whatever static they wait for.  The event
\* is set and reset at once and wakes any of them.
Notify(t, s) ==
    /\ at[t][s] = "notify"
    /\ \E woken \in IF native THEN {Thread} ELSE SUBSET Thread :
            at' = [u \in Thread |-> [r \in Static |->
                      IF u = t /\ r = s THEN "out"
                      ELSE IF u \in woken /\ at[u][r] = "asleep" THEN "relock" ELSE at[u][r]]]
    /\ UNCHANGED <<native, Once, GlobalEpoch, ThreadEpoch, constructed, used, aborts>>

\* Once it has begun, a thread goes on.  An initializer comes to what it needs.
GoesOn(t) == \E s \in Static :
    \/ Header(t, s) \/ Sleep(t, s) \/ TimeOut(t, s) \/ Construct(t, s)
    \/ Footer(t, s) \/ Notify(t, s)
    \/ Begin(t, s) /\ \E r \in Static : at[t][r] = "construct"

Next == \E t \in Thread : \/ GoesOn(t)
                          \/ \E s \in Static : Begin(t, s) \/ Abort(t, s)

Spec == Init /\ [][Next]_vars

\* The system runs every thread, and every initializer ends.
FairSpec == Spec /\ \A t \in Thread : WF_vars(GoesOn(t))

-----------------------------------------------------------------------------
Steps == {"out", "header", "unlocked", "asleep", "relock", "construct", "footer", "notify"}

Epochs == epoch_start..GlobalEpoch

TypeOK == /\ native \in BOOLEAN
          /\ GlobalEpoch \in Int /\ epoch_start <= GlobalEpoch /\ GlobalEpoch < being_initialized
          /\ Once \in [Static -> {uninitialized, being_initialized} \cup (Epochs \ {epoch_start})]
          /\ ThreadEpoch \in [Thread -> Epochs]
          /\ at \in [Thread -> [Static -> Steps]]
          /\ constructed \subseteq Static /\ used \in [Thread -> SUBSET Static]
          /\ aborts \in Nat

Running(t, s) == at[t][s] = "construct"

\* The guard read without the lock is enough: no thread uses a static before
\* its initializer has completed, and no initializer runs in two threads at a
\* time, or again once it completed.
UsesConstructed ==
    /\ \A t \in Thread : used[t] \subseteq constructed
    /\ \A s \in Static, t \in Thread :
           Running(t, s) => s \notin constructed /\ \A u \in Thread : Running(u, s) => u = t

\* Every thread that waits for a static in the end has it.
StaticsReady == \A t \in Thread, s \in Static : at[t][s] = "header" ~> at[t][s] = "out"
=============================================================================
