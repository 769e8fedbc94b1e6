---------------------------- MODULE ThreadStart ----------------------------
(***************************************************************************)
(* Starting threads (lstd_platform/windows_thread.cpp) and the allocator   *)
(* in the Context that each has (lstd/internal/context.h).  A new thread   *)
(* copies the context of its parent while the parent goes on: it may leave *)
(* the scope it launched the thread in, or end.                            *)
(***************************************************************************)
EXTENDS Integers, SequencesExt

CONSTANTS Thread, Main,
          Shared,        \* allocators that any thread may use
          Null, Garbage,
          Stays,         \* whether parents leave their context alone until their threads run
          MaxScopes      \* bound: the scopes of PUSH_ALLOC a thread is in

VARIABLES state,     \* of each thread
          Alloc,     \* Context.Alloc of each thread
          scopes,    \* what its PUSH_ALLOCs will restore
          parent,
          infos,     \* the threads whose thread_start_info is allocated
          waitsFor,  \* the thread that it waits for in thread::wait
          launched   \* history: Context.Alloc of the parent when it launched the thread

vars == <<state, Alloc, scopes, parent, infos, waitsFor, launched>>

TempAlloc(t) == <<"temporary", t>>
Allocators == Shared \cup {Null} \cup {TempAlloc(t) : t \in Thread}
States == {"absent", "created", "copied", "running", "waiting", "ended"}

Init == /\ state = [t \in Thread |-> IF t = Main THEN "running" ELSE "absent"]
        /\ Alloc = [t \in Thread |-> Null]
        /\ scopes = [t \in Thread |-> <<>>]
        /\ parent = [t \in Thread |-> Main]
        /\ infos = {}
        /\ waitsFor = [t \in Thread |-> t]
        /\ launched = [t \in Thread |-> Null]

Starting(t) == {c \in Thread : parent[c] = t /\ state[c] \in {"created", "copied"}}

-----------------------------------------------------------------------------
(***************************************************************************)
(* What a thread does.                                                     *)
(***************************************************************************)
PushAlloc(t, a) == /\ state[t] = "running" /\ Len(scopes[t]) < MaxScopes
                   /\ Stays => Starting(t) = {}
                   /\ scopes' = [scopes EXCEPT ![t] = Append(@, Alloc[t])]
                   /\ Alloc' = [Alloc EXCEPT ![t] = a]
                   /\ UNCHANGED <<state, parent, infos, waitsFor, launched>>
LeaveScope(t) == /\ state[t] = "running" /\ scopes[t] # <<>>
                 /\ Stays => Starting(t) = {}
                 /\ scopes' = [scopes EXCEPT ![t] = Front(@)]
                 /\ Alloc' = [Alloc EXCEPT ![t] = Last(scopes[t])]
                 /\ UNCHANGED <<state, parent, infos, waitsFor, launched>>

\* The context of the new thread is initialized before it runs; a thread that cannot be
\* created leaves nothing behind.
Launch(t, c) == /\ state[t] = "running" /\ state[c] = "absent"
                /\ state' = [state EXCEPT ![c] = "created"]
                /\ parent' = [parent EXCEPT ![c] = t]
                /\ launched' = [launched EXCEPT ![c] = Alloc[t]]
                /\ infos' = infos \cup {c}
                /\ UNCHANGED <<Alloc, scopes, waitsFor>>

Wait(t, c) == /\ state[t] = "running" /\ c # t /\ parent[c] = t /\ state[c] # "absent"
              /\ state' = [state EXCEPT ![t] = "waiting"]
              /\ waitsFor' = [waitsFor EXCEPT ![t] = c]
              /\ UNCHANGED <<Alloc, scopes, parent, infos, launched>>
WaitReturns(t) == /\ state[t] = "waiting" /\ state[waitsFor[t]] = "ended"
                  /\ state' = [state EXCEPT ![t] = "running"]
                  /\ waitsFor' = [waitsFor EXCEPT ![t] = t]
                  /\ UNCHANGED <<Alloc, scopes, parent, infos, launched>>

-----------------------------------------------------------------------------
(***************************************************************************)
(* wrapper_function, in the new thread.  With the thread its context goes. *)
(***************************************************************************)
ContextOf(t) == IF state[t] = "ended" THEN Garbage ELSE Alloc[t]

CopyContext(c) == /\ state[c] = "created"
                  /\ Alloc' = [Alloc EXCEPT ![c] = ContextOf(parent[c])]
                  /\ state' = [state EXCEPT ![c] = "copied"]
                  /\ UNCHANGED <<scopes, parent, infos, waitsFor, launched>>

\* A faulty thread keeps the allocator of its parent, whichever it is.
NeverUsesTemp(t) == FALSE
UsesTemp(t) == ContextOf(t) = TempAlloc(t)

\* The second look at the context of the parent.
Run(c) == /\ state[c] = "copied"
          /\ Alloc' = [Alloc EXCEPT ![c] = IF UsesTemp(parent[c]) THEN TempAlloc(c) ELSE @]
          /\ state' = [state EXCEPT ![c] = "running"]
          /\ UNCHANGED <<scopes, parent, infos, waitsFor, launched>>

End(c) == /\ state[c] = "running" /\ c # Main /\ scopes[c] = <<>>
          /\ Stays => Starting(c) = {}
          /\ state' = [state EXCEPT ![c] = "ended"]
          /\ infos' = infos \ {c}
          /\ UNCHANGED <<Alloc, scopes, parent, waitsFor, launched>>

-----------------------------------------------------------------------------
Does(t) == \/ \E a \in Shared \cup {TempAlloc(t)} : PushAlloc(t, a)
           \/ LeaveScope(t) \/ WaitReturns(t) \/ CopyContext(t) \/ Run(t) \/ End(t)
           \/ \E c \in Thread : Launch(t, c) \/ Wait(t, c)

Next == \E t \in Thread : Does(t)

Spec == Init /\ [][Next]_vars

-----------------------------------------------------------------------------
TypeOK == /\ state \in [Thread -> States] /\ parent \in [Thread -> Thread]
          /\ Alloc \in [Thread -> Allocators \cup {Garbage}]
          /\ \A t \in Thread : ToSet(scopes[t]) \subseteq Allocators \cup {Garbage}
          /\ infos \subseteq Thread /\ waitsFor \in [Thread -> Thread] /\ launched \in [Thread -> Allocators]

\* What a thread uses outside of its own scopes.
Inherited(t) == IF scopes[t] = <<>> THEN Alloc[t] ELSE scopes[t][1]

\* windows_thread.cpp, lines 154-165: a thread runs with the allocator its parent had when it
\* launched the thread, or with its own temporary one if that was the parent's, even when the
\* parent has itself been started by a thread in that way.
StartsAsLaunched ==
    \A t \in Thread \ {Main} :
        state[t] \in {"running", "waiting"} =>
            Inherited(t) = IF launched[t] = TempAlloc(parent[t]) THEN TempAlloc(t) ELSE launched[t]

\* windows_thread.cpp, lines 159-160: a thread whose parent uses its temporary allocator uses its
\* own one, "otherwise we are not thread-safe".
NoForeignTemp ==
    \A t, u \in Thread : state[t] = "running" /\ t # u => Alloc[t] # TempAlloc(u)
=============================================================================
