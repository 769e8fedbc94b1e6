--------------------------- MODULE TlsDestructors ---------------------------
(***************************************************************************)
(* Destructors of the thread-local variables of one thread                 *)
(* (lstd_platform/windows_no_crt/tlsdtor.cpp): nodes of a few functions,   *)
(* the newest node last.  A destructor may register another one, and it    *)
(* may end the process, and then Windows calls __dyn_tls_dtor once more.   *)
(***************************************************************************)
EXTENDS Integers, SequencesExt

CONSTANTS FUNCS_PER_NODE,
          MaxRegistered     \* bound: the functions registered

VARIABLES dtor_list,   \* nodes: sequences of functions, which are numbers
          pnode, next, \* the node and the function in it that __dyn_tls_dtor is at
          phase,       \* of the thread
          registered,  \* the number of calls of __tlregdtor
          due,         \* history: what was registered before the thread ended
          ran          \* history: what was called

vars == <<dtor_list, pnode, next, phase, registered, due, ran>>

Init == /\ dtor_list = <<>> /\ pnode = 0 /\ next = 0
        /\ phase = "runs"
        /\ registered = 0 /\ due = <<>> /\ ran = <<>>

\* The memory of another node may be refused; nobody looks at what __tlregdtor returns.
Registered(f, refused) ==
    IF dtor_list = <<>> THEN <<<<f>>>>
    ELSE IF Len(Last(dtor_list)) < FUNCS_PER_NODE THEN [dtor_list EXCEPT ![Len(dtor_list)] = Append(@, f)]
    ELSE IF refused THEN dtor_list
    ELSE Append(dtor_list, <<f>>)

Register == \E refused \in BOOLEAN :
    LET after == Registered(registered + 1, refused)
    IN  /\ registered < MaxRegistered
        /\ dtor_list' = after
        /\ registered' = registered + 1
        /\ due' = IF phase = "runs" /\ after # dtor_list THEN Append(due, registered + 1) ELSE due

__tlregdtor == /\ phase = "runs" /\ Register
               /\ UNCHANGED <<pnode, next, phase, ran>>

-----------------------------------------------------------------------------
Detaching == phase \in {"ends", "exits"}
FunctionsOf(k) == IF k = 0 THEN 0 ELSE Len(dtor_list[k])

EnterAt(k) == pnode' = k /\ next' = FunctionsOf(k)

ThreadEnds == /\ phase = "runs"
              /\ phase' = "ends"
              /\ EnterAt(Len(dtor_list))
              /\ UNCHANGED <<dtor_list, registered, due, ran>>

CallDestructor ==
    /\ Detaching /\ pnode > 0 /\ next > 0
    /\ ran' = Append(ran, dtor_list[pnode][next])
    /\ \/ next' = next - 1 /\ UNCHANGED <<dtor_list, pnode, phase, registered, due>>
       \/ next' = next - 1 /\ Register /\ UNCHANGED <<pnode, phase>>
       \/ /\ phase = "ends"
          /\ phase' = "exits"
          /\ EnterAt(Len(dtor_list))
          /\ UNCHANGED <<dtor_list, registered, due>>

\* A faulty version forgets the older nodes.
NoOther(k) == 0
Older(k) == k - 1

\* A node leaves the list when all of its functions have been called, and those in front of it,
\* which its functions have made, leave with it.
EndNode == /\ Detaching /\ pnode > 0 /\ next = 0
           /\ dtor_list' = SubSeq(dtor_list, 1, Older(pnode))
           /\ EnterAt(Older(pnode))
           /\ UNCHANGED <<phase, registered, due, ran>>

Return == /\ Detaching /\ pnode = 0
          /\ phase' = IF phase = "ends" THEN "gone" ELSE "exited"
          /\ UNCHANGED <<dtor_list, pnode, next, registered, due, ran>>

Next == __tlregdtor \/ ThreadEnds \/ CallDestructor \/ EndNode \/ Return

Spec == Init /\ [][Next]_vars

-----------------------------------------------------------------------------
TypeOK == /\ pnode \in 0..Len(dtor_list) /\ next \in 0..FUNCS_PER_NODE
          /\ phase \in {"runs", "ends", "exits", "gone", "exited"}
          /\ \A k \in DOMAIN dtor_list : Len(dtor_list[k]) \in 1..FUNCS_PER_NODE

\* tlsdtor.cpp, lines 93-126: the destructors of a thread are called in the reverse of the order
\* they were registered in, all of them; those that a destructor registers are not; when one
\* ends the process, what is called again is in the node of that destructor.
DestroyedInReverse ==
    LET twice == {i \in DOMAIN ran : \E j \in 1..i - 1 : ran[j] = ran[i]}
    IN  /\ phase = "ends" => IsPrefix(ran, Reverse(due))
        /\ phase = "gone" => ran = Reverse(due)
        /\ phase = "exited" => ToSet(due) \subseteq ToSet(ran)
        /\ Cardinality(twice) <= FUNCS_PER_NODE
=============================================================================
