-------------------------- MODULE AllocationLedger --------------------------
(***************************************************************************)
(* What the debug heap promises about the identity of allocations          *)
(* (allocator.h, comments at lines 150-164): a recorded allocation has an  *)
(* ID and a count of its reallocations, RID, that starts at 0.             *)
(* Reallocating moves it or not, keeps the ID and adds 1 to RID.           *)
(***************************************************************************)
EXTENDS Naturals

CONSTANTS Header, Id

VARIABLE ledger     \* a function from the headers of the recorded allocations

Init == ledger = [h \in {} |-> 0]

Without(f, S) == [h \in DOMAIN f \ S |-> f[h]]

Record(h, i) ==
    ledger' = [g \in DOMAIN ledger \cup {h} |-> IF g = h THEN [ID |-> i, RID |-> 0] ELSE ledger[g]]

Renew(h, n) ==
    /\ n = h \/ n \notin DOMAIN ledger
    /\ ledger' = [g \in (DOMAIN ledger \ {h}) \cup {n} |->
                    IF g = n THEN [ledger[h] EXCEPT !.RID = @ + 1] ELSE ledger[g]]

Retire(S) == ledger' = Without(ledger, S)

Next == \/ \E h \in Header \ DOMAIN ledger, i \in Id : Record(h, i)
        \/ \E h \in DOMAIN ledger, n \in Header : Renew(h, n)
        \/ \E h \in DOMAIN ledger : Retire({h})
        \/ Retire(DOMAIN ledger)

Spec == Init /\ [][Next]_ledger
=============================================================================
