--------------------------- MODULE BlockAllocator ---------------------------
(***************************************************************************)
(* What general_allocate relies on when it calls an allocator              *)
(* (lstd/memory/allocator.h): a block it is given lies inside memory the   *)
(* allocator owns and shares no byte with a block still in use.            *)
(***************************************************************************)
EXTENDS Integers

CONSTANT Piece      \* the pieces of memory that can be handed to an allocator

VARIABLES owned,    \* the bytes of each piece: a function from some of Piece
          given     \* the blocks in use

\* A block is size bytes from byte start of a piece.
Overlap(a, b) == /\ a.piece = b.piece
                 /\ a.start < b.start + b.size
                 /\ b.start < a.start + a.size

Inside(b) == b.piece \in DOMAIN owned /\ 0 <= b.start /\ b.start + b.size <= owned[b.piece]

Init == given = {} /\ owned = [p \in {} |-> 0]

Give == /\ \E b \in given' : /\ Inside(b)
                            /\ \A g \in given : ~Overlap(b, g)
                            /\ given' = given \cup {b}
        /\ UNCHANGED owned

\* Blocks go out of use one by one or all at once.
TakeBack == given' \subseteq given /\ UNCHANGED owned

Own == \E p \in Piece \ DOMAIN owned :
          /\ DOMAIN owned' = DOMAIN owned \cup {p}
          /\ \A q \in DOMAIN owned : owned'[q] = owned[q]
          /\ UNCHANGED given

\* A piece is taken away with the blocks in it.
Disown == \E p \in DOMAIN owned :
             /\ owned' = [q \in DOMAIN owned \ {p} |-> owned[q]]
             /\ given' = {b \in given : b.piece # p}

Next == Give \/ TakeBack \/ Own \/ Disown

Spec == Init /\ [][Next]_<<owned, given>>
=============================================================================
