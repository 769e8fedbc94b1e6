---------------------------- MODULE ArenaProofs ----------------------------
(***************************************************************************)
(* For any pieces of memory and any sizes, an arena never hands out a byte *)
(* twice and keeps the promise of BlockAllocator; and the temporary        *)
(* allocator is an arena, so that it inherits what is proved of one.       *)
(***************************************************************************)
EXTENDS TempAllocator, WellFoundedInduction, TLAPS

\* The order of the naturals is well founded, so that a set of naturals has a
\* least element.
LEMMA LessIsWellFounded == \E R : /\ IsWellFoundedOn(R, Nat)
                                  /\ \A a, b \in Nat : a < b => <<a, b>> \in R
  <1>1. IsWellFoundedOn({ss \in Nat \X Nat : ss[1] < ss[2]}, Nat)
    BY NatLessThanWellFounded DEF OpToRel
  <1>2. QED
    BY <1>1

LEMMA MinimumExists ==
    ASSUME NEW R, IsWellFoundedOn(R, Nat), NEW T, T \subseteq Nat, T # {}
    PROVE  \E x \in T : \A y \in T : ~ (<<y, x>> \in R)
  BY WFMin

LEMMA LeastExists ==
    ASSUME NEW T, T \subseteq Nat, T # {}
    PROVE  \E x \in T : \A y \in T : x <= y
  <1>1. PICK R : IsWellFoundedOn(R, Nat) /\ \A a, b \in Nat : a < b => <<a, b>> \in R
    BY LessIsWellFounded
  <1>2. PICK x \in T : \A y \in T : ~ (<<y, x>> \in R)
    BY <1>1, MinimumExists
  <1>3. x \in Nat /\ \A y \in T : y \in Nat
    OBVIOUS
  <1>4. \A y \in T : ~ (y < x)
    BY <1>1, <1>2, <1>3
  <1>5. QED
    BY <1>3, <1>4

\* The walk of ALLOCATE ends at a pool of the list, and passes no pool with
\* room.
LEMMA ChosenPoolInList ==
    ASSUME NEW A, A.pools \in Seq(Pools), A.pools # <<>>, NEW n \in Nat
    PROVE  LET k == ChosenPool(A, n)
           IN  /\ k \in 1..Len(A.pools)
               /\ k = Len(A.pools) \/ HasRoom(A.pools[k], n)
               /\ \A j \in 1..(k - 1) : ~HasRoom(A.pools[j], n)
  <1> DEFINE Stops(i) == i = Len(A.pools) \/ HasRoom(A.pools[i], n)
             T == {i \in 1..Len(A.pools) : Stops(i)}
  <1>1. Len(A.pools) \in T
    OBVIOUS
  <1>2. T \subseteq Nat
    OBVIOUS
  <1>3. PICK i \in T : \A j \in T : i <= j
    <2> HIDE DEF T
    <2>1. QED
      BY <1>1, <1>2, LeastExists
  <1>4. \A j \in 1..(i - 1) : ~HasRoom(A.pools[j], n)
    <2> SUFFICES ASSUME NEW j \in 1..(i - 1), HasRoom(A.pools[j], n) PROVE FALSE
      OBVIOUS
    <2>1. j \in 1..Len(A.pools)
      OBVIOUS
    <2>2. j \in T
      BY <2>1
    <2>3. QED
      BY <1>3, <2>2
  <1>5. QED
    BY <1>3, <1>4 DEF ChosenPool

-----------------------------------------------------------------------------
(* The invariant, as a statement about any pools and any blocks *)

PoolsOK(P) ==
    /\ P \in Seq(Pools)
    /\ \A i, j \in 1..Len(P) : P[i].piece = P[j].piece => i = j
    /\ \A i \in 1..Len(P) : P[i].Used < P[i].Size /\ P[i].Size = PieceSize[P[i].piece] - PoolHeader

BlocksOK(P, G) ==
    /\ G \subseteq [piece : Piece, start : Nat, size : Nat]
    /\ \A b \in G : \E i \in 1..Len(P) :
            b.piece = P[i].piece /\ b.start + b.size <= P[i].Used
    /\ \A a, b \in G : a # b => \/ a.piece # b.piece
                                \/ a.start + a.size <= b.start
                                \/ b.start + b.size <= a.start

PieceSet(P) == {P[i].piece : i \in 1..Len(P)}

LEMMA AddedPool ==
    ASSUME NEW P, PoolsOK(P), NEW G, BlocksOK(P, G),
           NEW piece \in Piece, \A i \in 1..Len(P) : P[i].piece # piece,
           LargeEnough(PieceSize[piece]),
           NEW Q, Q = Append(P, [piece |-> piece, Size |-> PieceSize[piece] - PoolHeader, Used |-> 0])
    PROVE  PoolsOK(Q) /\ BlocksOK(Q, G) /\ Len(Q) = Len(P) + 1
  <1> DEFINE p == [piece |-> piece, Size |-> PieceSize[piece] - PoolHeader, Used |-> 0]
  <1>1. PieceSize[piece] \in Nat /\ PoolHeader \in Nat /\ PieceSize[piece] > PoolHeader
    BY ArenaAssumption, PoolHeaderAssumption DEF LargeEnough
  <1>2. p \in Pools
    BY <1>1 DEF Pools
  <1>3. /\ P \in Seq(Pools)
        /\ \A i, j \in 1..Len(P) : P[i].piece = P[j].piece => i = j
        /\ \A i \in 1..Len(P) : P[i].Used < P[i].Size /\ P[i].Size = PieceSize[P[i].piece] - PoolHeader
    BY DEF PoolsOK
  <1>4. /\ Q \in Seq(Pools) /\ Len(Q) = Len(P) + 1
        /\ Q[Len(P) + 1] = p
        /\ \A i \in 1..Len(P) : Q[i] = P[i]
    <2> HIDE DEF p
    <2>1. Q = Append(P, p)
      BY DEF p
    <2>2. QED
      BY <1>2, <1>3, <2>1
  <1>5. p.piece = piece /\ p.Used < p.Size /\ p.Size = PieceSize[p.piece] - PoolHeader
    BY <1>1
  <1> HIDE DEF p
  <1>6. \A i \in 1..Len(Q) : i \in 1..Len(P) \/ i = Len(P) + 1
    BY <1>3, <1>4
  <1>7. PoolsOK(Q)
    <2>1. \A i, j \in 1..Len(Q) : Q[i].piece = Q[j].piece => i = j
      BY <1>3, <1>4, <1>5, <1>6
    <2>2. \A i \in 1..Len(Q) : Q[i].Used < Q[i].Size /\ Q[i].Size = PieceSize[Q[i].piece] - PoolHeader
      BY <1>3, <1>4, <1>5, <1>6
    <2>3. QED
      BY <1>4, <2>1, <2>2 DEF PoolsOK
  <1>8. BlocksOK(Q, G)
    <2>1. \A i \in 1..Len(P) : i \in 1..Len(Q)
      BY <1>3, <1>4
    <2>2. QED
      BY <1>4, <2>1, SMTT(30) DEF BlocksOK
  <1>9. QED
    BY <1>4, <1>7, <1>8

\* Q is P without its k-th pool, and D the blocks of G that do not lie in that pool. Then the pools
\* that stay, and the blocks in them, are as sound as they were.
PoolTaken(P, G, k, Q, D) ==
    /\ PoolsOK(P) /\ BlocksOK(P, G) /\ k \in 1..Len(P)
    /\ Q \in Seq(Pools) /\ Len(Q) = Len(P) - 1
    /\ \A i \in 1..(Len(P) - 1) : i < k => Q[i] = P[i]
    /\ \A i \in 1..(Len(P) - 1) : i >= k => Q[i] = P[i + 1]
    /\ \A b : b \in D <=> b \in G /\ b.piece # P[k].piece

LEMMA RemovedPool ==
    ASSUME NEW P, NEW G, NEW k, NEW Q, NEW D, PoolTaken(P, G, k, Q, D)
    PROVE  PoolsOK(Q) /\ BlocksOK(Q, D) /\ PieceSet(Q) = PieceSet(P) \ {P[k].piece}
  <1> USE DEF PoolTaken
  <1> DEFINE n == Len(P)
  <1>1. /\ P \in Seq(Pools) /\ n \in Nat
        /\ \A i, j \in 1..n : P[i].piece = P[j].piece => i = j
        /\ \A i \in 1..n : P[i].Used < P[i].Size /\ P[i].Size = PieceSize[P[i].piece] - PoolHeader
    BY DEF PoolsOK
  <1>2. k \in 1..n /\ Len(Q) = n - 1
    OBVIOUS
  <1>3. \A i \in 1..n : i # k => \E j \in 1..(n - 1) : Q[j] = P[i]
    <2> SUFFICES ASSUME NEW i \in 1..n, i # k PROVE \E j \in 1..(n - 1) : Q[j] = P[i]
      OBVIOUS
    <2>1. CASE i < k
      <3>1. i \in 1..(n - 1) /\ Q[i] = P[i]
        BY <1>1, <2>1
      <3>2. QED
        BY <3>1
    <2>2. CASE i > k
      <3>1. i - 1 \in 1..(n - 1) /\ Q[i - 1] = P[(i - 1) + 1]
        BY <1>1, <2>2
      <3>2. (i - 1) + 1 = i
        OBVIOUS
      <3>3. QED
        BY <3>1, <3>2
    <2>3. QED
      BY <1>1, <2>1, <2>2
  <1>4. \A i \in 1..(n - 1) : \E j \in 1..n :
            j # k /\ Q[i] = P[j] /\ ((j < k /\ i = j) \/ (j > k /\ i = j - 1))
    <2> SUFFICES ASSUME NEW i \in 1..(n - 1)
                 PROVE  \E j \in 1..n :
                            j # k /\ Q[i] = P[j] /\ ((j < k /\ i = j) \/ (j > k /\ i = j - 1))
      OBVIOUS
    <2>1. CASE i < k
      <3>1. i \in 1..n /\ i # k /\ Q[i] = P[i]
        BY <1>1, <2>1
      <3>2. QED
        BY <2>1, <3>1
    <2>2. CASE i >= k
      <3>1. i + 1 \in 1..n /\ i + 1 # k /\ Q[i] = P[i + 1] /\ i = (i + 1) - 1 /\ i + 1 > k
        BY <1>1, <2>2
      <3>2. QED
        BY <3>1
    <2>3. QED
      BY <1>1, <2>1, <2>2
  <1> HIDE DEF n
  <1>5. PoolsOK(Q)
    <2>1. ASSUME NEW i \in 1..(n - 1), NEW j \in 1..(n - 1), Q[i].piece = Q[j].piece
          PROVE  i = j
      <3>1. PICK f \in 1..n : Q[i] = P[f] /\ ((f < k /\ i = f) \/ (f > k /\ i = f - 1))
        BY <1>4
      <3>2. PICK g \in 1..n : Q[j] = P[g] /\ ((g < k /\ j = g) \/ (g > k /\ j = g - 1))
        BY <1>4
      <3>3. f = g
        BY <1>1, <2>1, <3>1, <3>2
      <3>4. QED
        BY <3>1, <3>2, <3>3
    <2>2. \A i \in 1..(n - 1) : Q[i].Used < Q[i].Size /\ Q[i].Size = PieceSize[Q[i].piece] - PoolHeader
      BY <1>1, <1>4
    <2>3. QED
      BY <1>2, <2>1, <2>2 DEF PoolsOK
  <1>6. BlocksOK(Q, D)
    <2>1. ASSUME NEW b \in G, b.piece # P[k].piece
          PROVE  \E i \in 1..Len(Q) : b.piece = Q[i].piece /\ b.start + b.size <= Q[i].Used
      <3>1. PICK i \in 1..n : b.piece = P[i].piece /\ b.start + b.size <= P[i].Used
        BY DEF BlocksOK, n
      <3>2. i # k
        BY <2>1, <3>1
      <3>3. QED
        BY <1>2, <1>3, <3>1, <3>2
    <2>2. QED
      BY <2>1 DEF BlocksOK
  <1>7. \A i \in 1..Len(Q) : \E j \in 1..n : j # k /\ Q[i].piece = P[j].piece
    BY <1>2, <1>4
  <1>8. \A j \in 1..n : j # k => \E i \in 1..Len(Q) : Q[i].piece = P[j].piece
    BY <1>2, <1>3
  <1>9. {Q[i].piece : i \in 1..Len(Q)} = {P[i].piece : i \in 1..n} \ {P[k].piece}
    <2>1. ASSUME NEW i \in 1..Len(Q)
          PROVE  Q[i].piece \in {P[j].piece : j \in 1..n} \ {P[k].piece}
      <3>1. PICK j \in 1..n : j # k /\ Q[i].piece = P[j].piece
        BY <1>7
      <3>2. P[j].piece # P[k].piece
        BY <1>1, <1>2, <3>1
      <3>3. QED
        BY <3>1, <3>2
    <2>2. ASSUME NEW j \in 1..n, P[j].piece # P[k].piece
          PROVE  P[j].piece \in {Q[i].piece : i \in 1..Len(Q)}
      BY <1>8, <2>2
    <2>3. QED
      BY <2>1, <2>2, ZenonT(30)
  <1>10. QED
    BY <1>5, <1>6, <1>9 DEF n, PieceSet

\* A block cut from a pool above its fill mark overlaps none of the others.
LEMMA FilledPool ==
    ASSUME NEW P, PoolsOK(P), NEW G, BlocksOK(P, G),
           NEW k \in 1..Len(P), NEW n \in Nat, P[k].Used + n < P[k].Size,
           NEW q \in Pools, q.piece = P[k].piece, q.Size = P[k].Size, q.Used = P[k].Used + n,
           NEW Q, Q \in Seq(Pools), Len(Q) = Len(P), Q[k] = q,
           \A i \in 1..Len(P) : i # k => Q[i] = P[i],
           NEW b \in [piece : Piece, start : Nat, size : Nat],
           b.piece = P[k].piece, b.start = P[k].Used, b.size = n
    PROVE  /\ PoolsOK(Q)
           /\ BlocksOK(Q, G \cup {b})
           /\ PieceSet(Q) = PieceSet(P)
           /\ \A g \in G : g.piece = b.piece => g.start + g.size <= b.start
  <1>1. /\ P \in Seq(Pools)
        /\ \A i, j \in 1..Len(P) : P[i].piece = P[j].piece => i = j
        /\ \A i \in 1..Len(P) : P[i].Used < P[i].Size /\ P[i].Size = PieceSize[P[i].piece] - PoolHeader
    BY DEF PoolsOK
  <1>2. \A i \in 1..Len(P) : P[i].piece \in Piece /\ P[i].Size \in Nat /\ P[i].Used \in Nat
    <2>1. \A i \in 1..Len(P) : P[i] \in Pools
      BY <1>1
    <2>2. QED
      BY <2>1 DEF Pools
  <1>5. /\ Q \in Seq(Pools) /\ Len(Q) = Len(P)
        /\ Q[k] = q
        /\ \A i \in 1..Len(P) : i # k => Q[i] = P[i]
    OBVIOUS
  <1>6. \A i \in 1..Len(P) : Q[i].piece = P[i].piece /\ Q[i].Size = P[i].Size /\ P[i].Used <= Q[i].Used
    BY <1>2, <1>5, SMTT(30)
  <1>7. PoolsOK(Q)
    <2>1. \A i \in 1..Len(Q) : Q[i].Used < Q[i].Size
      BY <1>1, <1>5
    <2>2. QED
      BY <1>1, <1>5, <1>6, <2>1 DEF PoolsOK
  <1>8. \A g \in G : g.start \in Nat /\ g.size \in Nat /\ g.piece \in Piece
    BY DEF BlocksOK
  <1>9. \A g \in G : g.piece = b.piece => g.start + g.size <= b.start
    BY <1>1 DEF BlocksOK
  <1>11. BlocksOK(Q, G \cup {b})
    <2>1. G \cup {b} \subseteq [piece : Piece, start : Nat, size : Nat]
      BY DEF BlocksOK
    <2>2. ASSUME NEW g \in G
          PROVE  \E i \in 1..Len(Q) : g.piece = Q[i].piece /\ g.start + g.size <= Q[i].Used
      <3>1. PICK i \in 1..Len(P) : g.piece = P[i].piece /\ g.start + g.size <= P[i].Used
        BY DEF BlocksOK
      <3>2. Q[i].Used \in Nat
        BY <1>2, <1>5
      <3>3. QED
        <4>1. i \in 1..Len(Q) /\ g.piece = Q[i].piece
          BY <1>5, <1>6, <3>1
        <4>2. P[i].Used <= Q[i].Used /\ P[i].Used \in Nat
          BY <1>2, <1>6, <3>1
        <4>3. g.start + g.size <= Q[i].Used
          BY <1>8, <3>1, <3>2, <4>2, SMTT(30)
        <4>4. QED
          BY <4>1, <4>3
    <2>3. \E i \in 1..Len(Q) : b.piece = Q[i].piece /\ b.start + b.size <= Q[i].Used
      BY <1>2, <1>5, SMTT(30)
    <2>4. ASSUME NEW a \in G \cup {b}, NEW c \in G \cup {b}, a # c
          PROVE  \/ a.piece # c.piece
                 \/ a.start + a.size <= c.start
                 \/ c.start + c.size <= a.start
      <3>1. CASE a \in G /\ c \in G
        BY <2>4, <3>1 DEF BlocksOK
      <3>2. CASE a = b /\ c \in G
        BY <1>9, <3>2
      <3>3. CASE a \in G /\ c = b
        BY <1>9, <3>3
      <3>4. QED
        BY <2>4, <3>1, <3>2, <3>3
    <2>5. QED
      BY <2>1, <2>2, <2>3, <2>4 DEF BlocksOK
  <1>12. {Q[i].piece : i \in 1..Len(Q)} = {P[i].piece : i \in 1..Len(P)}
    BY <1>5, <1>6
  <1>13. QED
    BY <1>5, <1>7, <1>9, <1>11, <1>12 DEF PieceSet

LEMMA EmptiedPools ==
    ASSUME NEW P, PoolsOK(P), NEW Q, Q \in Seq(Pools), Len(Q) = Len(P),
           \A i \in 1..Len(P) :
                Q[i].piece = P[i].piece /\ Q[i].Size = P[i].Size /\ Q[i].Used = 0
    PROVE  PoolsOK(Q) /\ BlocksOK(Q, {}) /\ PieceSet(Q) = PieceSet(P)
  <1>1. /\ P \in Seq(Pools)
        /\ \A i, j \in 1..Len(P) : P[i].piece = P[j].piece => i = j
        /\ \A i \in 1..Len(P) : P[i].Used < P[i].Size /\ P[i].Size = PieceSize[P[i].piece] - PoolHeader
    BY DEF PoolsOK
  <1>2. \A i \in 1..Len(P) : P[i].Used \in Nat /\ P[i].Size \in Nat
    <2>1. \A i \in 1..Len(P) : P[i] \in Pools
      BY <1>1
    <2>2. QED
      BY <2>1 DEF Pools
  <1>3. PoolsOK(Q)
    <2>1. \A i \in 1..Len(Q) : Q[i].Used < Q[i].Size
      BY <1>1, <1>2
    <2>2. QED
      BY <1>1, <2>1 DEF PoolsOK
  <1>4. {Q[i].piece : i \in 1..Len(Q)} = {P[i].piece : i \in 1..Len(P)}
    OBVIOUS
  <1>5. QED
    BY <1>3, <1>4 DEF BlocksOK, PieceSet

LEMMA EmptiedRecord ==
    ASSUME NEW p \in Pools, NEW q, q = [p EXCEPT !.Used = 0]
    PROVE  q \in Pools /\ q.piece = p.piece /\ q.Size = p.Size /\ q.Used = 0
  BY DEF Pools

-----------------------------------------------------------------------------
(* Steps of the arena *)

IInv == /\ arena \in [pools : Seq(Pools), PoolsCount : Nat, TotalUsed : Nat]
        /\ arena.PoolsCount = Len(arena.pools)
        /\ PoolsOK(arena.pools)
        /\ BlocksOK(arena.pools, given)

LEMMA InvariantParts == IInv <=> TypeOK /\ GivenBelowUsed /\ GivenDisjoint
  BY DEF IInv, PoolsOK, BlocksOK, TypeOK, GivenBelowUsed, GivenDisjoint

LEMMA InitialInvariant == Init => IInv
  BY DEF Init, NoPools, IInv, PoolsOK, BlocksOK

LEMMA CountedUpdate ==
    ASSUME NEW A \in [pools : Seq(Pools), PoolsCount : Nat, TotalUsed : Nat],
           NEW Q \in Seq(Pools), NEW c \in Nat,
           NEW B, B = [A EXCEPT !.pools = Q, !.PoolsCount = c]
    PROVE  B \in [pools : Seq(Pools), PoolsCount : Nat, TotalUsed : Nat]
  <1>1. B = [pools |-> Q, PoolsCount |-> c, TotalUsed |-> A.TotalUsed]
    OBVIOUS
  <1>2. A.TotalUsed \in Nat
    OBVIOUS
  <1>3. QED
    BY <1>1, <1>2

LEMMA UsedUpdate ==
    ASSUME NEW A \in [pools : Seq(Pools), PoolsCount : Nat, TotalUsed : Nat],
           NEW Q \in Seq(Pools), NEW u \in Nat,
           NEW B, B = [A EXCEPT !.pools = Q, !.TotalUsed = u]
    PROVE  B \in [pools : Seq(Pools), PoolsCount : Nat, TotalUsed : Nat]
  <1>1. B = [pools |-> Q, PoolsCount |-> A.PoolsCount, TotalUsed |-> u]
    OBVIOUS
  <1>2. A.PoolsCount \in Nat
    OBVIOUS
  <1>3. QED
    BY <1>1, <1>2

\* Every step keeps the invariant and does what BlockAllocator allows.
LEMMA AddStep ==
    ASSUME IInv, NEW piece \in Piece, Add(piece)
    PROVE  IInv' /\ Promise!Own
  <1> DEFINE P == arena.pools
             Q == Append(P, [piece |-> piece, Size |-> PieceSize[piece] - PoolHeader, Used |-> 0])
  <1>1. arena' = [arena EXCEPT !.pools = Q, !.PoolsCount = arena.PoolsCount + 1]
    BY DEF Add, AddPool
  <1>3. arena'.pools = Q /\ arena'.PoolsCount = arena.PoolsCount + 1
    <2> HIDE DEF Q
    <2>1. QED
      BY <1>1 DEF IInv
  <1>4. given' = given /\ \A i \in 1..Len(P) : P[i].piece # piece
    BY DEF Add, Pieces
  <1>5. PoolsOK(Q) /\ BlocksOK(Q, given) /\ Len(Q) = Len(P) + 1
    <2>1. LargeEnough(PieceSize[piece])
      BY DEF Add
    <2>2. PoolsOK(P) /\ BlocksOK(P, given)
      BY DEF IInv
    <2> HIDE DEF P
    <2>3. QED
      BY <1>4, <2>1, <2>2, AddedPool
  <1>6. IInv'
    <2>1. Q \in Seq(Pools)
      BY <1>5 DEF PoolsOK
    <2> HIDE DEF Q
    <2>2. arena' \in [pools : Seq(Pools), PoolsCount : Nat, TotalUsed : Nat]
      <3>1. arena \in [pools : Seq(Pools), PoolsCount : Nat, TotalUsed : Nat]
        BY DEF IInv
      <3>2. arena.PoolsCount + 1 \in Nat
        BY <3>1
      <3>3. QED
        BY <1>1, <2>1, <3>1, <3>2, CountedUpdate, Zenon
    <2>3. arena'.PoolsCount = Len(arena'.pools)
      BY <1>3, <1>5 DEF IInv
    <2>4. QED
      BY <1>3, <1>4, <1>5, <2>2, <2>3 DEF IInv
  <1>7. Pieces(arena') = Pieces(arena) \cup {piece}
    <2>1. \A i \in 1..Len(P) : Q[i] = P[i]
      BY DEF IInv
    <2>2. Q[Len(P) + 1].piece = piece
      BY DEF IInv
    <2>3. Len(P) \in Nat
      BY DEF IInv
    <2> HIDE DEF P, Q
    <2>4. {Q[i].piece : i \in 1..Len(Q)} = {P[i].piece : i \in 1..Len(P)} \cup {piece}
      BY <1>5, <2>1, <2>2, <2>3
    <2>5. QED
      BY <1>3, <2>4 DEF Pieces, P
  <1>8. piece \notin Pieces(arena)
    BY DEF Add
  <1>9. QED
    BY <1>4, <1>6, <1>7, <1>8 DEF Promise!Own, Owned

LEMMA RemoveStep ==
    ASSUME IInv, NEW piece \in Piece, Remove(piece)
    PROVE  IInv' /\ Promise!Disown
  <1> DEFINE P == arena.pools
             k == CHOOSE i \in 1..Len(P) : P[i].piece = piece
             Q == [i \in 1..(Len(P) - 1) |-> IF i < k THEN P[i] ELSE P[i + 1]]
  <1>1. P \in Seq(Pools) /\ PoolsOK(P) /\ BlocksOK(P, given)
    BY DEF IInv
  <1>2. k \in 1..Len(P) /\ P[k].piece = piece
    <2>1. \E i \in 1..Len(P) : P[i].piece = piece
      BY DEF Remove, Pieces
    <2>2. QED
      BY <2>1
  <1>3. arena' = [arena EXCEPT !.pools = Q, !.PoolsCount = arena.PoolsCount - 1]
    BY DEF Remove, RemovePool
  <1>4. /\ Q \in Seq(Pools) /\ Len(Q) = Len(P) - 1
        /\ \A i \in 1..(Len(P) - 1) : i < k => Q[i] = P[i]
        /\ \A i \in 1..(Len(P) - 1) : i >= k => Q[i] = P[i + 1]
    <2> HIDE DEF P, k
    <2>1. Q \in [1..(Len(P) - 1) -> Pools] /\ Len(P) - 1 \in Nat
      BY <1>1, <1>2
    <2>2. QED
      BY <1>1, <1>2, <2>1
  <1> HIDE DEF P, k, Q
  <1>5. PoolsOK(Q) /\ BlocksOK(Q, given') /\ PieceSet(Q) = PieceSet(P) \ {piece}
    <2>1. \A b : b \in given' <=> b \in given /\ b.piece # P[k].piece
      BY <1>2 DEF Remove
    <2>2. PoolsOK(Q) /\ BlocksOK(Q, given') /\ PieceSet(Q) = PieceSet(P) \ {P[k].piece}
      <3>1. PoolsOK(P) /\ BlocksOK(P, given) /\ k \in 1..Len(P)
        BY <1>1, <1>2
      <3>2. /\ Q \in Seq(Pools) /\ Len(Q) = Len(P) - 1
            /\ \A i \in 1..(Len(P) - 1) : i < k => Q[i] = P[i]
            /\ \A i \in 1..(Len(P) - 1) : i >= k => Q[i] = P[i + 1]
        BY <1>4
      <3>3. PoolTaken(P, given, k, Q, given')
        BY <3>1, <3>2, <2>1 DEF PoolTaken
      <3>4. QED
        BY <3>3, RemovedPool
    <2>3. QED
      BY <1>2, <2>2
  <1>6. arena'.pools = Q /\ arena'.PoolsCount = arena.PoolsCount - 1
    BY <1>3 DEF IInv
  <1>7. given' = {b \in given : b.piece # piece}
    BY DEF Remove
  <1>8. IInv'
    <2>1. arena.PoolsCount - 1 \in Nat
      BY <1>1, <1>2 DEF IInv, P
    <2>2. arena' \in [pools : Seq(Pools), PoolsCount : Nat, TotalUsed : Nat]
      <3>1. arena \in [pools : Seq(Pools), PoolsCount : Nat, TotalUsed : Nat]
        BY DEF IInv
      <3>2. QED
        BY <1>3, <1>4, <2>1, <3>1, CountedUpdate, Zenon
    <2>3. arena'.PoolsCount = Len(arena'.pools)
      BY <1>4, <1>6 DEF IInv, P
    <2>4. QED
      BY <1>5, <1>6, <1>7, <2>2, <2>3 DEF IInv
  <1>9. Pieces(arena') = Pieces(arena) \ {piece} /\ piece \in Pieces(arena)
    BY <1>5, <1>6 DEF Pieces, PieceSet, P, Remove
  <1>10. QED
    BY <1>7, <1>8, <1>9 DEF Promise!Disown, Owned

LEMMA FilledRecord ==
    ASSUME NEW p \in Pools, NEW n \in Nat, NEW q, q = [p EXCEPT !.Used = p.Used + n]
    PROVE  q \in Pools /\ q.piece = p.piece /\ q.Size = p.Size /\ q.Used = p.Used + n
  BY DEF Pools

LEMMA AllocateStep ==
    ASSUME IInv, NEW n \in Sizes, Allocate(n)
    PROVE  IInv' /\ (Promise!Give \/ UNCHANGED <<Owned, given>>)
  <1> DEFINE P == arena.pools
             k == ChosenPool(arena, n)
             q == [P[k] EXCEPT !.Used = P[k].Used + n]
             Q == [P EXCEPT ![k] = q]
             b == [piece |-> P[k].piece, start |-> P[k].Used, size |-> n]
  <1>1. P \in Seq(Pools) /\ PoolsOK(P) /\ BlocksOK(P, given) /\ n \in Nat
    BY ArenaAssumption DEF IInv
  <1>2. k \in 1..Len(P)
    BY <1>1, ChosenPoolInList DEF Allocate
  <1>3. CASE ~Fits(arena, n)
    <2>1. arena' = arena /\ given' = given
      BY <1>3 DEF Allocate, AfterAllocate
    <2>2. QED
      BY <2>1 DEF IInv, Owned, Pieces
  <1>4. CASE Fits(arena, n)
    <2>1. P[k] \in Pools
      BY <1>1, <1>2
    <2>2. q \in Pools /\ q.piece = P[k].piece /\ q.Size = P[k].Size /\ q.Used = P[k].Used + n
      <3> HIDE DEF P, k
      <3>1. QED
        BY <1>1, <2>1, FilledRecord
    <2>3. arena' = [arena EXCEPT !.pools = Q, !.TotalUsed = arena.TotalUsed + n]
      BY <1>4 DEF Allocate, AfterAllocate
    <2>4. given' = given \cup {b}
      BY <1>4 DEF Allocate, AllocatedBlock
    <2>5. P[k].Used + n < P[k].Size
      BY <1>4 DEF Fits, HasRoom
    <2>6. b \in [piece : Piece, start : Nat, size : Nat]
      BY <1>1, <2>1 DEF Pools
    <2>7. b.piece = P[k].piece /\ b.start = P[k].Used /\ b.size = n
      OBVIOUS
    <2>8. Q = [P EXCEPT ![k] = q]
      OBVIOUS
    <2> HIDE DEF P, k, q, Q, b
    <2>9. /\ Q \in Seq(Pools) /\ Len(Q) = Len(P) /\ Q[k] = q
          /\ \A i \in 1..Len(P) : i # k => Q[i] = P[i]
      BY <1>1, <1>2, <2>2, <2>8
    <2>10. /\ PoolsOK(Q)
           /\ BlocksOK(Q, given \cup {b})
           /\ PieceSet(Q) = PieceSet(P)
           /\ \A g \in given : g.piece = b.piece => g.start + g.size <= b.start
      BY <1>1, <1>2, <2>2, <2>5, <2>6, <2>7, <2>9, FilledPool
    <2>11. arena'.pools = Q /\ arena'.PoolsCount = arena.PoolsCount
      BY <2>3 DEF IInv
    <2>12. arena' \in [pools : Seq(Pools), PoolsCount : Nat, TotalUsed : Nat]
      <3>1. arena \in [pools : Seq(Pools), PoolsCount : Nat, TotalUsed : Nat]
        BY DEF IInv
      <3>2. arena.TotalUsed + n \in Nat
        BY <1>1, <3>1
      <3>3. QED
        BY <2>3, <2>9, <3>1, <3>2, UsedUpdate, Zenon
    <2>13. IInv'
      BY <2>4, <2>9, <2>10, <2>11, <2>12 DEF IInv, P
    <2>14. Pieces(arena') = Pieces(arena)
      BY <2>10, <2>11 DEF Pieces, PieceSet, P
    <2>15. Promise!Inside(b)
      <3>1. b.piece \in Pieces(arena)
        BY <1>2, <2>7 DEF Pieces, P
      <3>2. P[k].Size = PieceSize[P[k].piece] - PoolHeader
        BY <1>1, <1>2 DEF PoolsOK
      <3>3. Owned[b.piece] = P[k].Size
        BY <2>7, <3>1, <3>2 DEF Owned
      <3>4. P[k].Used \in Nat /\ P[k].Size \in Nat
        BY <2>1 DEF Pools
      <3>5. b.piece \in DOMAIN Owned
        BY <3>1 DEF Owned
      <3>6. QED
        BY <1>1, <2>5, <2>7, <3>3, <3>4, <3>5 DEF Promise!Inside
    <2>16. \A g \in given : ~Promise!Overlap(b, g)
      <3>1. \A g \in given : g.start \in Nat /\ g.size \in Nat
        BY <1>1 DEF BlocksOK
      <3>2. QED
        BY <2>6, <2>10, <3>1 DEF Promise!Overlap
    <2>17. Promise!Give
      <3>1. Owned' = Owned
        BY <2>14 DEF Owned
      <3>2. QED
        BY <2>4, <2>15, <2>16, <3>1 DEF Promise!Give
    <2>18. QED
      BY <2>13, <2>17
  <1>5. QED
    BY <1>3, <1>4

LEMMA FreeAllStep ==
    ASSUME IInv, FreeAll
    PROVE  IInv' /\ Promise!TakeBack
  <1> DEFINE P == arena.pools
             Q == [i \in 1..Len(P) |-> [P[i] EXCEPT !.Used = 0]]
  <1>1. PoolsOK(P)
    BY DEF IInv
  <1>2. arena' = [arena EXCEPT !.pools = Q, !.TotalUsed = 0] /\ given' = {}
    BY DEF FreeAll, Emptied
  <1>3. /\ Q \in Seq(Pools) /\ Len(Q) = Len(P)
        /\ \A i \in 1..Len(P) :
              Q[i].piece = P[i].piece /\ Q[i].Size = P[i].Size /\ Q[i].Used = 0
    <2> HIDE DEF P
    <2>1. ASSUME NEW i \in 1..Len(P)
          PROVE  Q[i] \in Pools /\ Q[i].piece = P[i].piece /\ Q[i].Size = P[i].Size /\ Q[i].Used = 0
      <3>1. P[i] \in Pools
        BY <1>1 DEF PoolsOK
      <3>2. Q[i] = [P[i] EXCEPT !.Used = 0]
        OBVIOUS
      <3> HIDE DEF Q
      <3>3. QED
        BY <3>1, <3>2, EmptiedRecord
    <2>2. Q \in [1..Len(P) -> Pools] /\ Len(P) \in Nat
      BY <1>1, <2>1 DEF PoolsOK
    <2>3. QED
      BY <2>1, <2>2
  <1> HIDE DEF P, Q
  <1>4. PoolsOK(Q) /\ BlocksOK(Q, {}) /\ PieceSet(Q) = PieceSet(P)
    BY <1>1, <1>3, EmptiedPools
  <1>5. arena \in [pools : Seq(Pools), PoolsCount : Nat, TotalUsed : Nat] /\ Q \in Seq(Pools)
    BY <1>4 DEF IInv, PoolsOK
  <1>6. arena' \in [pools : Seq(Pools), PoolsCount : Nat, TotalUsed : Nat]
    BY <1>2, <1>5, UsedUpdate, Zenon
  <1>7. arena'.pools = Q /\ arena'.PoolsCount = arena.PoolsCount
    BY <1>2, <1>5
  <1>8. IInv'
    BY <1>2, <1>3, <1>4, <1>6, <1>7 DEF IInv, P
  <1>9. Owned' = Owned
    BY <1>4, <1>7 DEF Owned, Pieces, PieceSet, P
  <1>10. QED
    BY <1>2, <1>8, <1>9 DEF Promise!TakeBack

LEMMA NextStep ==
    ASSUME IInv, [Next]_vars
    PROVE  IInv' /\ [Promise!Next]_<<Owned, given>>
  <1>1. CASE \E piece \in Piece : Add(piece)
    BY <1>1, AddStep DEF Promise!Next
  <1>2. CASE \E piece \in Piece : Remove(piece)
    BY <1>2, RemoveStep DEF Promise!Next
  <1>3. CASE \E n \in Sizes : Allocate(n)
    BY <1>3, AllocateStep DEF Promise!Next
  <1>4. CASE FreeAll
    BY <1>4, FreeAllStep DEF Promise!Next
  <1>5. CASE UNCHANGED vars
    BY <1>5 DEF vars, IInv, Owned, Pieces
  <1>6. QED
    BY <1>1, <1>2, <1>3, <1>4, <1>5 DEF Next

-----------------------------------------------------------------------------
\* arena_allocator keeps its pools and counters well typed, every block in use
\* lies inside a pool below its fill mark, and no two blocks in use share a
\* byte, however pools are added and removed.
THEOREM BlocksNeverOverlap == Spec => [](TypeOK /\ GivenBelowUsed /\ GivenDisjoint)
  <1>1. Init => IInv
    BY InitialInvariant
  <1>2. IInv /\ [Next]_vars => IInv'
    BY NextStep
  <1>3. IInv => TypeOK /\ GivenBelowUsed /\ GivenDisjoint
    BY InvariantParts
  <1>4. QED
    BY <1>1, <1>2, <1>3, PTL DEF Spec

\* An allocation says which pools it found without room.
LEMMA AllocateAnswers ==
    ASSUME IInv, NEW n \in Sizes, Allocate(n)
    PROVE  /\ last'.size = n
           /\ Fits(arena, n) => last'.result # NoBlock
           /\ ~Fits(arena, n) =>
                 /\ arena' = arena /\ last'.result = NoBlock
                 /\ \A i \in 1..Len(arena.pools) : ~HasRoom(arena.pools[i], n)
  <1> DEFINE P == arena.pools
             k == ChosenPool(arena, n)
             b == [piece |-> P[k].piece, start |-> P[k].Used, size |-> n]
  <1>1. P \in Seq(Pools) /\ n \in Nat /\ P # <<>>
    BY ArenaAssumption DEF IInv, PoolsOK, Allocate
  <1>2. /\ k \in 1..Len(P)
        /\ k = Len(P) \/ HasRoom(P[k], n)
        /\ \A j \in 1..(k - 1) : ~HasRoom(P[j], n)
    BY <1>1, ChosenPoolInList
  <1>3. last' = [size |-> n, result |-> AllocatedBlock(arena, n)]
    BY DEF Allocate
  <1>4. CASE Fits(arena, n)
    <2>1. P[k] \in Pools
      BY <1>1, <1>2
    <2>2. b \in [piece : Piece, start : Nat, size : Nat]
      BY <1>1, <2>1 DEF Pools
    <2>3. last'.result = b
      BY <1>3, <1>4 DEF AllocatedBlock
    <2>4. QED
      BY <1>3, <1>4, <2>2, <2>3, ArenaAssumption
  <1>5. CASE ~Fits(arena, n)
    <2>1. arena' = arena /\ last'.result = NoBlock
      BY <1>3, <1>5 DEF Allocate, AfterAllocate, AllocatedBlock
    <2>2. ~HasRoom(P[k], n)
      BY <1>5 DEF Fits
    <2> HIDE DEF P, k
    <2>3. Len(P) \in Nat /\ k = Len(P)
      BY <1>1, <1>2, <2>2
    <2>4. \A i \in 1..Len(P) : i = k \/ i \in 1..(k - 1)
      BY <2>3
    <2>5. \A i \in 1..Len(P) : ~HasRoom(P[i], n)
      BY <1>2, <2>2, <2>4
    <2>6. QED
      BY <1>3, <1>5, <2>1, <2>5 DEF P
  <1>6. QED
    BY <1>4, <1>5

LEMMA RefusalStep ==
    ASSUME IInv, RefusedOnlyWhenFull, [Next]_vars
    PROVE  RefusedOnlyWhenFull'
  <1>1. CASE last' = Nothing
    BY <1>1 DEF Nothing, RefusedOnlyWhenFull
  <1>2. CASE \E n \in Sizes : Allocate(n)
    <2>1. PICK n \in Sizes : Allocate(n)
      BY <1>2
    <2>2. QED
      BY <2>1, AllocateAnswers DEF RefusedOnlyWhenFull
  <1>3. CASE UNCHANGED vars
    BY <1>3 DEF vars, RefusedOnlyWhenFull
  <1>4. QED
    BY <1>1, <1>2, <1>3 DEF Next, Add, Remove, FreeAll

\* arena_allocator refuses a size only when no pool of its list has room for it,
\* and never while a later pool of the list has it.
THEOREM ArenaRefusesOnlyWhenFull == Spec => []RefusedOnlyWhenFull
  <1>1. Init => IInv /\ RefusedOnlyWhenFull
    BY InitialInvariant DEF Init, Nothing, RefusedOnlyWhenFull
  <1>2. IInv /\ RefusedOnlyWhenFull /\ [Next]_vars => IInv' /\ RefusedOnlyWhenFull'
    BY NextStep, RefusalStep
  <1>3. QED
    BY <1>1, <1>2, PTL DEF Spec

\* arena_allocator implements what general_allocate expects of an allocator.
THEOREM ArenaKeepsPromise == Spec => PromiseKept
  <1>1. Init => IInv
    BY InitialInvariant
  <1>2. Init => Promise!Init
    BY DEF Init, NoPools, Promise!Init, Owned, Pieces
  <1>3. IInv /\ [Next]_vars => IInv' /\ [Promise!Next]_<<Owned, given>>
    BY NextStep
  <1>4. QED
    BY <1>1, <1>2, <1>3, PTL DEF Spec, PromiseKept, Promise!Spec

-----------------------------------------------------------------------------
(* The temporary allocator *)

\* A call that waits for a pool asks for one of the sizes.
CallOK == At("grow") \/ At("retry") => call.size \in Sizes

LEMMA CallStep ==
    ASSUME CallOK, [TempNext]_tempVars
    PROVE  CallOK'
  <1>1. CASE \E piece \in Piece : TempAdd(piece) \/ TempRemove(piece)
    BY <1>1 DEF TempAdd, TempRemove, CallOK, At
  <1>2. CASE \E n \in Sizes : AllocateFirst(n) \/ TempAllocate(n)
    <2>1. PICK n \in Sizes : UNCHANGED call \/ GoTo("null_base", n) \/ GoTo("grow", n)
      BY <1>2 DEF AllocateFirst, TempAllocate
    <2>2. QED
      BY <2>1 DEF GoTo, CallOK, At
  <1>3. CASE Grow
    <2>1. At("grow") /\ GoTo("retry", call.size)
      BY <1>3 DEF Grow
    <2>2. QED
      BY <2>1 DEF GoTo, CallOK, At
  <1>4. CASE AddStartingPool \/ TempFreeAll \/ Retry \/ OutOfMemory
    <2>1. GoTo("idle", 0) \/ GoTo("free_all", 0) \/ GoTo("null_pool", 0)
      BY <1>4 DEF AddStartingPool, TempFreeAll, Retry, OutOfMemory
    <2>2. QED
      BY <2>1 DEF GoTo, CallOK, At
  <1>5. CASE UNCHANGED tempVars
    BY <1>5 DEF tempVars, CallOK, At
  <1>6. QED
    BY <1>1, <1>2, <1>3, <1>4, <1>5 DEF TempNext

\* Every step of the extension is a step of the arena or leaves it alone.
LEMMA StepOfArena ==
    ASSUME CallOK, [TempNext]_tempVars
    PROVE  [Next]_vars
  <1>1. CASE \E piece \in Piece : TempAdd(piece) \/ TempRemove(piece)
    BY <1>1 DEF TempAdd, TempRemove, Next
  <1>2. CASE \E n \in Sizes : TempAllocate(n)
    BY <1>2 DEF TempAllocate, Next
  <1>3. CASE \E n \in Sizes : AllocateFirst(n)
    BY <1>3 DEF AllocateFirst
  <1>4. CASE Grow
    BY <1>4 DEF Grow, AddNewPool, Next
  <1>5. CASE AddStartingPool
    BY <1>5 DEF AddStartingPool, AddNewPool, Next
  <1>6. CASE Retry
    <2>1. call.size \in Sizes /\ Allocate(call.size)
      BY <1>6 DEF Retry, CallOK
    <2>2. QED
      BY <2>1 DEF Next
  <1>7. CASE TempFreeAll
    BY <1>7 DEF TempFreeAll, Next
  <1>8. CASE OutOfMemory
    BY <1>8 DEF OutOfMemory
  <1>9. CASE UNCHANGED tempVars
    BY <1>9 DEF tempVars
  <1>10. QED
    BY <1>1, <1>2, <1>3, <1>4, <1>5, <1>6, <1>7, <1>8, <1>9 DEF TempNext

\* default_temp_allocator uses its arena as any user may: what is true of every
\* arena is true of Context.TempAlloc.
THEOREM TempImplementsArena == TempSpec => ImplementsArena
  <1>1. TempInit => Init /\ CallOK
    BY DEF TempInit, CallOK, At
  <1>2. CallOK /\ [TempNext]_tempVars => CallOK' /\ [Next]_vars
    BY CallStep, StepOfArena
  <1>3. QED
    BY <1>1, <1>2, PTL DEF TempSpec, ImplementsArena, Spec

\* So the temporary allocator never hands out a byte twice.
THEOREM TempBlocksNeverOverlap == TempSpec => []GivenDisjoint
  <1>1. TempSpec => Spec
    BY TempImplementsArena DEF ImplementsArena
  <1>2. QED
    BY <1>1, BlocksNeverOverlap, PTL

-----------------------------------------------------------------------------
(* When the temporary allocator grows, and what it refuses *)

CallTyped == call \in [at : Steps, size : Sizes \cup {0}]

NoneHasRoom(n) == \A i \in 1..Len(arena.pools) : ~HasRoom(arena.pools[i], n)

GrowsForNeed == At("grow") => NoneHasRoom(call.size)

\* The second try finds the pool that was added for it, empty.
PoolWasAdded ==
    At("retry") => \E i \in 1..Len(arena.pools) :
        /\ arena.pools[i].Used = 0
        /\ arena.pools[i].Size = PoolSizeFor(call.size) - PoolHeader

RefusedNearStart ==
    At("idle") /\ last.size # 0 /\ last.result = NoBlock =>
        last.size \in (StartingPoolSize - PoolHeader)..StartingPoolSize

GrowthInv == CallTyped /\ CallOK /\ GrowsForNeed /\ PoolWasAdded /\ RefusedNearStart

LEMMA CeilPowOf2Reaches ==
    ASSUME NEW n \in Nat, NEW m \in Powers, n <= m
    PROVE  CeilPowOf2(n) \in Nat /\ n <= CeilPowOf2(n)
  <1> DEFINE T == {k \in Powers : n <= k}
  <1>1. T \subseteq Nat /\ T # {}
    BY TempAssumption
  <1>2. PICK x \in T : \A y \in T : x <= y
    <2> HIDE DEF T
    <2>1. QED
      BY <1>1, LeastExists
  <1>3. x \in Powers /\ n <= x /\ \A k \in Powers : n <= k => x <= k
    BY <1>2
  <1>4. CeilPowOf2(n) \in Powers /\ n <= CeilPowOf2(n)
    BY <1>3 DEF CeilPowOf2
  <1>5. QED
    BY <1>4, TempAssumption

\* A pool added for a size refuses it only near the starting size.
LEMMA AddedPoolRefuses ==
    ASSUME NEW n \in Sizes, NEW p, p.Used = 0, p.Size = PoolSizeFor(n) - PoolHeader,
           ~HasRoom(p, n)
    PROVE  n \in (StartingPoolSize - PoolHeader)..StartingPoolSize
  <1>1. n \in Nat /\ n # 0 /\ PoolHeader \in Nat /\ StartingPoolSize \in Nat
    BY ArenaAssumption, TempAssumption, PoolHeaderAssumption
  <1>2. ~ (n < PoolSizeFor(n) - PoolHeader)
    BY <1>1 DEF HasRoom
  <1>3. CASE StartingPoolSize < n
    <2>1. PICK m \in Powers : n * 2 <= m
      BY TempAssumption
    <2>2. CeilPowOf2(n * 2) \in Nat /\ n * 2 <= CeilPowOf2(n * 2)
      BY <1>1, <2>1, CeilPowOf2Reaches
    <2>3. PoolSizeFor(n) = CeilPowOf2(n * 2)
      BY <1>3 DEF PoolSizeFor
    <2>4. PoolHeader <= StartingPoolSize
      BY TempAssumption
    <2>5. QED
      BY <1>1, <1>2, <1>3, <2>2, <2>3, <2>4
  <1>4. CASE ~ (StartingPoolSize < n)
    <2>1. PoolSizeFor(n) = StartingPoolSize
      BY <1>4 DEF PoolSizeFor
    <2>2. QED
      BY <1>1, <1>2, <1>4, <2>1
  <1>5. QED
    BY <1>3, <1>4

\* A step that leaves the call idle, or ends it, with nothing refused.
LEMMA QuietStep ==
    ASSUME last' = Nothing, \/ At("idle") /\ call' = call
                            \/ GoTo("idle", 0) \/ GoTo("free_all", 0) \/ GoTo("null_pool", 0),
           CallTyped
    PROVE  GrowthInv'
  <1>1. At("idle")' \/ At("free_all")' \/ At("null_pool")'
    BY DEF GoTo, At
  <1>2. CallTyped'
    BY DEF GoTo, CallTyped, Steps
  <1>3. ~At("grow")' /\ ~At("retry")'
    BY <1>1 DEF At
  <1>4. last'.size = 0
    BY DEF Nothing
  <1>5. QED
    BY <1>2, <1>3, <1>4 DEF GrowthInv, CallOK, GrowsForNeed, PoolWasAdded, RefusedNearStart

LEMMA TempAllocateStep ==
    ASSUME IInv, GrowthInv, NEW n \in Sizes, TempAllocate(n)
    PROVE  GrowthInv'
  <1>1. At("idle") /\ Allocate(n)
    BY DEF TempAllocate
  <1>2. CASE Fits(arena, n)
    <2>1. call' = call /\ last'.result # NoBlock
      BY <1>1, <1>2, AllocateAnswers DEF TempAllocate
    <2>2. At("idle")' /\ ~At("grow")' /\ ~At("retry")'
      BY <1>1, <2>1 DEF At
    <2>3. QED
      BY <2>1, <2>2 DEF GrowthInv, CallTyped, CallOK, GrowsForNeed, PoolWasAdded, RefusedNearStart
  <1>3. CASE ~Fits(arena, n)
    <2>1. GoTo("grow", n) /\ arena' = arena /\ NoneHasRoom(n)
      BY <1>1, <1>3, AllocateAnswers DEF TempAllocate, NoneHasRoom
    <2>2. At("grow")' /\ ~At("idle")' /\ ~At("retry")' /\ call'.size = n /\ CallTyped'
      BY <2>1 DEF GoTo, At, CallTyped, Steps
    <2>3. NoneHasRoom(n)'
      BY <2>1 DEF NoneHasRoom
    <2>4. QED
      BY <2>2, <2>3 DEF GrowthInv, CallOK, GrowsForNeed, PoolWasAdded, RefusedNearStart, NoneHasRoom
  <1>4. QED
    BY <1>2, <1>3

LEMMA GrowStep ==
    ASSUME IInv, GrowthInv, Grow
    PROVE  GrowthInv'
  <1> DEFINE P == arena.pools
  <1>1. At("grow") /\ GoTo("retry", call.size) /\ call.size \in Sizes
    BY DEF Grow, GrowthInv, CallOK
  <1>2. PICK piece \in Piece : PieceSize[piece] = PoolSizeFor(call.size) /\ Add(piece)
    BY DEF Grow, AddNewPool
  <1> DEFINE p == [piece |-> piece, Size |-> PieceSize[piece] - PoolHeader, Used |-> 0]
  <1>3. arena' = [arena EXCEPT !.pools = Append(P, p), !.PoolsCount = arena.PoolsCount + 1]
    BY <1>2 DEF Add, AddPool
  <1>4. arena \in [pools : Seq(Pools), PoolsCount : Nat, TotalUsed : Nat] /\ P \in Seq(Pools)
    BY DEF IInv
  <1>5. arena'.pools = Append(P, p)
    <2> HIDE DEF p, P
    <2>1. QED
      BY <1>3, <1>4
  <1>6. /\ Len(arena'.pools) = Len(P) + 1 /\ Len(P) \in Nat
        /\ arena'.pools[Len(P) + 1] = p
    <2> HIDE DEF p, P
    <2>1. QED
      BY <1>4, <1>5
  <1>7. At("retry")' /\ ~At("grow")' /\ ~At("idle")' /\ call'.size = call.size /\ CallTyped'
    BY <1>1 DEF GoTo, At, CallTyped, Steps
  <1>8. PoolWasAdded'
    <2>1. p.Used = 0 /\ p.Size = PoolSizeFor(call'.size) - PoolHeader
      BY <1>2, <1>7
    <2> HIDE DEF p, P
    <2>2. Len(P) + 1 \in 1..Len(arena'.pools)
      BY <1>6
    <2>3. /\ arena'.pools[Len(P) + 1].Used = 0
          /\ arena'.pools[Len(P) + 1].Size = PoolSizeFor(call'.size) - PoolHeader
      BY <1>6, <2>1
    <2>4. QED
      BY <2>2, <2>3 DEF PoolWasAdded, PoolSizeFor, CeilPowOf2
  <1>9. QED
    BY <1>1, <1>7, <1>8 DEF GrowthInv, CallOK, GrowsForNeed, RefusedNearStart

LEMMA RetryStep ==
    ASSUME IInv, GrowthInv, Retry
    PROVE  GrowthInv'
  <1>1. At("retry") /\ Allocate(call.size) /\ GoTo("idle", 0) /\ call.size \in Sizes
    BY DEF Retry, GrowthInv, CallOK
  <1>2. At("idle")' /\ ~At("grow")' /\ ~At("retry")' /\ CallTyped'
    BY <1>1 DEF GoTo, At, CallTyped, Steps
  <1>3. ASSUME last'.result = NoBlock
        PROVE  last'.size \in (StartingPoolSize - PoolHeader)..StartingPoolSize
    <2>1. last'.size = call.size /\ NoneHasRoom(call.size)
      BY <1>1, <1>3, AllocateAnswers DEF NoneHasRoom
    <2>2. PICK i \in 1..Len(arena.pools) :
              /\ arena.pools[i].Used = 0
              /\ arena.pools[i].Size = PoolSizeFor(call.size) - PoolHeader
      BY <1>1 DEF GrowthInv, PoolWasAdded
    <2>3. ~HasRoom(arena.pools[i], call.size)
      BY <2>1 DEF NoneHasRoom
    <2>4. QED
      BY <1>1, <2>1, <2>2, <2>3, AddedPoolRefuses
  <1>4. QED
    BY <1>2, <1>3 DEF GrowthInv, CallOK, GrowsForNeed, PoolWasAdded, RefusedNearStart

\* Steps that leave the arena alone.
LEMMA StillStep ==
    ASSUME GrowthInv, UNCHANGED vars,
           UNCHANGED call \/ GoTo("null_pool", 0) \/ \E n \in Sizes : GoTo("null_base", n)
    PROVE  GrowthInv'
  <1>1. CASE UNCHANGED call
    BY <1>1 DEF vars, GrowthInv, CallTyped, CallOK, GrowsForNeed, NoneHasRoom, PoolWasAdded,
                PoolSizeFor, CeilPowOf2, RefusedNearStart, At
  <1>2. CASE GoTo("null_pool", 0) \/ \E n \in Sizes : GoTo("null_base", n)
    <2>1. ~At("grow")' /\ ~At("retry")' /\ ~At("idle")' /\ CallTyped'
      BY <1>2 DEF GoTo, At, CallTyped, Steps
    <2>2. QED
      BY <2>1 DEF GrowthInv, CallOK, GrowsForNeed, PoolWasAdded, RefusedNearStart
  <1>3. QED
    BY <1>1, <1>2

LEMMA GrowthStep ==
    ASSUME IInv, GrowthInv, [TempNext]_tempVars
    PROVE  GrowthInv'
  <1>1. CASE \E piece \in Piece : TempAdd(piece) \/ TempRemove(piece)
    BY <1>1, QuietStep DEF TempAdd, TempRemove, Add, Remove, GrowthInv
  <1>2. CASE \E n \in Sizes : AllocateFirst(n)
    BY <1>2, StillStep DEF AllocateFirst
  <1>3. CASE \E n \in Sizes : TempAllocate(n)
    BY <1>3, TempAllocateStep
  <1>4. CASE Grow
    BY <1>4, GrowStep
  <1>5. CASE Retry
    BY <1>5, RetryStep
  <1>6. CASE AddStartingPool
    BY <1>6, QuietStep DEF AddStartingPool, AddNewPool, Add, GrowthInv
  <1>7. CASE TempFreeAll
    BY <1>7, QuietStep DEF TempFreeAll, FreeAll, GrowthInv
  <1>8. CASE OutOfMemory
    BY <1>8, StillStep DEF OutOfMemory
  <1>9. CASE UNCHANGED tempVars
    BY <1>9, StillStep DEF tempVars
  <1>10. QED
    BY <1>1, <1>2, <1>3, <1>4, <1>5, <1>6, <1>7, <1>8, <1>9 DEF TempNext

LEMMA GrowthInvariant == TempSpec => [](IInv /\ GrowthInv)
  <1>1. TempInit => IInv /\ GrowthInv
    BY InitialInvariant DEF TempInit, Init, Nothing, GrowthInv, CallTyped, Steps, CallOK,
                            GrowsForNeed, PoolWasAdded, RefusedNearStart, At
  <1>2. IInv /\ GrowthInv /\ [TempNext]_tempVars => IInv' /\ GrowthInv'
    BY StepOfArena, NextStep, GrowthStep DEF GrowthInv
  <1>3. QED
    BY <1>1, <1>2, PTL DEF TempSpec

\* default_temp_allocator keeps its pools, its counters and the call under way
\* well typed, for any sizes and memory.
THEOREM TempTypeCorrect == TempSpec => []TempTypeOK
  <1>1. IInv /\ GrowthInv => TempTypeOK
    BY InvariantParts DEF GrowthInv, CallTyped, TempTypeOK
  <1>2. QED
    BY <1>1, GrowthInvariant, PTL

\* The temporary allocator adds a pool only when no pool of its list has room,
\* and refuses in the end only what is within a pool header of the starting
\* size.
THEOREM TempGrowsOnlyWhenFull == TempSpec => []GrowsOnlyWhenFull
  <1>1. GrowthInv /\ RefusedOnlyWhenFull => GrowsOnlyWhenFull
    BY DEF GrowthInv, GrowsForNeed, NoneHasRoom, RefusedNearStart, GrowsOnlyWhenFull
  <1>2. TempSpec => []RefusedOnlyWhenFull
    BY TempImplementsArena, ArenaRefusesOnlyWhenFull DEF ImplementsArena
  <1>3. QED
    BY <1>1, <1>2, GrowthInvariant, PTL
=============================================================================
