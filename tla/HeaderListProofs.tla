-------------------------- MODULE HeaderListProofs --------------------------
(***************************************************************************)
(* The pointer surgery of debug_memory, for any set of headers: what each  *)
(* routine makes of a list that stands for a sequence.                     *)
(***************************************************************************)
EXTENDS HeaderList, FiniteSetTheorems, WellFoundedInduction, TLAPS

\* A function on 1..n with values in S is a sequence over S of length n.
LEMMA FunctionIsSequence ==
    ASSUME NEW S, NEW n \in Nat, NEW f \in [1..n -> S]
    PROVE  f \in Seq(S) /\ Len(f) = n
  OBVIOUS

\* One assignment to a field.
LEMMA OneUpdate ==
    ASSUME NEW A, NEW B, NEW f \in [A -> B], NEW a \in A, NEW x \in B,
           NEW g, g = [f EXCEPT ![a] = x]
    PROVE  g \in [A -> B] /\ g[a] = x /\ \A c \in A : c # a => g[c] = f[c]
  OBVIOUS

\* The three list edits, as sequences: their length and their elements.
LEMMA PrependedSequence ==
    ASSUME NEW s \in Seq(Header), NEW h \in Header
    PROVE  /\ Prepended(s, h) \in Seq(Header)
           /\ Len(Prepended(s, h)) = Len(s) + 1
           /\ Prepended(s, h)[1] = h
           /\ \A i \in 1..Len(s) : Prepended(s, h)[i + 1] = s[i]
  <1>1. Prepended(s, h) \in [1..(Len(s) + 1) -> Header]
    BY DEF Prepended
  <1>2. Len(s) + 1 \in Nat
    OBVIOUS
  <1>3. Prepended(s, h) \in Seq(Header) /\ Len(Prepended(s, h)) = Len(s) + 1
    BY <1>1, <1>2, FunctionIsSequence
  <1>4. QED
    BY <1>3 DEF Prepended

LEMMA DroppedSequence ==
    ASSUME NEW s \in Seq(Header), NEW k \in 1..Len(s)
    PROVE  /\ Dropped(s, k) \in Seq(Header)
           /\ Len(Dropped(s, k)) = Len(s) - 1
           /\ \A i \in 1..(Len(s) - 1) : Dropped(s, k)[i] = IF i < k THEN s[i] ELSE s[i + 1]
  <1>1. Dropped(s, k) \in [1..(Len(s) - 1) -> Header]
    BY DEF Dropped
  <1>2. Len(s) - 1 \in Nat
    OBVIOUS
  <1>3. Dropped(s, k) \in Seq(Header) /\ Len(Dropped(s, k)) = Len(s) - 1
    BY <1>1, <1>2, FunctionIsSequence
  <1>4. QED
    BY <1>3 DEF Dropped

LEMMA ReplacedSequence ==
    ASSUME NEW s \in Seq(Header), NEW k \in 1..Len(s), NEW h \in Header
    PROVE  /\ Replaced(s, k, h) \in Seq(Header)
           /\ Len(Replaced(s, k, h)) = Len(s)
           /\ Replaced(s, k, h)[k] = h
           /\ \A i \in 1..Len(s) : i # k => Replaced(s, k, h)[i] = s[i]
  <1>1. Replaced(s, k, h) \in [1..Len(s) -> Header]
    BY DEF Replaced
  <1>2. Replaced(s, k, h) \in Seq(Header) /\ Len(Replaced(s, k, h)) = Len(s)
    BY <1>1, FunctionIsSequence
  <1>3. QED
    BY <1>2 DEF Replaced

-----------------------------------------------------------------------------
\* add_header on a list that stands for s: it then stands for s with the new
\* header in front.
LEMMA AddHeaderCorrect ==
    ASSUME NEW L \in HeaderLists, NEW s \in Seq(Header), Distinct(s), Represents(L, s),
           NEW h \in Header, \A i \in 1..Len(s) : s[i] # h,
           NEW t \in Seq(Header), Len(t) = Len(s) + 1, t[1] = h,
           \A i \in 1..Len(s) : t[i + 1] = s[i],
           NEW M, M = AddHeader(ClearLinks(L, h), h)
    PROVE  M \in HeaderLists /\ Distinct(t) /\ Represents(M, t)
  <1>1. \A m \in 1..Len(t) : m # 1 => m - 1 \in 1..Len(s) /\ t[m] = s[m - 1]
    OBVIOUS
  <1>2. Distinct(t)
    <2> SUFFICES ASSUME NEW i \in 1..Len(t), NEW j \in 1..Len(t), t[i] = t[j]
                 PROVE  i = j
      BY DEF Distinct
    <2>1. CASE i = 1
      BY <2>1, <1>1
    <2>2. CASE j = 1
      BY <2>2, <1>1
    <2>3. CASE i # 1 /\ j # 1
      <3>1. i - 1 \in 1..Len(s) /\ j - 1 \in 1..Len(s) /\ s[i - 1] = s[j - 1]
        BY <2>3, <1>1
      <3>2. i - 1 = j - 1
        BY <3>1 DEF Distinct
      <3>3. QED
        BY <3>2
    <2>4. QED
      BY <2>1, <2>2, <2>3
  <1>3. M \in HeaderLists
    BY DEF AddHeader, ClearLinks, HeaderLists, Pointer
  <1>4. CASE s = <<>>
    <2>1. Len(t) = 1
      BY <1>4
    <2>2. L.head = Null
      BY <1>4 DEF Represents
    <2>3. M.head = h /\ M.next[h] = Null /\ M.prev[h] = h
      BY <2>2 DEF AddHeader, ClearLinks, HeaderLists, Pointer
    <2>4. QED
      BY <2>1, <2>3, <1>2, <1>3 DEF Represents
  <1>5. CASE s # <<>>
    <2>1. Len(s) \in Nat /\ Len(s) >= 1 /\ 1 \in 1..Len(s)
      BY <1>5
    <2>2. L.head = s[1] /\ L.prev[s[1]] = s[Len(s)] /\ L.next[s[Len(s)]] = Null
      BY <1>5 DEF Represents
    <2>3. \A i \in 1..Len(s) : s[i] \in Header /\ s[i] # h
      OBVIOUS
    <2>4. L.head # Null /\ s[1] \in Header /\ s[1] # h
      BY <2>1, <2>2, <2>3, HeaderAssumption
    <2>5. /\ M.head = h
          /\ M.next[h] = s[1]
          /\ M.prev[h] = s[Len(s)]
          /\ M.prev[s[1]] = h
          /\ \A x \in Header : x # h => M.next[x] = L.next[x]
          /\ \A x \in Header : x # h /\ x # s[1] => M.prev[x] = L.prev[x]
      BY <2>2, <2>4 DEF AddHeader, ClearLinks, HeaderLists, Pointer
    <2>6. t[Len(t)] = s[Len(s)] /\ t[2] = s[1]
      BY <2>1
    <2>7. M.prev[t[1]] = t[Len(t)] /\ M.next[t[Len(t)]] = Null
      BY <2>1, <2>2, <2>3, <2>5, <2>6
    <2>8. ASSUME NEW i \in 1..(Len(t) - 1)
          PROVE  M.next[t[i]] = t[i + 1] /\ M.prev[t[i + 1]] = t[i]
      <3>1. CASE i = 1
        BY <3>1, <2>5, <2>6
      <3>2. CASE i # 1
        <4>1. i - 1 \in 1..(Len(s) - 1) /\ i - 1 \in 1..Len(s) /\ i \in 1..Len(s)
          BY <3>2
        <4>2. t[i] = s[i - 1] /\ t[i + 1] = s[i]
          BY <4>1, <3>2, <1>1
        <4>3. L.next[s[i - 1]] = s[i] /\ L.prev[s[i]] = s[i - 1]
          BY <4>1 DEF Represents
        <4>4. s[i] # s[1]
          BY <4>1, <2>1, <3>2 DEF Distinct
        <4>5. QED
          BY <4>1, <4>2, <4>3, <4>4, <2>3, <2>5
      <3>3. QED
        BY <3>1, <3>2
    <2>9. QED
      BY <2>1, <2>5, <2>7, <2>8, <1>2, <1>3 DEF Represents
  <1>6. QED
    BY <1>4, <1>5

\* A list without headers stands for the empty sequence.
LEMMA EmptyIsRepresented ==
    ASSUME NEW L, L.head = Null
    PROVE  Represents(L, <<>>)
  <1>1. ~ (\E i \in 1..(Len(<<>>) - 1) : TRUE)
    OBVIOUS
  <1>2. QED
    BY <1>1 DEF Represents

\* unlink_header of the k-th header: the list then stands for s without it.
LEMMA UnlinkHeaderCorrect ==
    ASSUME NEW L \in HeaderLists, NEW s \in Seq(Header), Distinct(s), Represents(L, s),
           NEW k \in 1..Len(s),
           NEW t \in Seq(Header), Len(t) = Len(s) - 1,
           \A i \in 1..Len(t) : t[i] = IF i < k THEN s[i] ELSE s[i + 1],
           NEW M, M = UnlinkHeader(L, s[k])
    PROVE  M \in HeaderLists /\ Distinct(t) /\ Represents(M, t)
  <1> DEFINE n == Len(s)
  <1>1. n \in Nat /\ n >= 1 /\ 1 \in 1..n /\ n \in 1..n /\ s # <<>>
    OBVIOUS
  <1>2. \A i \in 1..n : s[i] \in Header /\ s[i] # Null
    BY HeaderAssumption
  <1>3. L.head = s[1] /\ L.prev[s[1]] = s[n] /\ L.next[s[n]] = Null
    BY <1>1 DEF Represents
  <1>4. \A i \in 1..(n - 1) : L.next[s[i]] = s[i + 1] /\ L.prev[s[i + 1]] = s[i]
    BY DEF Represents
  <1>5. \A i, j \in 1..n : s[i] = s[j] => i = j
    BY DEF Distinct
  <1>6. \A i \in 1..Len(t) : /\ i < k => t[i] = s[i] /\ i \in 1..n
                             /\ ~(i < k) => t[i] = s[i + 1] /\ i + 1 \in 1..n
    OBVIOUS
  <1>7. Distinct(t)
    <2> SUFFICES ASSUME NEW i \in 1..Len(t), NEW j \in 1..Len(t), t[i] = t[j]
                 PROVE  i = j
      BY DEF Distinct
    <2>1. CASE i < k /\ j < k
      BY <2>1, <1>5, <1>6, SMTT(30)
    <2>2. CASE i < k /\ ~(j < k)
      BY <2>2, <1>5, <1>6, SMTT(30)
    <2>3. CASE ~(i < k) /\ j < k
      BY <2>3, <1>5, <1>6
    <2>4. CASE ~(i < k) /\ ~(j < k)
      <3>1. i + 1 = j + 1
        BY <2>4, <1>5, <1>6
      <3>2. QED
        BY <3>1
    <2>5. QED
      BY <2>1, <2>2, <2>3, <2>4
  <1>8. CASE n = 1
    <2>1. k = 1 /\ Len(t) = 0 /\ t = <<>>
      BY <1>8
    <2>2. M = [L EXCEPT !.head = Null]
      BY <2>1, <1>3, <1>8 DEF UnlinkHeader
    <2>3. M.head = Null /\ M \in HeaderLists
      BY <2>2 DEF HeaderLists, Pointer
    <2>4. Represents(M, t)
      BY <2>1, <2>3, EmptyIsRepresented
    <2>5. QED
      BY <2>3, <2>4, <1>7
  <1>9. CASE n # 1 /\ k = 1
    <2>1. /\ s[n] # s[1] /\ L.next[s[1]] = s[2] /\ s[2] \in Header /\ 2 \in 1..n
      <3>1. 1 \in 1..(n - 1) /\ 2 \in 1..n
        BY <1>1, <1>9
      <3>2. QED
        BY <3>1, <1>1, <1>2, <1>4, <1>5, <1>9
    <2>2. M = [head |-> s[2], next |-> L.next, prev |-> [L.prev EXCEPT ![s[2]] = s[n]]]
      BY <2>1, <1>3, <1>9 DEF UnlinkHeader
    <2>3. M \in HeaderLists
      BY <2>1, <2>2, <1>1, <1>2 DEF HeaderLists, Pointer
    <2>4. \A i \in 1..Len(t) : t[i] = s[i + 1] /\ i + 1 \in 1..n
      BY <1>9, <1>6
    <2>5. Len(t) >= 1 /\ t[1] = s[2] /\ t[Len(t)] = s[n] /\ t # <<>>
      BY <2>4, <1>1, <1>9
    <2>6. M.head = t[1] /\ M.prev[t[1]] = t[Len(t)] /\ M.next[t[Len(t)]] = Null
      BY <2>1, <2>2, <2>5, <1>3 DEF HeaderLists
    <2>7. ASSUME NEW i \in 1..(Len(t) - 1)
          PROVE  M.next[t[i]] = t[i + 1] /\ M.prev[t[i + 1]] = t[i]
      <3>1. i + 1 \in 1..(n - 1) /\ i + 2 \in 1..n /\ t[i] = s[i + 1] /\ t[i + 1] = s[i + 2]
        BY <2>4, <1>1
      <3>2. L.next[s[i + 1]] = s[i + 2] /\ L.prev[s[i + 2]] = s[i + 1]
        BY <3>1, <1>4
      <3>3. s[i + 2] # s[2]
        BY <3>1, <2>1, <1>5
      <3>4. QED
        BY <3>1, <3>2, <3>3, <2>2, <1>2 DEF HeaderLists
    <2>8. QED
      BY <2>3, <2>5, <2>6, <2>7, <1>7 DEF Represents
  <1>10. CASE n # 1 /\ k # 1
    <2>1. /\ k - 1 \in 1..(n - 1) /\ k - 1 \in 1..n
          /\ L.prev[s[k]] = s[k - 1] /\ L.next[s[k - 1]] = s[k]
          /\ s[k] # s[1] /\ s[k - 1] # s[k]
      <3>1. k - 1 \in 1..(n - 1) /\ k - 1 \in 1..n
        BY <1>1, <1>10
      <3>2. QED
        BY <3>1, <1>1, <1>4, <1>5, <1>10
    <2> DEFINE succ == L.next[s[k]]
    <2>2. /\ M.head = s[1]
          /\ M.next = [L.next EXCEPT ![s[k - 1]] = succ]
          /\ M.prev = IF succ # Null THEN [L.prev EXCEPT ![succ] = s[k - 1]]
                                     ELSE [L.prev EXCEPT ![s[1]] = s[k - 1]]
      BY <2>1, <1>3 DEF UnlinkHeader
    <2>3. M = [head |-> M.head, next |-> M.next, prev |-> M.prev]
      BY <2>1, <1>3 DEF UnlinkHeader
    <2>4. succ \in Pointer
      BY <1>2 DEF HeaderLists
    <2>5. M \in HeaderLists
      <3>1. M.head \in Pointer /\ M.next \in [Header -> Pointer]
        <4>1. M.head = s[1] /\ M.next = [L.next EXCEPT ![s[k - 1]] = succ]
          BY <2>2
        <4>2. L.next \in [Header -> Pointer]
          BY DEF HeaderLists
        <4> HIDE DEF succ
        <4>3. s[k - 1] \in Header
          BY <2>1, <1>2
        <4>4. M.next \in [Header -> Pointer]
          BY <4>1, <4>2, <4>3, <2>4, OneUpdate
        <4>5. QED
          BY <4>1, <4>4, <1>1, <1>2 DEF Pointer
      <3>2. M.prev \in [Header -> Pointer]
        BY <2>1, <2>2, <1>2 DEF HeaderLists, Pointer
      <3>3. QED
        BY <2>3, <3>1, <3>2 DEF HeaderLists
    <2>6. t[1] = s[1] /\ Len(t) >= 1 /\ t # <<>>
      BY <1>1, <1>6, <1>10
    <2>7. CASE k = n
      <3>1. succ = Null
        BY <2>7, <1>3
      <3>2. \A i \in 1..Len(t) : t[i] = s[i] /\ i \in 1..n /\ i < n
        BY <2>7, <1>6
      <3>3. /\ M.next[s[k - 1]] = Null
            /\ \A x \in Header : x # s[k - 1] => M.next[x] = L.next[x]
            /\ M.prev[s[1]] = s[k - 1]
            /\ \A x \in Header : x # s[1] => M.prev[x] = L.prev[x]
        BY <3>1, <2>1, <2>2, <1>1, <1>2 DEF HeaderLists
      <3>4. t[Len(t)] = s[k - 1]
        BY <3>2, <2>1, <2>7
      <3>5. ASSUME NEW i \in 1..(Len(t) - 1)
            PROVE  M.next[t[i]] = t[i + 1] /\ M.prev[t[i + 1]] = t[i]
        <4>1. i \in 1..(n - 1) /\ i \in 1..n /\ i + 1 \in 1..n /\ i # k - 1 /\ i + 1 # 1
          BY <2>7, <1>1
        <4>2. t[i] = s[i] /\ t[i + 1] = s[i + 1]
          BY <3>2
        <4>3. s[i] # s[k - 1] /\ s[i + 1] # s[1]
          BY <4>1, <2>1, <1>1, <1>5
        <4>4. QED
          BY <4>1, <4>2, <4>3, <3>3, <1>2, <1>4, SMTT(30)
      <3>6. QED
        BY <3>3, <3>4, <3>5, <2>2, <2>5, <2>6, <1>7 DEF Represents
    <2>8. CASE k # n
      <3>1. k \in 1..(n - 1) /\ k + 1 \in 1..n /\ succ = s[k + 1] /\ succ # Null /\ succ \in Header
        <4>1. k \in 1..(n - 1) /\ k + 1 \in 1..n
          BY <2>8, <1>1
        <4>2. QED
          BY <4>1, <1>2, <1>4
      <3>2. succ # s[1] /\ \A i \in 1..n : i # k + 1 => s[i] # succ
        BY <3>1, <1>1, <1>5
      <3>3. /\ M.next[s[k - 1]] = succ
            /\ \A x \in Header : x # s[k - 1] => M.next[x] = L.next[x]
            /\ M.prev[succ] = s[k - 1]
            /\ \A x \in Header : x # succ => M.prev[x] = L.prev[x]
        BY <3>1, <2>1, <2>2, <1>2 DEF HeaderLists
      <3>4. t[Len(t)] = s[n]
        BY <2>8, <1>1, <1>6
      <3>5. M.prev[s[1]] = s[n] /\ M.next[s[n]] = Null
        <4>1. s[n] # s[k - 1]
          BY <2>1, <1>1, <1>5
        <4>2. QED
          BY <4>1, <3>2, <3>3, <1>1, <1>2, <1>3
      <3>6. ASSUME NEW i \in 1..(Len(t) - 1)
            PROVE  M.next[t[i]] = t[i + 1] /\ M.prev[t[i + 1]] = t[i]
        <4>1. CASE i < k - 1
          <5>1. i \in 1..(n - 1) /\ i \in 1..n /\ i + 1 \in 1..n /\ t[i] = s[i] /\ t[i + 1] = s[i + 1]
            BY <4>1, <1>6, <1>1
          <5>2. s[i] # s[k - 1] /\ s[i + 1] # succ
            BY <4>1, <5>1, <2>1, <3>2, <1>5
          <5>3. QED
            BY <5>1, <5>2, <3>3, <1>2, <1>4, SMTT(30)
        <4>2. CASE i = k - 1
          <5>1. t[i] = s[k - 1] /\ t[i + 1] = s[k + 1]
            BY <4>2, <1>6, <1>1
          <5>2. QED
            BY <5>1, <3>1, <3>3
        <4>3. CASE i > k - 1
          <5>1. /\ i + 1 \in 1..(n - 1) /\ i + 1 \in 1..n /\ i + 2 \in 1..n
                /\ t[i] = s[i + 1] /\ t[i + 1] = s[i + 2]
            BY <4>3, <1>6, <1>1
          <5>2. s[i + 1] # s[k - 1] /\ s[i + 2] # succ
            BY <4>3, <5>1, <2>1, <3>2, <1>5
          <5>3. L.next[s[i + 1]] = s[i + 2] /\ L.prev[s[i + 2]] = s[i + 1]
            <6>1. PICK j \in 1..(n - 1) : j = i + 1
              BY <5>1
            <6>2. L.next[s[j]] = s[j + 1] /\ L.prev[s[j + 1]] = s[j]
              BY <1>4
            <6>3. j + 1 = i + 2
              BY <6>1
            <6>4. QED
              BY <6>1, <6>2, <6>3
          <5>4. QED
            BY <5>1, <5>2, <5>3, <3>3, <1>2, SMTT(30)
        <4>4. QED
          BY <4>1, <4>2, <4>3
      <3>7. QED
        BY <3>4, <3>5, <3>6, <2>2, <2>5, <2>6, <1>7 DEF Represents
    <2>9. QED
      BY <2>7, <2>8
  <1>11. QED
    BY <1>8, <1>9, <1>10

\* swap_header of the k-th header with an unlisted header h: the list then
\* stands for s with h in the place of s[k].
LEMMA SwapHeaderCorrect ==
    ASSUME NEW K \in HeaderLists, NEW s \in Seq(Header), Distinct(s), Represents(K, s),
           NEW k \in 1..Len(s), NEW h \in Header, \A i \in 1..Len(s) : s[i] # h,
           NEW t \in Seq(Header), Len(t) = Len(s),
           t[k] = h, \A i \in 1..Len(s) : i # k => t[i] = s[i],
           NEW M, M = SwapHeader(ClearLinks(K, h), s[k], h)
    PROVE  M \in HeaderLists /\ Distinct(t) /\ Represents(M, t)
  <1> DEFINE n == Len(s)
             L == ClearLinks(K, h)
             p == L.prev[s[k]]
             q == L.next[s[k]]
  <1>1. n \in Nat /\ n >= 1 /\ 1 \in 1..n /\ n \in 1..n /\ s # <<>> /\ t # <<>>
    OBVIOUS
  <1>2. \A i \in 1..n : s[i] \in Header /\ s[i] # Null /\ s[i] # h
    BY HeaderAssumption
  <1>3. L \in HeaderLists
    BY DEF ClearLinks, HeaderLists, Pointer
  <1>4. L.head = s[1] /\ L.prev[s[1]] = s[n] /\ L.next[s[n]] = Null
    <2>1. K.head = s[1] /\ K.prev[s[1]] = s[n] /\ K.next[s[n]] = Null
      BY <1>1 DEF Represents
    <2>2. QED
      BY <2>1, <1>1, <1>2 DEF ClearLinks, HeaderLists
  <1>5. \A i \in 1..(n - 1) : L.next[s[i]] = s[i + 1] /\ L.prev[s[i + 1]] = s[i]
    <2> SUFFICES ASSUME NEW i \in 1..(n - 1)
                 PROVE  L.next[s[i]] = s[i + 1] /\ L.prev[s[i + 1]] = s[i]
      OBVIOUS
    <2>1. K.next[s[i]] = s[i + 1] /\ K.prev[s[i + 1]] = s[i]
      BY DEF Represents
    <2>2. i \in 1..n /\ i + 1 \in 1..n
      BY <1>1
    <2>3. QED
      BY <2>1, <2>2, <1>2 DEF ClearLinks, HeaderLists
  <1> HIDE DEF L
  <1>6. \A i, j \in 1..n : s[i] = s[j] => i = j
    BY DEF Distinct
  <1>7. Distinct(t)
    BY <1>2, <1>6 DEF Distinct
  <1>8. p \in Pointer /\ q \in Pointer /\ L.prev \in [Header -> Pointer] /\ L.next \in [Header -> Pointer]
    BY <1>2, <1>3 DEF HeaderLists
  <1>9. CASE n = 1
    <2>1. k = 1 /\ q = Null /\ L.head = s[k] /\ Len(t) = 1 /\ t[1] = h
      BY <1>9, <1>4
    <2>2. M = [head |-> h, next |-> [L.next EXCEPT ![h] = Null], prev |-> [L.prev EXCEPT ![h] = h]]
      BY <2>1, <1>8 DEF SwapHeader, L
    <2>3. M \in HeaderLists
      BY <2>2, <1>8 DEF HeaderLists, Pointer
    <2>4. M.head = h /\ M.next[h] = Null /\ M.prev[h] = h
      BY <2>2, <1>8
    <2>5. QED
      BY <2>1, <2>3, <2>4, <1>7, <1>1 DEF Represents
  <1>10. CASE n # 1 /\ k = 1
    <2>1. /\ q = s[2] /\ 2 \in 1..n /\ 1 \in 1..(n - 1) /\ p = s[n] /\ L.head = s[k]
          /\ s[2] # Null /\ s[2] # s[1]
      <3>1. 1 \in 1..(n - 1) /\ 2 \in 1..n
        BY <1>1, <1>10
      <3>2. s[1 + 1] = s[2]
        OBVIOUS
      <3>3. QED
        BY <3>1, <3>2, <1>1, <1>2, <1>4, <1>5, <1>6, <1>10
    <2>2. M = [head |-> h, next |-> [L.next EXCEPT ![h] = s[2]],
               prev |-> [L.prev EXCEPT ![h] = s[n], ![s[2]] = h]]
      BY <2>1 DEF SwapHeader, L
    <2>9. /\ s[2] \in Header /\ s[2] \in Pointer /\ s[2] # h
          /\ s[n] \in Pointer /\ h \in Pointer
      BY <2>1, <1>1, <1>2 DEF Pointer
    <2>10. /\ M.next \in [Header -> Pointer] /\ M.next[h] = s[2]
           /\ \A x \in Header : x # h => M.next[x] = L.next[x]
      <3>1. M.next = [L.next EXCEPT ![h] = s[2]]
        BY <2>2
      <3>2. QED
        BY <3>1, <2>9, <1>8, OneUpdate, SMTT(60)
    <2>11. /\ M.prev \in [Header -> Pointer] /\ M.prev[h] = s[n] /\ M.prev[s[2]] = h
           /\ \A x \in Header : x # h /\ x # s[2] => M.prev[x] = L.prev[x]
      <3>1. M.prev = [L.prev EXCEPT ![h] = s[n], ![s[2]] = h]
        BY <2>2
      <3> DEFINE g == [L.prev EXCEPT ![h] = s[n]]
      <3>a. g \in [Header -> Pointer] /\ g[h] = s[n] /\ \A x \in Header : x # h => g[x] = L.prev[x]
        BY <2>9, <1>8, OneUpdate
      <3>b. M.prev = [g EXCEPT ![s[2]] = h]
        BY <3>1
      <3> HIDE DEF g
      <3>c. M.prev \in [Header -> Pointer] /\ M.prev[s[2]] = h /\ \A x \in Header : x # s[2] => M.prev[x] = g[x]
        BY <2>9, <3>a, <3>b, OneUpdate
      <3>2. QED
        BY <2>9, <3>a, <3>c
    <2>3. M \in HeaderLists
      BY <2>2, <2>9, <2>10, <2>11 DEF HeaderLists
    <2>4. /\ M.head = h /\ M.next[h] = s[2] /\ M.prev[h] = s[n] /\ M.prev[s[2]] = h
          /\ \A x \in Header : x # h => M.next[x] = L.next[x]
          /\ \A x \in Header : x # h /\ x # s[2] => M.prev[x] = L.prev[x]
      BY <2>2, <2>10, <2>11
    <2>5. t[1] = h /\ Len(t) = n /\ t[n] = s[n] /\ \A i \in 2..n : t[i] = s[i]
      BY <1>10, <1>1
    <2>6. M.next[t[n]] = Null
      BY <2>4, <2>5, <1>1, <1>2, <1>4
    <2>7. ASSUME NEW i \in 1..(n - 1)
          PROVE  M.next[t[i]] = t[i + 1] /\ M.prev[t[i + 1]] = t[i]
      <3>1. CASE i = 1
        BY <3>1, <2>1, <2>4, <2>5
      <3>2. CASE i # 1
        <4>1. i \in 2..n /\ i + 1 \in 2..n /\ i \in 1..n /\ i + 1 \in 1..n /\ i + 1 # 2
          BY <3>2, <1>1
        <4>2. s[i + 1] # s[2]
          BY <4>1, <2>1, <1>6
        <4>3. QED
          BY <4>1, <4>2, <2>4, <2>5, <1>2, <1>5, SMTT(30)
      <3>3. QED
        BY <3>1, <3>2
    <2>8. QED
      BY <2>3, <2>4, <2>5, <2>6, <2>7, <1>7, <1>1 DEF Represents
  <1>11. CASE n # 1 /\ k # 1
    <2>1. /\ k - 1 \in 1..(n - 1) /\ k - 1 \in 1..n /\ p = s[k - 1] /\ L.head # s[k]
          /\ s[1] # s[k]
      <3>1. k - 1 \in 1..(n - 1) /\ k - 1 \in 1..n
        BY <1>1, <1>11
      <3>2. L.prev[s[(k - 1) + 1]] = s[k - 1]
        BY <3>1, <1>5
      <3>3. QED
        BY <3>1, <3>2, <1>1, <1>4, <1>6, <1>11
    <2>2. /\ M.head = s[1]
          /\ M.next = [[L.next EXCEPT ![h] = q] EXCEPT ![s[k - 1]] = h]
          /\ M.prev = IF q = Null THEN [L.prev EXCEPT ![h] = s[k - 1], ![s[1]] = h]
                                  ELSE [L.prev EXCEPT ![h] = s[k - 1], ![q] = h]
          /\ M = [head |-> M.head, next |-> M.next, prev |-> M.prev]
      BY <2>1, <1>4 DEF SwapHeader, L
    <2>3. /\ M.next[h] = q /\ M.next[s[k - 1]] = h
          /\ \A x \in Header : x # h /\ x # s[k - 1] => M.next[x] = L.next[x]
          /\ M.next \in [Header -> Pointer]
      <3> DEFINE g == [L.next EXCEPT ![h] = q]
      <3>1. M.next = [g EXCEPT ![s[k - 1]] = h]
        BY <2>2
      <3> HIDE DEF q
      <3>2. g \in [Header -> Pointer] /\ g[h] = q /\ \A x \in Header : x # h => g[x] = L.next[x]
        BY <1>8, OneUpdate
      <3> HIDE DEF g
      <3>3. s[k - 1] \in Header /\ s[k - 1] # h /\ h \in Pointer
        BY <2>1, <1>2 DEF Pointer
      <3>4. /\ M.next \in [Header -> Pointer] /\ M.next[s[k - 1]] = h
            /\ \A x \in Header : x # s[k - 1] => M.next[x] = g[x]
        BY <3>1, <3>2, <3>3, OneUpdate
      <3>5. QED
        BY <3>2, <3>3, <3>4
    <2>4. \A i \in 1..n : i # k => t[i] = s[i]
      OBVIOUS
    <2>5. t[k] = h /\ t[1] = s[1] /\ Len(t) = n
      BY <1>1, <1>11
    <2>6. CASE k = n
      <3>1. q = Null
        BY <2>6, <1>4
      <3>2. /\ M.prev[h] = s[k - 1] /\ M.prev[s[1]] = h
            /\ \A x \in Header : x # h /\ x # s[1] => M.prev[x] = L.prev[x]
            /\ M.prev \in [Header -> Pointer]
        <4>1. M.prev = [L.prev EXCEPT ![h] = s[k - 1], ![s[1]] = h]
          BY <3>1, <2>2
        <4>2. s[1] \in Header /\ s[1] # h /\ s[k - 1] \in Pointer /\ h \in Pointer
          BY <2>1, <1>1, <1>2 DEF Pointer
        <4> DEFINE g == [L.prev EXCEPT ![h] = s[k - 1]]
        <4>a. g \in [Header -> Pointer] /\ g[h] = s[k - 1] /\ \A x \in Header : x # h => g[x] = L.prev[x]
          BY <4>2, <1>8, OneUpdate
        <4>b. M.prev = [g EXCEPT ![s[1]] = h]
          BY <4>1
        <4> HIDE DEF g
        <4>c. M.prev \in [Header -> Pointer] /\ M.prev[s[1]] = h /\ \A x \in Header : x # s[1] => M.prev[x] = g[x]
          BY <4>2, <4>a, <4>b, OneUpdate
        <4>3. QED
          BY <4>2, <4>a, <4>c
      <3>3. M \in HeaderLists
        BY <3>2, <2>2, <2>3, <1>1, <1>2 DEF HeaderLists, Pointer
      <3>4. ASSUME NEW i \in 1..(n - 1)
            PROVE  M.next[t[i]] = t[i + 1] /\ M.prev[t[i + 1]] = t[i]
        <4>1. i \in 1..n /\ i # k /\ t[i] = s[i]
          BY <2>4, <2>6, <1>1
        <4>2. CASE i = k - 1
          BY <4>1, <4>2, <2>3, <2>5, <3>2
        <4>3. CASE i # k - 1
          <5>1. i + 1 \in 1..n /\ i + 1 # k /\ t[i + 1] = s[i + 1] /\ i + 1 # 1
            BY <4>3, <2>4, <1>1
          <5>2. s[i] # s[k - 1] /\ s[i + 1] # s[1]
            BY <4>1, <4>3, <5>1, <2>1, <1>1, <1>6, SMTT(30)
          <5>3. QED
            BY <4>1, <5>1, <5>2, <2>3, <3>2, <1>2, <1>5, SMTT(30)
        <4>4. QED
          BY <4>2, <4>3
      <3>5. QED
        BY <3>1, <3>2, <3>3, <3>4, <2>2, <2>3, <2>5, <2>6, <1>1, <1>7 DEF Represents
    <2>7. CASE k # n
      <3>1. k \in 1..(n - 1) /\ k + 1 \in 1..n /\ q = s[k + 1] /\ q # Null /\ q \in Header /\ q # h
        <4>1. k \in 1..(n - 1) /\ k + 1 \in 1..n
          BY <2>7, <1>1
        <4>2. QED
          BY <4>1, <1>2, <1>5, SMTT(30)
      <3>2. /\ M.prev[h] = s[k - 1] /\ M.prev[q] = h
            /\ \A x \in Header : x # h /\ x # q => M.prev[x] = L.prev[x]
            /\ M.prev \in [Header -> Pointer]
        <4>1. M.prev = [L.prev EXCEPT ![h] = s[k - 1], ![q] = h]
          BY <3>1, <2>2
        <4>2. s[k - 1] \in Pointer /\ h \in Pointer
          BY <2>1, <1>2 DEF Pointer
        <4> HIDE DEF q
        <4> DEFINE g == [L.prev EXCEPT ![h] = s[k - 1]]
        <4>a. g \in [Header -> Pointer] /\ g[h] = s[k - 1] /\ \A x \in Header : x # h => g[x] = L.prev[x]
          BY <4>2, <1>8, OneUpdate
        <4>b. M.prev = [g EXCEPT ![q] = h]
          BY <4>1
        <4> HIDE DEF g
        <4>c. M.prev \in [Header -> Pointer] /\ M.prev[q] = h /\ \A x \in Header : x # q => M.prev[x] = g[x]
          BY <3>1, <4>2, <4>a, <4>b, OneUpdate
        <4>3. QED
          BY <3>1, <4>2, <4>a, <4>c
      <3>3. M \in HeaderLists
        BY <3>2, <2>2, <2>3, <1>1, <1>2 DEF HeaderLists, Pointer
      <3>4. M.prev[t[1]] = t[n] /\ M.next[t[n]] = Null
        <4>1. s[1] # q /\ s[n] # s[k - 1] /\ t[n] = s[n]
          BY <3>1, <2>1, <2>4, <2>7, <1>1, <1>6
        <4>2. QED
          BY <4>1, <3>2, <2>3, <2>5, <1>1, <1>2, <1>4
      <3>5. ASSUME NEW i \in 1..(n - 1)
            PROVE  M.next[t[i]] = t[i + 1] /\ M.prev[t[i + 1]] = t[i]
        <4>1. i \in 1..n /\ i + 1 \in 1..n
          BY <1>1
        <4>2. CASE i = k
          BY <4>1, <4>2, <3>1, <3>2, <2>3, <2>4, <2>5
        <4>3. CASE i = k - 1
          <5>1. i # k /\ i + 1 = k /\ t[i + 1] = h /\ t[i] = s[k - 1]
            BY <4>1, <4>3, <2>4, <2>5
          <5>2. QED
            BY <5>1, <3>2, <2>3
        <4>4. CASE i # k /\ i # k - 1
          <5>1. i + 1 # k /\ i + 1 # k + 1 /\ t[i] = s[i] /\ t[i + 1] = s[i + 1]
            BY <4>1, <4>4, <2>4
          <5>2. s[i] # s[k - 1] /\ s[i + 1] # q
            BY <4>1, <4>4, <5>1, <3>1, <2>1, <1>6
          <5>3. QED
            BY <4>1, <5>1, <5>2, <2>3, <3>2, <1>2, <1>5
        <4>5. QED
          BY <4>2, <4>3, <4>4
      <3>6. QED
        BY <3>3, <3>4, <3>5, <2>2, <2>5, <1>1, <1>7 DEF Represents
    <2>8. QED
      BY <2>6, <2>7
  <1>12. QED
    BY <1>9, <1>10, <1>11

\* The same three facts about the edits of order themselves.
LEMMA UnlinkOrder ==
    ASSUME NEW L \in HeaderLists, NEW s \in Seq(Header), Distinct(s), Represents(L, s),
           NEW k \in 1..Len(s)
    PROVE  /\ UnlinkHeader(L, s[k]) \in HeaderLists
           /\ Dropped(s, k) \in Seq(Header) /\ Distinct(Dropped(s, k))
           /\ Represents(UnlinkHeader(L, s[k]), Dropped(s, k))
  <1> DEFINE t == Dropped(s, k)
             M == UnlinkHeader(L, s[k])
  <1>1. /\ t \in Seq(Header) /\ Len(t) = Len(s) - 1
        /\ \A i \in 1..Len(t) : t[i] = IF i < k THEN s[i] ELSE s[i + 1]
    BY DroppedSequence
  <1>2. M = UnlinkHeader(L, s[k])
    OBVIOUS
  <1> HIDE DEF t, M
  <1>3. M \in HeaderLists /\ Distinct(t) /\ Represents(M, t)
    BY <1>1, <1>2, UnlinkHeaderCorrect, SMTT(60)
  <1>4. QED
    BY <1>1, <1>3 DEF t, M

LEMMA SwapOrder ==
    ASSUME NEW L \in HeaderLists, NEW s \in Seq(Header), Distinct(s), Represents(L, s),
           NEW k \in 1..Len(s), NEW h \in Header, \A i \in 1..Len(s) : s[i] # h
    PROVE  /\ SwapHeader(ClearLinks(L, h), s[k], h) \in HeaderLists
           /\ Replaced(s, k, h) \in Seq(Header) /\ Distinct(Replaced(s, k, h))
           /\ Represents(SwapHeader(ClearLinks(L, h), s[k], h), Replaced(s, k, h))
  <1> DEFINE t == Replaced(s, k, h)
             M == SwapHeader(ClearLinks(L, h), s[k], h)
  <1>1. /\ t \in Seq(Header) /\ Len(t) = Len(s)
        /\ t[k] = h /\ \A i \in 1..Len(s) : i # k => t[i] = s[i]
    BY ReplacedSequence
  <1>2. M = SwapHeader(ClearLinks(L, h), s[k], h)
    OBVIOUS
  <1> HIDE DEF t, M
  <1>3. M \in HeaderLists /\ Distinct(t) /\ Represents(M, t)
    BY <1>1, <1>2, SwapHeaderCorrect
  <1>4. QED
    BY <1>1, <1>3 DEF t, M


-----------------------------------------------------------------------------
(* The order of the naturals is well founded: counting up to a number *)

LEMMA LessIsWellFounded == \E R : /\ IsWellFoundedOn(R, Nat)
                                  /\ \A a, b \in Nat : a < b => <<a, b>> \in R
  <1>1. IsWellFoundedOn({ss \in Nat \X Nat : ss[1] < ss[2]}, Nat)
    BY NatLessThanWellFounded DEF OpToRel
  <1>2. QED
    BY <1>1

LEMMA MinimumExists ==
    ASSUME NEW R, IsWellFoundedOn(R, Nat), NEW T, T \subseteq Nat, T # {}
    PROVE  \E x \in T : \A y \in T : ~ (<<y, x>> \in R)
  BY WFMin, Zenon

\* What holds of 0 and is passed on holds up to n.
LEMMA CountUp ==
    ASSUME NEW n \in Nat, NEW T, 0 \in T, \A k \in 0..(n - 1) : k \in T => k + 1 \in T
    PROVE  \A k \in 0..n : k \in T
  <1> DEFINE Misses == {k \in 0..n : k \notin T}
  <1> SUFFICES ASSUME Misses # {}
               PROVE  FALSE
    OBVIOUS
  <1>1. Misses \subseteq Nat
    OBVIOUS
  <1>2. PICK R : IsWellFoundedOn(R, Nat) /\ \A a, b \in Nat : a < b => <<a, b>> \in R
    BY LessIsWellFounded
  <1>3. PICK m \in Misses : \A k \in Misses : ~ (<<k, m>> \in R)
    <2> HIDE DEF Misses
    <2>1. QED
      BY <1>1, <1>2, MinimumExists
  <1>4. m \in 0..n /\ m \notin T /\ m # 0
    OBVIOUS
  <1>5. m - 1 \in 0..(n - 1) /\ m - 1 \in 0..n /\ m - 1 < m /\ (m - 1) + 1 = m
    BY <1>4
  <1>6. m - 1 \in T
    <2> SUFFICES ASSUME m - 1 \notin T
                 PROVE  FALSE
      OBVIOUS
    <2>1. m - 1 \in Misses
      BY <1>5
    <2>2. m \in Nat /\ m - 1 \in Nat
      BY <1>4, <1>5
    <2> HIDE DEF Misses
    <2>3. <<m - 1, m>> \in R
      BY <1>2, <1>5, <2>2
    <2>4. QED
      BY <1>3, <2>1, <2>3
  <1>7. QED
    BY <1>4, <1>5, <1>6

-----------------------------------------------------------------------------
(* The walk over a list *)

LEMMA NoMoreThanHeaders ==
    ASSUME NEW s \in Seq(Header), Distinct(s)
    PROVE  Len(s) <= Cardinality(Header) /\ Cardinality(Header) \in Nat
  <1>1. s \in [1..Len(s) -> Header] /\ Len(s) \in Nat
    OBVIOUS
  <1>2. s \in Injection(1..Len(s), Header)
    BY <1>1 DEF Distinct, Injection, IsInjective
  <1>3. IsFiniteSet(Header)
    BY HeaderAssumption
  <1>4. Cardinality(1..Len(s)) <= Cardinality(Header)
    BY <1>2, <1>3, FS_Injection
  <1>5. Cardinality(1..Len(s)) = Len(s)
    <2>1. 1 \in Int /\ Len(s) \in Int
      BY <1>1
    <2>2. Cardinality(1..Len(s)) = IF 1 > Len(s) THEN 0 ELSE Len(s) - 1 + 1
      BY <2>1, FS_Interval, Zenon
    <2>3. QED
      BY <1>1, <2>2
  <1>6. QED
    BY <1>3, <1>4, <1>5, FS_CardinalityType

\* The next header the loop meets after those in before.
NextMet(L, before) == IF before = <<>> THEN L.head ELSE L.next[before[Len(before)]]

\* The first k headers of s.
FirstOf(s, k) == SubSeq(s, 1, k)

LEMMA AppendIs ==
    ASSUME NEW S, NEW f \in Seq(S), NEW x \in S
    PROVE  Append(f, x) = [i \in 1..(Len(f) + 1) |-> IF i = Len(f) + 1 THEN x ELSE f[i]]
  <1> DEFINE g == Append(f, x)
  <1>1. g \in Seq(S) /\ Len(g) = Len(f) + 1
    OBVIOUS
  <1>2. \A i \in 1..(Len(f) + 1) : g[i] = IF i = Len(f) + 1 THEN x ELSE f[i]
    OBVIOUS
  <1> HIDE DEF g
  <1>3. g = [i \in 1..Len(g) |-> g[i]]
    BY <1>1
  <1>4. QED
    BY <1>1, <1>2, <1>3 DEF g

LEMMA FirstHeaders ==
    ASSUME NEW s \in Seq(Header), NEW k \in 0..Len(s)
    PROVE  /\ FirstOf(s, k) \in Seq(Header) /\ Len(FirstOf(s, k)) = k
           /\ k = 0 => FirstOf(s, k) = <<>>
           /\ k # 0 => FirstOf(s, k) # <<>> /\ FirstOf(s, k)[k] = s[k]
           /\ k = Len(s) => FirstOf(s, k) = s
           /\ k # Len(s) => FirstOf(s, k + 1) = Append(FirstOf(s, k), s[k + 1])
  <1> DEFINE f == FirstOf(s, k)
  <1>1. Len(s) \in Nat /\ k \in Nat /\ k <= Len(s)
    OBVIOUS
  <1>2. f = [i \in 1..k |-> s[i]]
    BY <1>1 DEF FirstOf
  <1>3. f \in [1..k -> Header]
    BY <1>1, <1>2
  <1>4. f \in Seq(Header) /\ Len(f) = k
    BY <1>1, <1>3, FunctionIsSequence
  <1>5. k = 0 => f = <<>>
    BY <1>4
  <1>6. k # 0 => f # <<>> /\ f[k] = s[k]
    BY <1>1, <1>2, <1>4
  <1>7. k = Len(s) => f = s
    BY <1>1, <1>2, <1>4
  <1>8. ASSUME k # Len(s)
        PROVE  FirstOf(s, k + 1) = Append(f, s[k + 1])
    <2>1. FirstOf(s, k + 1) = [i \in 1..(k + 1) |-> s[i]]
      BY <1>1, <1>8 DEF FirstOf
    <2>0. s[k + 1] \in Header
      BY <1>1, <1>8
    <2>2. Append(f, s[k + 1]) = [i \in 1..(k + 1) |-> IF i = k + 1 THEN s[k + 1] ELSE f[i]]
      <3> HIDE DEF f
      <3>1. QED
        BY <1>1, <1>4, <2>0, AppendIs
    <2>3. \A i \in 1..(k + 1) : i # k + 1 => i \in 1..k /\ f[i] = s[i]
      BY <1>1, <1>2
    <2> HIDE DEF f
    <2>4. QED
      BY <2>1, <2>2, <2>3
  <1>9. QED
    BY <1>4, <1>5, <1>6, <1>7, <1>8

LEMMA MeetsInOrder ==
    ASSUME NEW L \in HeaderLists, NEW s \in Seq(Header), Represents(L, s), NEW k \in 0..Len(s)
    PROVE  /\ k # Len(s) => NextMet(L, FirstOf(s, k)) = s[k + 1] /\ s[k + 1] # Null
           /\ k = Len(s) => NextMet(L, FirstOf(s, k)) = Null
  <1>1. Len(s) \in Nat /\ \A i \in 1..Len(s) : s[i] \in Header /\ s[i] # Null
    BY HeaderAssumption
  <1>2. CASE k = 0
    <2>1. FirstOf(s, k) = <<>>
      BY <1>2, FirstHeaders
    <2>2. NextMet(L, FirstOf(s, k)) = L.head
      BY <2>1 DEF NextMet
    <2>3. s = <<>> <=> Len(s) = 0
      OBVIOUS
    <2>4. QED
      BY <1>1, <1>2, <2>2, <2>3 DEF Represents
  <1>3. CASE k # 0
    <2>1. FirstOf(s, k) # <<>> /\ FirstOf(s, k)[Len(FirstOf(s, k))] = s[k]
      BY <1>3, FirstHeaders
    <2>2. NextMet(L, FirstOf(s, k)) = L.next[s[k]]
      BY <2>1 DEF NextMet
    <2>3. s # <<>> /\ (k # Len(s) => k \in 1..(Len(s) - 1) /\ k + 1 \in 1..Len(s))
      BY <1>1, <1>3
    <2>4. QED
      BY <1>1, <2>2, <2>3 DEF Represents
  <1>4. QED
    BY <1>2, <1>3

\* The loop `it = Head; while (it) it = it->DEBUG_Next` meets the headers the
\* list stands for, each once and in order.
LEMMA WalkIsOrder ==
    ASSUME NEW L \in HeaderLists, NEW s \in Seq(Header), Distinct(s), Represents(L, s)
    PROVE  Walk(L) = s
  <1> DEFINE N == Cardinality(Header)
             Visit(v, k) == LET before == v[k - 1]
                                it == IF before = <<>> THEN L.head ELSE L.next[before[Len(before)]]
                            IN  IF Len(before) < k - 1 \/ it = Null THEN before ELSE Append(before, it)
             IsWalk(v) == v = [k \in 0..N |-> IF k = 0 THEN <<>> ELSE Visit(v, k)]
             upTo == [k \in 0..N |-> FirstOf(s, IF k <= Len(s) THEN k ELSE Len(s))]
             visited == CHOOSE v : IsWalk(v)
  <1>1. Len(s) \in Nat /\ N \in Nat /\ Len(s) <= N
    BY NoMoreThanHeaders
  <1>2. ASSUME NEW v, NEW k \in 1..N, v[k - 1] = upTo[k - 1]
        PROVE  Visit(v, k) = upTo[k]
    <2>1. k - 1 \in 0..N /\ k \in 0..N
      BY <1>1
    <2>2. Visit(v, k) = LET before == upTo[k - 1]
                        IN  IF Len(before) < k - 1 \/ NextMet(L, before) = Null THEN before
                            ELSE Append(before, NextMet(L, before))
      BY <1>2 DEF NextMet
    <2>3. CASE k <= Len(s)
      <3>1. k - 1 \in 0..Len(s) /\ k - 1 # Len(s) /\ k - 1 <= Len(s) /\ (k - 1) + 1 = k
        BY <1>1, <2>3
      <3>2. upTo[k - 1] = FirstOf(s, k - 1) /\ upTo[k] = FirstOf(s, k)
        BY <2>1, <2>3, <3>1
      <3>3. Len(FirstOf(s, k - 1)) = k - 1 /\ FirstOf(s, k) = Append(FirstOf(s, k - 1), s[k])
        BY <3>1, FirstHeaders
      <3>4. NextMet(L, FirstOf(s, k - 1)) = s[k] /\ s[k] # Null
        BY <3>1, MeetsInOrder
      <3> HIDE DEF upTo, Visit
      <3>5. QED
        BY <2>2, <3>1, <3>2, <3>3, <3>4
    <2>4. CASE ~ (k <= Len(s))
      <3>1. Len(s) \in 0..Len(s) /\ FirstOf(s, Len(s)) = s
        BY <1>1, FirstHeaders
      <3>2. k - 1 <= Len(s) => k - 1 = Len(s)
        BY <1>1, <2>4
      <3>3. upTo[k - 1] = s /\ upTo[k] = s
        BY <2>1, <2>4, <3>1, <3>2
      <3>4. NextMet(L, s) = Null
        BY <3>1, MeetsInOrder
      <3> HIDE DEF upTo, Visit
      <3>5. QED
        BY <2>2, <3>3, <3>4
    <2>5. QED
      BY <2>3, <2>4
  <1>3. upTo[0] = <<>> /\ upTo[N] = s
    <2>1. 0 \in 0..N /\ N \in 0..N /\ 0 \in 0..Len(s) /\ Len(s) \in 0..Len(s) /\ 0 <= Len(s)
      BY <1>1
    <2>2. FirstOf(s, 0) = <<>> /\ FirstOf(s, Len(s)) = s
      BY <2>1, FirstHeaders
    <2>3. N <= Len(s) => N = Len(s)
      BY <1>1
    <2>4. QED
      BY <2>1, <2>2, <2>3
  <1>4. IsWalk(upTo)
    <2>1. \A k \in 0..N : upTo[k] = IF k = 0 THEN <<>> ELSE Visit(upTo, k)
      <3> HIDE DEF upTo, Visit
      <3>1. \A k \in 0..N : k # 0 => k \in 1..N
        BY <1>1
      <3>2. QED
        BY <1>2, <1>3, <3>1
    <2>2. upTo = [k \in 0..N |-> upTo[k]]
      OBVIOUS
    <2> HIDE DEF upTo, Visit
    <2>3. QED
      BY <2>1, <2>2
  <1>5. IsWalk(visited)
    <2> HIDE DEF upTo, IsWalk
    <2>1. QED
      BY <1>4
  <1>6. \A k \in 0..N : visited[k] = IF k = 0 THEN <<>> ELSE Visit(visited, k)
    <2>1. visited = [k \in 0..N |-> IF k = 0 THEN <<>> ELSE Visit(visited, k)]
      BY <1>5
    <2> HIDE DEF visited, Visit
    <2>2. QED
      BY <2>1
  <1> DEFINE T == {k \in 0..N : visited[k] = upTo[k]}
  <1>7. \A k \in 0..N : k \in T
    <2> HIDE DEF visited, upTo, Visit
    <2>1. 0 \in T
      BY <1>1, <1>3, <1>6
    <2>2. ASSUME NEW k \in 0..(N - 1), k \in T
          PROVE  k + 1 \in T
      <3>1. k + 1 \in 1..N /\ k + 1 \in 0..N /\ (k + 1) - 1 = k /\ k + 1 # 0
        BY <1>1
      <3>2. Visit(visited, k + 1) = upTo[k + 1]
        BY <1>2, <2>2, <3>1
      <3>3. QED
        BY <1>6, <3>1, <3>2
    <2> HIDE DEF T
    <2>3. QED
      BY <1>1, <2>1, <2>2, CountUp
  <1>8. visited[N] = s
    <2> HIDE DEF visited, upTo
    <2>1. QED
      BY <1>1, <1>3, <1>7
  <1>9. Walk(L) = visited[N]
    BY Zenon DEF Walk
  <1>10. QED
    BY <1>8, <1>9

-----------------------------------------------------------------------------
(* The routines on any links at all, a list or not *)

LEMMA ListTypes ==
    ASSUME NEW L \in HeaderLists, NEW h \in Header, NEW n \in Header
    PROVE  /\ ClearLinks(L, h) \in HeaderLists
           /\ AddHeader(L, h) \in HeaderLists
           /\ UnlinkHeader(L, h) \in HeaderLists
           /\ SwapHeader(L, h, n) \in HeaderLists
  <1>1. /\ L.head \in Pointer /\ L.next \in [Header -> Pointer] /\ L.prev \in [Header -> Pointer]
        /\ h \in Pointer /\ n \in Pointer /\ Null \in Pointer
        /\ L.prev[h] \in Pointer /\ L.next[h] \in Pointer
    BY DEF HeaderLists, Pointer
  <1>2. \A f \in [Header -> Pointer], x, y \in Pointer : [f EXCEPT ![x] = y] \in [Header -> Pointer]
    OBVIOUS
  <1>3. ClearLinks(L, h) \in HeaderLists
    BY <1>1, <1>2 DEF ClearLinks, HeaderLists
  <1>4. AddHeader(L, h) \in HeaderLists
    <2>1. L.head # Null => L.head \in Header /\ L.prev[L.head] \in Pointer
      BY <1>1 DEF Pointer
    <2>2. QED
      BY <1>1, <1>2, <2>1 DEF AddHeader, HeaderLists
  <1>5. UnlinkHeader(L, h) \in HeaderLists
    BY <1>1, <1>2 DEF UnlinkHeader, HeaderLists
  <1>6. SwapHeader(L, h, n) \in HeaderLists
    BY <1>1, <1>2 DEF SwapHeader, HeaderLists
  <1>7. QED
    BY <1>3, <1>4, <1>5, <1>6

\* step makes an element of S of another and of a number up to n; f is what n
\* such steps make of x.
IsStep(step, S, n) == step \in [S \X (1..n) -> S]
IsChain(f, x, step, S, n) == /\ f \in [0..n -> S] /\ f[0] = x
                             /\ \A k \in 1..n : f[k] = step[<<f[k - 1], k>>]

\* A recursive function on 0..n whose steps stay in S exists and stays in S.
LEMMA RecursionExists ==
    ASSUME NEW n \in Nat, NEW S, NEW x \in S, NEW step, IsStep(step, S, n)
    PROVE  \E f : IsChain(f, x, step, S, n)
  <1> DEFINE Upto(f, m) == /\ f \in [0..m -> S]
                           /\ \A k \in 0..m : f[k] = IF k = 0 THEN x ELSE step[<<f[k - 1], k>>]
             Counts == {m \in 0..n : \E f : Upto(f, m)}
  <1>1. 0 \in Counts
    <2> DEFINE f == [k \in 0..0 |-> x]
    <2>1. Upto(f, 0)
      OBVIOUS
    <2>2. 0 \in 0..n
      OBVIOUS
    <2> HIDE DEF f, Upto
    <2>3. QED
      BY <2>1, <2>2
  <1>2. ASSUME NEW m \in 0..(n - 1), m \in Counts
        PROVE  m + 1 \in Counts
    <2>1. PICK f : Upto(f, m)
      BY <1>2
    <2>2. m \in Nat /\ m + 1 \in 0..n /\ m + 1 \in 1..n /\ m \in 0..m
      OBVIOUS
    <2>3. f[m] \in S /\ step[<<f[m], m + 1>>] \in S
      BY <2>1, <2>2 DEF IsStep
    <2> DEFINE y == step[<<f[m], m + 1>>]
               g == [k \in 0..(m + 1) |-> IF k = m + 1 THEN y ELSE f[k]]
    <2>4. \A k \in 0..(m + 1) : k # m + 1 => k \in 0..m
      BY <2>2
    <2>5. g \in [0..(m + 1) -> S]
      <3> HIDE DEF y
      <3>1. QED
        BY <2>1, <2>3, <2>4 DEF y
    <2>6. ASSUME NEW k \in 0..(m + 1)
          PROVE  g[k] = IF k = 0 THEN x ELSE step[<<g[k - 1], k>>]
      <3>1. CASE k = m + 1
        <4>1. k - 1 = m /\ m \in 0..(m + 1) /\ m # m + 1 /\ k # 0
          BY <2>2, <3>1
        <4>2. g[k - 1] = f[m] /\ g[k] = y
          BY <3>1, <4>1
        <4> HIDE DEF g
        <4>3. QED
          BY <3>1, <4>1, <4>2
      <3>2. CASE k # m + 1 /\ k # 0
        <4>1. k \in 0..m /\ k - 1 \in 0..(m + 1) /\ k - 1 # m + 1
          BY <2>2, <3>2
        <4>2. g[k] = f[k] /\ g[k - 1] = f[k - 1]
          BY <3>2, <4>1
        <4> HIDE DEF g
        <4>3. QED
          BY <2>1, <3>2, <4>1, <4>2
      <3>3. CASE k = 0
        <4>1. k \in 0..m /\ k # m + 1
          BY <2>2, <3>3
        <4>2. g[k] = f[k]
          BY <4>1
        <4> HIDE DEF g
        <4>3. QED
          BY <2>1, <3>3, <4>1, <4>2
      <3>4. QED
        BY <3>1, <3>2, <3>3
    <2> HIDE DEF g
    <2>7. Upto(g, m + 1)
      BY <2>5, <2>6
    <2> HIDE DEF Upto
    <2>8. QED
      BY <2>2, <2>7
  <1> HIDE DEF Counts
  <1>3. \A m \in 0..n : m \in Counts
    BY <1>1, <1>2, CountUp
  <1>4. n \in Counts
    BY <1>3
  <1>5. PICK f : Upto(f, n)
    BY <1>4 DEF Counts
  <1>6. /\ f \in [0..n -> S] /\ f[0] = x
        /\ \A k \in 1..n : f[k] = step[<<f[k - 1], k>>]
    <2>1. 0 \in 0..n /\ \A k \in 1..n : k \in 0..n /\ k # 0
      OBVIOUS
    <2>2. QED
      BY <1>5, <2>1
  <1>7. QED
    BY <1>6 DEF IsChain

\* The walk and the loop of free_all stay among the headers whatever the links
\* lead to.
LEMMA WalkType ==
    ASSUME NEW L \in HeaderLists
    PROVE  Walk(L) \in Seq(Header) /\ Listed(L) \subseteq Header /\ IsFiniteSet(Listed(L))
  <1> DEFINE N == Cardinality(Header)
             S == Seq(Header)
             Visit(before, k) ==
                LET it == IF before = <<>> THEN L.head ELSE L.next[before[Len(before)]]
                IN  IF Len(before) < k - 1 \/ it = Null THEN before ELSE Append(before, it)
             step == [bk \in S \X (1..N) |-> Visit(bk[1], bk[2])]
             IsWalk(v) == v = [k \in 0..N |-> IF k = 0 THEN <<>> ELSE Visit(v[k - 1], k)]
             visited == CHOOSE v : IsWalk(v)
  <1>1. N \in Nat /\ <<>> \in S
    BY HeaderAssumption, FS_CardinalityType
  <1>2. \A before \in S, k \in 1..N : Visit(before, k) \in S
    <2> SUFFICES ASSUME NEW before \in S, NEW k \in 1..N
                 PROVE  Visit(before, k) \in S
      OBVIOUS
    <2> DEFINE it == IF before = <<>> THEN L.head ELSE L.next[before[Len(before)]]
    <2>1. before # <<>> => before[Len(before)] \in Header
      OBVIOUS
    <2>2. it \in Pointer
      BY <2>1 DEF HeaderLists
    <2> HIDE DEF it
    <2>3. it # Null => it \in Header /\ Append(before, it) \in S
      BY <2>2 DEF Pointer
    <2>4. QED
      BY <2>3 DEF it
  <1> HIDE DEF Visit, S
  <1>3. IsStep(step, S, N)
    BY <1>2 DEF IsStep
  <1>4. PICK f \in [0..N -> S] : f[0] = <<>> /\ \A k \in 1..N : f[k] = step[<<f[k - 1], k>>]
    <2> HIDE DEF step, N
    <2>1. \E f : IsChain(f, <<>>, step, S, N)
      BY <1>1, <1>3, RecursionExists
    <2>2. QED
      BY <2>1, Zenon DEF IsChain
  <1>5. IsWalk(f)
    <2>1. \A k \in 0..N : k # 0 => k - 1 \in 0..N /\ k \in 1..N
      BY <1>1
    <2>2. \A k \in 0..N : k # 0 => step[<<f[k - 1], k>>] = Visit(f[k - 1], k)
      BY <2>1, <1>4
    <2>3. f = [k \in 0..N |-> f[k]]
      BY <1>4
    <2> HIDE DEF step
    <2>4. QED
      BY <1>4, <2>1, <2>2, <2>3
  <1>6. IsWalk(visited)
    <2> HIDE DEF IsWalk
    <2>1. IsWalk(f)
      BY <1>5 DEF IsWalk
    <2>2. QED
      BY <2>1
  <1>7. \A k \in 0..N : visited[k] = IF k = 0 THEN <<>> ELSE Visit(visited[k - 1], k)
    <2>1. visited = [k \in 0..N |-> IF k = 0 THEN <<>> ELSE Visit(visited[k - 1], k)]
      BY <1>6
    <2> HIDE DEF visited
    <2>2. QED
      BY <2>1
  <1> DEFINE Good == {k \in 0..N : visited[k] \in S}
  <1>8. \A k \in 0..N : k \in Good
    <2> HIDE DEF visited
    <2>1. 0 \in Good
      BY <1>1, <1>7
    <2>2. ASSUME NEW k \in 0..(N - 1), k \in Good
          PROVE  k + 1 \in Good
      <3>1. k + 1 \in 1..N /\ k + 1 \in 0..N /\ (k + 1) - 1 = k /\ k + 1 # 0
        BY <1>1
      <3>2. visited[k + 1] = Visit(visited[k], k + 1)
        BY <1>7, <3>1
      <3>3. QED
        BY <1>2, <2>2, <3>1, <3>2
    <2> HIDE DEF Good
    <2>3. QED
      BY <1>1, <2>1, <2>2, CountUp
  <1>9. Walk(L) = visited[N]
    BY Zenon DEF Walk, Visit
  <1>10. Walk(L) \in Seq(Header)
    <2>1. N \in Good
      BY <1>1, <1>8
    <2> HIDE DEF visited
    <2>2. QED
      BY <1>9, <2>1 DEF S
  <1>11. Listed(L) \subseteq Header
    BY <1>10 DEF Listed
  <1>12. QED
    BY <1>10, <1>11, HeaderAssumption, FS_Subset

\* The lists free_all goes through, from the one it finds to the one it leaves.
LEMMA UnlinkAllSteps ==
    ASSUME NEW L \in HeaderLists
    PROVE  \E u \in [0..Len(Walk(L)) -> HeaderLists] :
              /\ u[0] = L /\ u[Len(Walk(L))] = UnlinkAll(L)
              /\ \A k \in 1..Len(Walk(L)) : u[k] = UnlinkHeader(u[k - 1], Walk(L)[k])
  <1> DEFINE w == Walk(L)
             n == Len(w)
             step == [mk \in HeaderLists \X (1..n) |-> UnlinkHeader(mk[1], w[mk[2]])]
             IsLoop(f) == f = [k \in 0..n |-> IF k = 0 THEN L ELSE UnlinkHeader(f[k - 1], w[k])]
             unlinked == CHOOSE f : IsLoop(f)
             Good == {k \in 0..n : unlinked[k] \in HeaderLists}
  <1>1. w \in Seq(Header) /\ n \in Nat /\ \A k \in 1..n : w[k] \in Header
    BY WalkType
  <1> HIDE DEF w, n
  <1>2. IsStep(step, HeaderLists, n)
    BY <1>1, ListTypes DEF IsStep
  <1>3. PICK f \in [0..n -> HeaderLists] :
            f[0] = L /\ \A k \in 1..n : f[k] = step[<<f[k - 1], k>>]
    <2> HIDE DEF step
    <2>1. \E f : IsChain(f, L, step, HeaderLists, n)
      BY <1>1, <1>2, RecursionExists
    <2>2. QED
      BY <2>1, Zenon DEF IsChain
  <1>4. IsLoop(f)
    <2>1. \A k \in 0..n : k # 0 => k - 1 \in 0..n /\ k \in 1..n
      BY <1>1
    <2>2. \A k \in 0..n : k # 0 => step[<<f[k - 1], k>>] = UnlinkHeader(f[k - 1], w[k])
      BY <2>1, <1>3
    <2>3. f = [k \in 0..n |-> f[k]]
      BY <1>3
    <2> HIDE DEF step
    <2>4. QED
      BY <1>3, <2>1, <2>2, <2>3
  <1>5. IsLoop(unlinked)
    <2> HIDE DEF IsLoop
    <2>1. IsLoop(f)
      BY <1>4 DEF IsLoop
    <2>2. QED
      BY <2>1
  <1>6. \A k \in 0..n : unlinked[k] = IF k = 0 THEN L ELSE UnlinkHeader(unlinked[k - 1], w[k])
    <2>1. unlinked = [k \in 0..n |-> IF k = 0 THEN L ELSE UnlinkHeader(unlinked[k - 1], w[k])]
      BY <1>5
    <2> HIDE DEF unlinked
    <2>2. QED
      BY <2>1
  <1>7. \A k \in 0..n : k \in Good
    <2> HIDE DEF unlinked
    <2>1. 0 \in Good
      BY <1>1, <1>6
    <2>2. ASSUME NEW k \in 0..(n - 1), k \in Good
          PROVE  k + 1 \in Good
      <3>1. k + 1 \in 1..n /\ k + 1 \in 0..n /\ (k + 1) - 1 = k /\ k + 1 # 0
        BY <1>1
      <3>2. unlinked[k + 1] = UnlinkHeader(unlinked[k], w[k + 1])
        BY <1>6, <3>1
      <3>3. unlinked[k] \in HeaderLists
        BY <2>2
      <3>4. QED
        BY <1>1, <3>1, <3>2, <3>3, ListTypes
    <2> HIDE DEF Good
    <2>3. QED
      BY <1>1, <2>1, <2>2, CountUp
  <1>8. UnlinkAll(L) = unlinked[n]
    BY Zenon DEF UnlinkAll, unlinked, n, w
  <1>9. unlinked \in [0..n -> HeaderLists]
    <2>1. unlinked = [k \in 0..n |-> IF k = 0 THEN L ELSE UnlinkHeader(unlinked[k - 1], w[k])]
      BY <1>5
    <2> HIDE DEF unlinked
    <2>2. unlinked = [k \in 0..n |-> unlinked[k]]
      BY <2>1
    <2>3. \A k \in 0..n : unlinked[k] \in HeaderLists
      BY <1>7
    <2>4. QED
      BY <2>2, <2>3
  <1>10. unlinked[0] = L /\ \A k \in 1..n : unlinked[k] = UnlinkHeader(unlinked[k - 1], w[k])
    <2>1. 0 \in 0..n /\ \A k \in 1..n : k \in 0..n /\ k # 0
      BY <1>1
    <2> HIDE DEF unlinked
    <2>2. QED
      BY <1>6, <2>1
  <1> HIDE DEF unlinked
  <1>11. QED
    BY <1>8, <1>9, <1>10 DEF w, n

LEMMA UnlinkAllType ==
    ASSUME NEW L \in HeaderLists
    PROVE  UnlinkAll(L) \in HeaderLists
  <1>1. Len(Walk(L)) \in 0..Len(Walk(L))
    BY WalkType
  <1>2. QED
    BY <1>1, UnlinkAllSteps

-----------------------------------------------------------------------------
(* The routines as DebugHeap uses them: which headers are in the list *)

\* L is the list of the headers of S, in some order.
IsListOf(L, S) == \E s \in Seq(Header) : /\ Distinct(s) /\ Represents(L, s)
                                         /\ {s[i] : i \in 1..Len(s)} = S

LEMMA EmptyIsList ==
    /\ EmptyList \in HeaderLists
    /\ IsListOf(EmptyList, {})
  <1>1. EmptyList \in HeaderLists /\ EmptyList.head = Null
    BY DEF EmptyList, HeaderLists, Pointer
  <1>2. Represents(EmptyList, <<>>)
    BY <1>1, EmptyIsRepresented
  <1>3. <<>> \in Seq(Header) /\ Distinct(<<>>) /\ {<<>>[i] : i \in 1..Len(<<>>)} = {}
    BY DEF Distinct
  <1>4. QED
    BY <1>1, <1>2, <1>3 DEF IsListOf

\* What a loop over the list meets.
LEMMA ListedIs ==
    ASSUME NEW L \in HeaderLists, NEW S, IsListOf(L, S)
    PROVE  /\ Listed(L) = S /\ S \subseteq Header
           /\ Walk(L) \in Seq(Header) /\ Represents(L, Walk(L))
           /\ {Walk(L)[i] : i \in 1..Len(Walk(L))} = S
  <1>1. PICK s \in Seq(Header) : /\ Distinct(s) /\ Represents(L, s)
                                 /\ {s[i] : i \in 1..Len(s)} = S
    BY DEF IsListOf
  <1>2. Walk(L) = s
    BY <1>1, WalkIsOrder
  <1>3. Listed(L) = {Walk(L)[i] : i \in 1..Len(Walk(L))}
    BY DEF Listed
  <1>4. QED
    BY <1>1, <1>2, <1>3

\* encode_header writes to a header that is not in the list.
LEMMA ClearKeepsList ==
    ASSUME NEW L \in HeaderLists, NEW S, IsListOf(L, S), NEW h \in Header, h \notin S
    PROVE  ClearLinks(L, h) \in HeaderLists /\ IsListOf(ClearLinks(L, h), S)
  <1> DEFINE M == ClearLinks(L, h)
  <1>1. PICK s \in Seq(Header) : /\ Distinct(s) /\ Represents(L, s)
                                 /\ {s[i] : i \in 1..Len(s)} = S
    BY DEF IsListOf
  <1>2. /\ M \in HeaderLists /\ M.head = L.head
        /\ \A x \in Header : x # h => M.next[x] = L.next[x] /\ M.prev[x] = L.prev[x]
    BY DEF ClearLinks, HeaderLists, Pointer
  <1>3. \A i \in 1..Len(s) : s[i] \in Header /\ s[i] # h
    BY <1>1
  <1> HIDE DEF M
  <1>4. CASE s = <<>>
    <2>1. M.head = Null
      BY <1>1, <1>2, <1>4 DEF Represents
    <2>2. Represents(M, s)
      BY <1>4, <2>1, EmptyIsRepresented
    <2>3. QED
      BY <1>1, <1>2, <2>2 DEF M, IsListOf
  <1>5. CASE s # <<>>
    <2>1. 1 \in 1..Len(s) /\ Len(s) \in 1..Len(s)
      BY <1>5
    <2>2. M.head = s[1] /\ M.prev[s[1]] = s[Len(s)] /\ M.next[s[Len(s)]] = Null
      BY <1>1, <1>2, <1>3, <1>5, <2>1 DEF Represents
    <2>3. ASSUME NEW i \in 1..(Len(s) - 1)
          PROVE  M.next[s[i]] = s[i + 1] /\ M.prev[s[i + 1]] = s[i]
      <3>1. i \in 1..Len(s) /\ i + 1 \in 1..Len(s)
        OBVIOUS
      <3>2. L.next[s[i]] = s[i + 1] /\ L.prev[s[i + 1]] = s[i]
        BY <1>1 DEF Represents
      <3>3. QED
        BY <3>1, <3>2, <1>2, <1>3
    <2>4. Represents(M, s)
      BY <2>2, <2>3, <1>5 DEF Represents
    <2>5. QED
      BY <1>1, <1>2, <2>4 DEF M, IsListOf
  <1>6. QED
    BY <1>4, <1>5

\* What add_header and swap_header do does not depend on the links that
\* encode_header cleared in the new header.
LEMMA AddWritesLinks ==
    ASSUME NEW L \in HeaderLists, NEW h \in Header, L.head # h
    PROVE  AddHeader(ClearLinks(L, h), h) = AddHeader(L, h)
  <1> DEFINE M == ClearLinks(L, h)
  <1>1. /\ M.head = L.head /\ M \in HeaderLists
        /\ M.next = [L.next EXCEPT ![h] = Null] /\ M.prev = [L.prev EXCEPT ![h] = Null]
    BY DEF ClearLinks, HeaderLists, Pointer
  <1>2. [M.next EXCEPT ![h] = L.head] = [L.next EXCEPT ![h] = L.head]
    BY <1>1 DEF HeaderLists
  <1>3. [M.prev EXCEPT ![h] = h] = [L.prev EXCEPT ![h] = h]
    BY <1>1 DEF HeaderLists
  <1>4. ASSUME L.head # Null
        PROVE  [M.prev EXCEPT ![h] = M.prev[L.head], ![L.head] = h]
                 = [L.prev EXCEPT ![h] = L.prev[L.head], ![L.head] = h]
    <2>1. L.head \in Header /\ M.prev[L.head] = L.prev[L.head]
      BY <1>1, <1>4 DEF HeaderLists, Pointer
    <2>2. QED
      BY <1>1, <2>1 DEF HeaderLists
  <1> HIDE DEF M
  <1>5. QED
    BY <1>1, <1>2, <1>3, <1>4 DEF AddHeader, M

LEMMA SwapWritesLinks ==
    ASSUME NEW L \in HeaderLists, NEW o \in Header, NEW n \in Header, o # n, L.head # n,
           L.prev[o] # n, L.next[o] # n, L.head # Null, L.prev[o] # Null
    PROVE  SwapHeader(ClearLinks(L, n), o, n) = SwapHeader(L, o, n)
  <1> DEFINE M == ClearLinks(L, n)
             p == L.prev[o]
             s == L.next[o]
  <1>1. /\ M.head = L.head /\ M.prev[o] = p /\ M.next[o] = s
        /\ M.next = [L.next EXCEPT ![n] = Null] /\ M.prev = [L.prev EXCEPT ![n] = Null]
    BY DEF ClearLinks, HeaderLists, Pointer
  <1>2. L.next \in [Header -> Pointer] /\ L.prev \in [Header -> Pointer]
    BY DEF HeaderLists
  <1>3. [M.next EXCEPT ![n] = s] = [L.next EXCEPT ![n] = s]
    BY <1>1, <1>2
  <1>4. \A x : [M.prev EXCEPT ![n] = x] = [L.prev EXCEPT ![n] = x]
    BY <1>1, <1>2
  <1>5. \A x, y : [M.prev EXCEPT ![n] = x, ![y] = n] = [L.prev EXCEPT ![n] = x, ![y] = n]
    BY <1>4
  <1> HIDE DEF M
  <1>6. QED
    BY <1>1, <1>3, <1>4, <1>5 DEF SwapHeader, M

\* add_header of a header that is not in the list.
LEMMA AddToListOf ==
    ASSUME NEW L \in HeaderLists, NEW S, IsListOf(L, S), NEW h \in Header, h \notin S
    PROVE  AddHeader(L, h) \in HeaderLists /\ IsListOf(AddHeader(L, h), S \cup {h})
  <1>1. PICK s \in Seq(Header) : /\ Distinct(s) /\ Represents(L, s)
                                 /\ {s[i] : i \in 1..Len(s)} = S
    BY DEF IsListOf
  <1>2. \A i \in 1..Len(s) : s[i] # h
    BY <1>1
  <1>3. L.head # h
    <2>1. CASE s = <<>>
      BY <1>1, <2>1, HeaderAssumption DEF Represents
    <2>2. CASE s # <<>>
      <3>1. 1 \in 1..Len(s)
        BY <2>2
      <3>2. QED
        BY <1>1, <1>2, <2>2, <3>1 DEF Represents
    <2>3. QED
      BY <2>1, <2>2
  <1>4. AddHeader(ClearLinks(L, h), h) = AddHeader(L, h)
    BY <1>3, AddWritesLinks
  <1> DEFINE t == Prepended(s, h)
  <1>5. /\ t \in Seq(Header) /\ Len(t) = Len(s) + 1 /\ t[1] = h
        /\ \A i \in 1..Len(s) : t[i + 1] = s[i]
    BY PrependedSequence
  <1> HIDE DEF t
  <1>6. AddHeader(L, h) \in HeaderLists /\ Distinct(t) /\ Represents(AddHeader(L, h), t)
    BY <1>1, <1>2, <1>4, <1>5, AddHeaderCorrect
  <1>7. {t[i] : i \in 1..Len(t)} = S \cup {h}
    <2>1. \A i \in 1..Len(t) : i # 1 => i - 1 \in 1..Len(s) /\ t[i] = s[i - 1]
      BY <1>5
    <2>2. \A i \in 1..Len(t) : t[i] \in S \cup {h}
      BY <1>1, <1>5, <2>1
    <2>3. 1 \in 1..Len(t) /\ \A i \in 1..Len(s) : i + 1 \in 1..Len(t)
      BY <1>5
    <2>4. \A x \in S \cup {h} : \E i \in 1..Len(t) : t[i] = x
      BY <1>1, <1>5, <2>3
    <2>5. QED
      BY <2>2, <2>4
  <1>8. QED
    BY <1>5, <1>6, <1>7 DEF IsListOf

\* A header of the list has links that are not null, and its links do not lead
\* out of the list; no assert of unlink_header or swap_header can fire for it.
LEMMA LinksOfListed ==
    ASSUME NEW L \in HeaderLists, NEW s \in Seq(Header), Distinct(s), Represents(L, s),
           NEW k \in 1..Len(s)
    PROVE  /\ L.head # Null /\ L.head \in {s[i] : i \in 1..Len(s)}
           /\ L.prev[s[k]] # Null /\ L.prev[s[k]] \in {s[i] : i \in 1..Len(s)}
           /\ L.next[s[k]] # Null => L.next[s[k]] \in {s[i] : i \in 1..Len(s)}
           /\ ~UnlinkFails(L, s[k]) /\ ~SwapFails(L)
  <1>1. /\ s # <<>> /\ Len(s) \in Nat /\ 1 \in 1..Len(s) /\ Len(s) \in 1..Len(s)
        /\ \A i \in 1..Len(s) : s[i] \in Header /\ s[i] # Null
    BY HeaderAssumption
  <1>2. /\ L.head = s[1] /\ L.prev[s[1]] = s[Len(s)] /\ L.next[s[Len(s)]] = Null
        /\ \A i \in 1..(Len(s) - 1) : L.next[s[i]] = s[i + 1] /\ L.prev[s[i + 1]] = s[i]
    BY <1>1 DEF Represents
  <1>3. L.head # Null /\ L.head \in {s[i] : i \in 1..Len(s)}
    BY <1>1, <1>2
  <1>4. L.prev[s[k]] # Null /\ L.prev[s[k]] \in {s[i] : i \in 1..Len(s)}
    <2>1. CASE k = 1
      BY <1>1, <1>2, <2>1
    <2>2. CASE k # 1
      <3>1. k - 1 \in 1..(Len(s) - 1) /\ k - 1 \in 1..Len(s) /\ (k - 1) + 1 = k
        BY <1>1, <2>2
      <3>2. L.prev[s[k]] = s[k - 1]
        BY <1>2, <3>1
      <3>3. QED
        BY <1>1, <3>1, <3>2
    <2>3. QED
      BY <2>1, <2>2
  <1>5. k # Len(s) => L.next[s[k]] # Null /\ L.next[s[k]] \in {s[i] : i \in 1..Len(s)}
    <2> SUFFICES ASSUME k # Len(s)
                 PROVE  L.next[s[k]] # Null /\ L.next[s[k]] \in {s[i] : i \in 1..Len(s)}
      OBVIOUS
    <2>1. k \in 1..(Len(s) - 1) /\ k + 1 \in 1..Len(s)
      BY <1>1
    <2>2. QED
      BY <1>1, <1>2, <2>1
  <1>6. L.prev[s[k]] # s[k] /\ L.head = s[k] => L.next[s[k]] # Null
    <2> SUFFICES ASSUME L.prev[s[k]] # s[k], L.head = s[k]
                 PROVE  k # Len(s)
      BY <1>5
    <2>1. k = 1
      BY <1>1, <1>2 DEF Distinct
    <2>2. QED
      BY <1>2, <2>1
  <1>7. QED
    BY <1>2, <1>3, <1>4, <1>5, <1>6 DEF UnlinkFails, SwapFails

\* unlink_header of a header of the list.
LEMMA UnlinkFromListOf ==
    ASSUME NEW L \in HeaderLists, NEW S, IsListOf(L, S), NEW h \in S
    PROVE  /\ ~UnlinkFails(L, h)
           /\ UnlinkHeader(L, h) \in HeaderLists /\ IsListOf(UnlinkHeader(L, h), S \ {h})
  <1>1. PICK s \in Seq(Header) : /\ Distinct(s) /\ Represents(L, s)
                                 /\ {s[i] : i \in 1..Len(s)} = S
    BY DEF IsListOf
  <1>2. PICK k \in 1..Len(s) : s[k] = h
    BY <1>1
  <1> DEFINE t == Dropped(s, k)
  <1>3. /\ t \in Seq(Header) /\ Len(t) = Len(s) - 1
        /\ \A i \in 1..(Len(s) - 1) : t[i] = IF i < k THEN s[i] ELSE s[i + 1]
    BY DroppedSequence
  <1>4. UnlinkHeader(L, h) \in HeaderLists /\ Distinct(t) /\ Represents(UnlinkHeader(L, h), t)
    BY <1>1, <1>2, UnlinkOrder
  <1> HIDE DEF t
  <1>5. {t[i] : i \in 1..Len(t)} = S \ {h}
    <2>1. \A i \in 1..Len(t) : \E j \in 1..Len(s) : j # k /\ t[i] = s[j]
      <3> SUFFICES ASSUME NEW i \in 1..Len(t)
                   PROVE  \E j \in 1..Len(s) : j # k /\ t[i] = s[j]
        OBVIOUS
      <3>1. i \in 1..(Len(s) - 1) /\ i \in 1..Len(s) /\ i + 1 \in 1..Len(s)
        BY <1>3
      <3>2. CASE i < k
        BY <1>3, <3>1, <3>2
      <3>3. CASE ~(i < k)
        <4>1. t[i] = s[i + 1] /\ i + 1 # k
          BY <1>3, <3>1, <3>3
        <4>2. QED
          BY <3>1, <4>1
      <3>4. QED
        BY <3>2, <3>3
    <2>2. \A j \in 1..Len(s) : j # k => \E i \in 1..Len(t) : t[i] = s[j]
      <3> SUFFICES ASSUME NEW j \in 1..Len(s), j # k
                   PROVE  \E i \in 1..Len(t) : t[i] = s[j]
        OBVIOUS
      <3>1. CASE j < k
        <4>1. j \in 1..(Len(s) - 1) /\ j \in 1..Len(t)
          BY <1>3, <3>1
        <4>2. QED
          BY <1>3, <3>1, <4>1
      <3>2. CASE ~(j < k)
        <4>1. j - 1 \in 1..(Len(s) - 1) /\ j - 1 \in 1..Len(t) /\ ~(j - 1 < k) /\ (j - 1) + 1 = j
          BY <1>3, <3>2
        <4>2. t[j - 1] = s[j]
          BY <1>3, <4>1
        <4>3. QED
          BY <4>1, <4>2
      <3>3. QED
        BY <3>1, <3>2
    <2>3. \A j \in 1..Len(s) : s[j] = h => j = k
      BY <1>1, <1>2 DEF Distinct
    <2>4. \A i \in 1..Len(t) : t[i] \in S \ {h}
      BY <1>1, <2>1, <2>3
    <2>5. \A x \in S \ {h} : \E i \in 1..Len(t) : t[i] = x
      BY <1>1, <1>2, <2>2
    <2>6. QED
      BY <2>4, <2>5
  <1>6. ~UnlinkFails(L, h)
    BY <1>1, <1>2, LinksOfListed
  <1>7. QED
    BY <1>3, <1>4, <1>5, <1>6 DEF IsListOf

\* swap_header of a header of the list with one that is not in it.
LEMMA SwapInListOf ==
    ASSUME NEW L \in HeaderLists, NEW S, IsListOf(L, S), NEW h \in S,
           NEW n \in Header, n \notin S
    PROVE  /\ ~SwapFails(L)
           /\ SwapHeader(L, h, n) \in HeaderLists
           /\ IsListOf(SwapHeader(L, h, n), (S \ {h}) \cup {n})
  <1>1. PICK s \in Seq(Header) : /\ Distinct(s) /\ Represents(L, s)
                                 /\ {s[i] : i \in 1..Len(s)} = S
    BY DEF IsListOf
  <1>2. PICK k \in 1..Len(s) : s[k] = h
    BY <1>1
  <1>3. \A i \in 1..Len(s) : s[i] # n
    BY <1>1
  <1>4. /\ L.head # Null /\ L.head \in S /\ ~SwapFails(L)
        /\ L.prev[h] # Null /\ L.prev[h] \in S /\ (L.next[h] # Null => L.next[h] \in S)
    BY <1>1, <1>2, LinksOfListed
  <1>5. h \in Header /\ h # n /\ L.next[h] # n
    BY <1>1, <1>2, <1>4, HeaderAssumption
  <1>6. SwapHeader(ClearLinks(L, n), h, n) = SwapHeader(L, h, n)
    BY <1>4, <1>5, SwapWritesLinks
  <1> DEFINE t == Replaced(s, k, n)
  <1>7. /\ t \in Seq(Header) /\ Len(t) = Len(s) /\ t[k] = n
        /\ \A i \in 1..Len(s) : i # k => t[i] = s[i]
    BY ReplacedSequence
  <1>8. /\ SwapHeader(L, h, n) \in HeaderLists /\ Distinct(t)
        /\ Represents(SwapHeader(L, h, n), t)
    BY <1>1, <1>2, <1>3, <1>6, SwapOrder
  <1> HIDE DEF t
  <1>9. {t[i] : i \in 1..Len(t)} = (S \ {h}) \cup {n}
    <2>1. \A j \in 1..Len(s) : s[j] = h => j = k
      BY <1>1, <1>2 DEF Distinct
    <2>2. \A i \in 1..Len(t) : t[i] \in (S \ {h}) \cup {n}
      BY <1>1, <1>7, <2>1
    <2>3. \A x \in (S \ {h}) \cup {n} : \E i \in 1..Len(t) : t[i] = x
      BY <1>1, <1>2, <1>7
    <2>4. QED
      BY <2>2, <2>3
  <1>10. QED
    BY <1>4, <1>7, <1>8, <1>9 DEF IsListOf

\* free_all: every header of the list is unlinked, each from the list the one
\* before it left.
LEMMA UnlinkAllIsEmpty ==
    ASSUME NEW L \in HeaderLists, NEW S, IsListOf(L, S)
    PROVE  UnlinkAll(L) \in HeaderLists /\ IsListOf(UnlinkAll(L), {})
  <1> DEFINE w == Walk(L)
             n == Len(w)
             Left(k) == {w[i] : i \in (k + 1)..n}
  <1>1. w \in Seq(Header) /\ n \in Nat /\ Distinct(w) /\ {w[i] : i \in 1..n} = S
    <2>1. PICK s \in Seq(Header) : /\ Distinct(s) /\ Represents(L, s)
                                   /\ {s[i] : i \in 1..Len(s)} = S
      BY DEF IsListOf
    <2>2. Walk(L) = s
      BY <2>1, WalkIsOrder
    <2>3. QED
      BY <2>1, <2>2
  <1>2. PICK u \in [0..n -> HeaderLists] :
            /\ u[0] = L /\ u[n] = UnlinkAll(L)
            /\ \A k \in 1..n : u[k] = UnlinkHeader(u[k - 1], w[k])
    BY UnlinkAllSteps
  <1> DEFINE Good == {k \in 0..n : u[k] \in HeaderLists /\ IsListOf(u[k], Left(k))}
  <1> HIDE DEF w, n
  <1>3. 0 \in Good
    <2>1. 0 \in 0..n /\ u[0] = L
      BY <1>1, <1>2
    <2>2. Left(0) = S
      BY <1>1
    <2>3. QED
      BY <2>1, <2>2
  <1>4. ASSUME NEW k \in 0..(n - 1), k \in Good
        PROVE  k + 1 \in Good
    <2>1. /\ k + 1 \in 0..n /\ k + 1 # 0 /\ (k + 1) - 1 = k /\ k + 1 \in 1..n
          /\ k + 1 \in (k + 1)..n /\ k \in Nat
      BY <1>1
    <2>2. w[k + 1] \in Left(k)
      BY <2>1
    <2>3. Left(k) \ {w[k + 1]} = Left(k + 1)
      <3>1. ASSUME NEW i \in (k + 1)..n
            PROVE  i # k + 1 <=> i \in ((k + 1) + 1)..n
        BY <1>1, <2>1
      <3>2. \A i \in (k + 1)..n : w[i] = w[k + 1] => i = k + 1
        <4>1. \A i \in (k + 1)..n : i \in 1..Len(w)
          BY <1>1, <2>1 DEF n
        <4>2. k + 1 \in 1..Len(w)
          BY <2>1 DEF n
        <4>3. QED
          BY <1>1, <4>1, <4>2 DEF Distinct
      <3>3. \A i \in ((k + 1) + 1)..n : i \in (k + 1)..n
        BY <1>1, <2>1
      <3>4. QED
        BY <3>1, <3>2, <3>3
    <2>4. u[k + 1] = UnlinkHeader(u[k], w[k + 1])
      BY <1>2, <2>1
    <2>5. u[k] \in HeaderLists /\ IsListOf(u[k], Left(k))
      BY <1>4
    <2> HIDE DEF Left
    <2>6. /\ UnlinkHeader(u[k], w[k + 1]) \in HeaderLists
          /\ IsListOf(UnlinkHeader(u[k], w[k + 1]), Left(k) \ {w[k + 1]})
      BY <2>2, <2>5, UnlinkFromListOf
    <2>7. u[k + 1] \in HeaderLists /\ IsListOf(u[k + 1], Left(k + 1))
      BY <2>3, <2>4, <2>6, Zenon
    <2>8. QED
      BY <2>1, <2>7
  <1> HIDE DEF Good
  <1>5. n \in Good
    <2>1. \A k \in 0..n : k \in Good
      BY <1>1, <1>3, <1>4, CountUp
    <2>2. QED
      BY <1>1, <2>1
  <1>6. u[n] \in HeaderLists /\ IsListOf(u[n], Left(n))
    BY <1>5 DEF Good
  <1>7. Left(n) = {}
    BY <1>1
  <1>8. QED
    BY <1>2, <1>6, <1>7
=============================================================================
