----------------------------- MODULE QListProofs -----------------------------
(***************************************************************************)
(* Proofs about QList for any finite number of handles, any elements and   *)
(* lists of any size.  First the arrays of QListData: whichever side an    *)
(* operation moves and whenever it grows the array, the elements are those *)
(* the operation should leave, in their order.  Then the handles:          *)
(* reference counts are exact, blocks live as long as they are referred    *)
(* to, who writes to a block is alone with it, no element leaks, and each  *)
(* handle behaves as a list of its own.                                    *)
(***************************************************************************)
EXTENDS QList, DataInduction, SequenceTheorems, FiniteSetTheorems

(* What holds of every block between any two steps                         *)
IsArray(a) ==
  /\ a.begin \in Nat /\ a.end \in Nat /\ a.alloc \in Nat
  /\ a.begin <= a.end /\ a.end <= a.alloc
  /\ \A i \in a.begin .. a.end - 1 : a.array[i] \in Values

Fitting(a) == IsArray(a) /\ a.alloc <= MaxAlloc

(* Element i, counted from 0 *)
Elem(a, i) == a.array[a.begin + i]

-----------------------------------------------------------------------------
(* Growing *)

(* The largest power in use; it is kept folded because provers count up to *)
(* a number of this size.                                                   *)
LastPower == 2 ^ 17

(* The powers of two qAllocMore can reach, up to the largest one           *)
LEMMA PowersAre == D!Powers \subseteq Nat /\ LastPower \in D!Powers
  <1>1. \A k \in 0 .. 17 : \/ k = 0 \/ k = 1 \/ k = 2 \/ k = 3 \/ k = 4 \/ k = 5 \/ k = 6 \/ k = 7
                          \/ k = 8 \/ k = 9 \/ k = 10 \/ k = 11 \/ k = 12 \/ k = 13 \/ k = 14
                          \/ k = 15 \/ k = 16 \/ k = 17
    OBVIOUS
  <1>2. /\ 2 ^ 0 \in Nat /\ 2 ^ 1 \in Nat /\ 2 ^ 2 \in Nat /\ 2 ^ 3 \in Nat /\ 2 ^ 4 \in Nat
        /\ 2 ^ 5 \in Nat /\ 2 ^ 6 \in Nat /\ 2 ^ 7 \in Nat /\ 2 ^ 8 \in Nat /\ 2 ^ 9 \in Nat
        /\ 2 ^ 10 \in Nat /\ 2 ^ 11 \in Nat /\ 2 ^ 12 \in Nat /\ 2 ^ 13 \in Nat
        /\ 2 ^ 14 \in Nat /\ 2 ^ 15 \in Nat /\ 2 ^ 16 \in Nat /\ 2 ^ 17 \in Nat
    OBVIOUS
  <1>3. \A k \in 0 .. 17 : 2 ^ k \in Nat
    BY <1>1, <1>2, Zenon
  <1>4. 17 \in 0 .. 17
    OBVIOUS
  <1>5. D!Powers = {2 ^ k : k \in 0 .. 17}
    BY Zenon DEF D!Powers, D!MaxDoublings
  <1>6. QED
    BY <1>3, <1>4, <1>5, Zenon DEF LastPower

(* A smallest number of a set that has numbers                             *)
LEMMA MinIs ==
  ASSUME NEW S \in SUBSET Nat, S # {}
  PROVE  D!Min(S) \in S
  <1>1. PICK p \in S : \A q \in S : p <= q
    BY LeastNat
  <1>2. QED
    BY <1>1 DEF D!Min

(* qAllocMore takes a power large enough, if the largest one is.           *)
LEMMA DoubledIs ==
  ASSUME NEW from, NEW least, least <= from * LastPower
  PROVE  \E c \in Nat : D!Doubled(from, least) = from * c /\ least <= from * c
  <1> DEFINE Enough == {p \in D!Powers : least <= from * p}
  <1>1. Enough \in SUBSET Nat
    BY PowersAre, Zenon
  <1>2. LastPower \in Enough
    BY PowersAre, Zenon
  <1>3. D!Doubled(from, least) = from * D!Min(Enough)
    BY Zenon DEF D!Doubled
  <1>4. \A p \in Enough : p \in Nat /\ least <= from * p
    BY <1>1, Zenon
  <1> HIDE DEF Enough
  <1>5. D!Min(Enough) \in Enough
    BY ONLY <1>1, <1>2, MinIs
  <1>6. QED
    BY <1>3, <1>4, <1>5, Zenon

(* Doubling from a pointer or a page reaches what is asked for.            *)
LEMMA DoubledSuffices ==
  ASSUME NEW from \in {8, 4096}, NEW least \in Nat, least <= from * LastPower
  PROVE  /\ D!Doubled(from, least) \in Nat
         /\ D!Doubled(from, least) >= least
  <1>1. PICK c \in Nat : D!Doubled(from, least) = from * c /\ least <= from * c
    BY DoubledIs
  <1>2. from = 8 \/ from = 4096
    OBVIOUS
  <1>3. QED
    BY ONLY <1>1, <1>2, least \in Nat

(* grow makes room for as many cells as it is asked for.                   *)
LEMMA GrowSuffices ==
  ASSUME NEW n \in Nat, n + 3 <= 67108864
  PROVE  D!grow(n) \in Nat /\ D!grow(n) >= n
  <1> DEFINE all == n * 8 + 24
  <1>1. D!grow(n) = D!qAllocMore(n * 8, 24) \div 8
    BY DEF D!grow, D!PointerSize, D!DataHeaderSize
  <1>2. CASE all < 64
    <2>1. D!qAllocMore(n * 8, 24) = 8 + 8 * (all \div 8) - 24
      BY <1>2 DEF D!qAllocMore
    <2>2. all \div 8 = n + 3
      OBVIOUS
    <2>3. D!grow(n) = (8 * (n + 1)) \div 8
      <3>1. 8 + 8 * (n + 3) - 24 = 8 * (n + 1)
        OBVIOUS
      <3>2. QED
        BY <1>1, <2>1, <2>2, <3>1
    <2>4. QED
      BY <2>3
  <1>3. CASE all >= 64
    <2>1. PICK from \in {8, 4096} : from = IF all < 4096 THEN 8 ELSE 4096
      OBVIOUS
    <2>2. all \in Nat /\ all <= from * LastPower
      BY <2>1 DEF LastPower
    <2>3. PICK m \in Nat : m = D!Doubled(from, all) /\ m >= all
      BY <2>2, DoubledSuffices
    <2>4. D!qAllocMore(n * 8, 24) = m - 24
      BY <1>3, <2>1, <2>3 DEF D!qAllocMore, D!Page
    <2>5. D!grow(n) = (m - 24) \div 8 /\ m - 24 >= 8 * n
      BY <1>1, <2>3, <2>4
    <2>6. QED
      BY <2>3, <2>5
  <1>4. QED
    BY <1>2, <1>3

(* An array of any size that fits can grow: no int overflows.              *)
LEMMA GrowFits ==
  ASSUME NEW n \in Nat, n <= 2 * MaxAlloc \/ n <= MaxAlloc + 1
  PROVE  D!grow(n) \in Nat /\ D!grow(n) >= n
  <1>1. 2 ^ 26 = 67108864
    OBVIOUS
  <1>2. n + 3 <= 67108864
    BY <1>1, SizeAssumption
  <1>3. QED
    BY <1>2, GrowSuffices

-----------------------------------------------------------------------------
(* What an operation makes *)

(* The elements of b are those of the function f on 0 .. n - 1.            *)
Makes(b, n, f) ==
  /\ IsArray(b)
  /\ D!size(b) = n
  /\ \A i \in 0 .. n - 1 : Elem(b, i) = f[i]

(* The n elements of b lie in its allocated cells.                         *)
Spans(b, n) ==
  b.begin \in Nat /\ b.alloc \in Nat /\ b.end = b.begin + n /\ b.begin + n <= b.alloc

Elems(a) == [i \in 0 .. D!size(a) - 1 |-> Elem(a, i)]

(* Elements of an array are its cells from begin to end.                   *)
LEMMA SizeIs ==
  ASSUME NEW a, IsArray(a)
  PROVE  /\ D!size(a) \in Nat /\ D!size(a) = a.end - a.begin /\ D!size(a) <= a.alloc
         /\ \A i \in 0 .. D!size(a) - 1 : Elem(a, i) = a.array[a.begin + i] /\ Elem(a, i) \in Values
         /\ \A i \in 0 .. D!size(a) - 1 : D!Cell(a, a.begin + i) = Elem(a, i)
  BY DEF IsArray, D!size, Elem, D!Cell

(* An array whose cells are written from begin on has those elements.      *)
LEMMA MakesFrom ==
  ASSUME NEW b, NEW n \in Nat, NEW f, Spans(b, n),
         \A i \in 0 .. n - 1 : b.array[b.begin + i] = f[i] /\ f[i] \in Values
  PROVE  Makes(b, n, f)
  <1> USE DEF Spans
  <1>1. D!size(b) = n
    BY DEF D!size
  <1>2. \A i \in 0 .. n - 1 : Elem(b, i) = f[i]
    BY DEF Elem
  <1>3. ASSUME NEW j \in b.begin .. b.end - 1
        PROVE  b.array[j] \in Values
    <2>1. PICK i \in 0 .. n - 1 : i = j - b.begin /\ b.begin + i = j
      OBVIOUS
    <2>2. QED
      BY <2>1
  <1>4. QED
    BY <1>1, <1>2, <1>3 DEF Makes, IsArray

(* What an operation made, cell by cell                                    *)
LEMMA MakesIs ==
  ASSUME NEW b, NEW n \in Nat, NEW f, Makes(b, n, f)
  PROVE  /\ IsArray(b) /\ Spans(b, n)
         /\ \A i \in 0 .. n - 1 : D!Cell(b, b.begin + i) = f[i] /\ f[i] \in Values
  <1>1. IsArray(b) /\ D!size(b) = n /\ \A i \in 0 .. n - 1 : Elem(b, i) = f[i]
    BY DEF Makes
  <1>2. \A i \in 0 .. n - 1 : D!Cell(b, b.begin + i) = f[i] /\ f[i] \in Values
    BY <1>1, SizeIs
  <1>3. b.begin \in Nat /\ b.end \in Nat /\ b.alloc \in Nat /\ n = b.end - b.begin /\ b.end <= b.alloc
    BY <1>1, SizeIs DEF IsArray
  <1>4. QED
    BY <1>1, <1>2, <1>3 DEF Spans

(* An array has its own elements.                                          *)
LEMMA ArrayMakes ==
  ASSUME NEW a, IsArray(a)
  PROVE  Makes(a, D!size(a), Elems(a))
  BY DEF Makes, Elems

(* realloc to at least as many cells keeps the elements where they are.    *)
LEMMA ReallocMakes ==
  ASSUME NEW a, IsArray(a), NEW alloc \in Nat, alloc >= a.alloc, NEW r, r = D!realloc(a, alloc)
  PROVE  /\ r.alloc = alloc /\ r.begin = a.begin /\ r.end = a.end
         /\ Makes(r, D!size(a), Elems(a))
  <1>1. alloc = 0 => a.begin = 0 /\ a.end = 0
    BY DEF IsArray
  <1>2. r.alloc = alloc /\ r.begin = a.begin /\ r.end = a.end
    BY <1>1 DEF D!realloc, D!Data
  <1>3. r.array = [i \in 0 .. alloc - 1 |->
                     IF a.begin <= i /\ i < a.end THEN D!Cell(a, i) ELSE Junk]
    BY <1>1 DEF D!realloc, D!Data
  <1>4. PICK n \in Nat : n = D!size(a) /\ a.end = a.begin + n /\ a.begin \in Nat /\ a.begin + n <= alloc
    BY SizeIs DEF IsArray
  <1>5. ASSUME NEW i \in 0 .. n - 1
        PROVE  r.array[r.begin + i] = Elems(a)[i] /\ Elems(a)[i] \in Values
    <2>1. PICK j \in 0 .. alloc - 1 : j = a.begin + i /\ a.begin <= j /\ j < a.end
      BY <1>4
    <2>2. D!Cell(a, j) = Elem(a, i) /\ Elem(a, i) \in Values
      BY <1>4, <2>1, SizeIs
    <2>3. QED
      BY <1>2, <1>3, <1>4, <2>1, <2>2 DEF Elems
  <1>6. Makes(r, n, Elems(a))
    BY <1>2, <1>4, <1>5, MakesFrom DEF Spans
  <1>7. QED
    BY <1>2, <1>4, <1>6

(* So does growing for one more element, or for another list.              *)
LEMMA GrownMakes ==
  ASSUME NEW a, Fitting(a), NEW n \in Nat, a.alloc <= n, n <= 2 * MaxAlloc \/ n <= MaxAlloc + 1,
         NEW r, r = D!realloc(a, D!grow(n))
  PROVE  /\ r.alloc \in Nat /\ r.alloc >= n /\ r.begin = a.begin /\ r.end = a.end
         /\ Makes(r, D!size(a), Elems(a))
  <1>1. PICK m \in Nat : m = D!grow(n) /\ m >= n
    BY GrowFits
  <1>2. a.alloc \in Nat /\ IsArray(a)
    BY DEF Fitting, IsArray
  <1>3. m >= a.alloc /\ r = D!realloc(a, m)
    BY <1>1, <1>2
  <1>4. QED
    BY <1>1, <1>2, <1>3, ReallocMakes

-----------------------------------------------------------------------------
(* Each operation *)

(* What they should make of the elements of a *)
Inserted(a, k, x) ==
  [i \in 0 .. D!size(a) |-> IF i < k THEN Elem(a, i) ELSE IF i = k THEN x ELSE Elem(a, i - 1)]

Extended(a, xs) ==
  [i \in 0 .. D!size(a) + Len(xs) - 1 |->
     IF i < D!size(a) THEN Elem(a, i) ELSE xs[i - D!size(a) + 1]]

Removed(a, k, n) ==
  [i \in 0 .. D!size(a) - n - 1 |-> IF i < k THEN Elem(a, i) ELSE Elem(a, i + n)]

Moved(a, s, t) ==
  [i \in 0 .. D!size(a) - 1 |->
     IF i = t THEN Elem(a, s)
     ELSE IF s <= i /\ i < t THEN Elem(a, i + 1)
     ELSE IF t < i /\ i <= s THEN Elem(a, i - 1)
     ELSE Elem(a, i)]

(* Bounds and elements of an array as numbers and facts the provers take   *)
LEMMA ArrayHas ==
  ASSUME NEW a, IsArray(a)
  PROVE  \E o \in Nat, n \in Nat, c \in Nat :
           /\ a.begin = o /\ D!size(a) = n /\ a.end = o + n /\ a.alloc = c /\ o + n <= c
           /\ \A i \in 0 .. n - 1 : D!Cell(a, o + i) = Elem(a, i) /\ Elem(a, i) \in Values
  BY SizeIs DEF IsArray

(* The same of a grown array                                               *)
LEMMA GrownHas ==
  ASSUME NEW a, IsArray(a), NEW m, Makes(m, D!size(a), Elems(a))
  PROVE  \E o \in Nat, c \in Nat :
           /\ m.begin = o /\ m.end = o + D!size(a) /\ m.alloc = c /\ o + D!size(a) <= c
           /\ \A i \in 0 .. D!size(a) - 1 : D!Cell(m, o + i) = Elem(a, i)
  <1>1. PICK n \in Nat : n = D!size(a)
    BY SizeIs
  <1>2. Spans(m, n) /\ \A i \in 0 .. n - 1 : D!Cell(m, m.begin + i) = Elems(a)[i]
    BY <1>1, MakesIs
  <1>3. QED
    BY <1>1, <1>2 DEF Spans, Elems

(* append puts x behind all elements: in a free cell, or after it moved    *)
(* them to the front, or grew the array.                                   *)
LEMMA appendMakes ==
  ASSUME NEW a, Fitting(a), NEW x \in Values
  PROVE  Makes(D!append(a, x), D!size(a) + 1, Inserted(a, D!size(a), x))
  <1>1. IsArray(a) /\ a.alloc <= MaxAlloc
    BY DEF Fitting
  <1>2. PICK o \in Nat, n \in Nat, c \in Nat :
           /\ a.begin = o /\ D!size(a) = n /\ a.end = o + n /\ a.alloc = c /\ o + n <= c
           /\ \A i \in 0 .. n - 1 : D!Cell(a, o + i) = Elem(a, i) /\ Elem(a, i) \in Values
    BY <1>1, ArrayHas
  <1> DEFINE moved == a.begin > (2 * a.alloc) \div 3
             room  == IF a.end # a.alloc THEN a
                      ELSE IF moved
                           THEN D!Data(a.alloc, n, n * 2, LAMBDA i : D!Cell(a, a.begin + i - n))
                           ELSE D!realloc(a, D!grow(a.alloc + 1))
  <1>3. PICK m : m = room
    OBVIOUS
  <1>4. PICK b : b = D!append(a, x)
    OBVIOUS
  <1>5. b = [alloc |-> m.alloc, begin |-> m.begin, end |-> m.end + 1,
             array |-> [i \in 0 .. m.alloc - 1 |->
                          IF m.begin <= i /\ i < m.end + 1
                          THEN IF i = m.end THEN x ELSE D!Cell(m, i) ELSE Junk]]
    BY <1>2, <1>3, <1>4 DEF D!append, D!Data
  <1>6. Makes(m, n, Elems(a)) /\ m.end < m.alloc
    <2>1. CASE a.end # a.alloc
      BY <1>1, <1>2, <1>3, <2>1, ArrayMakes
    <2>2. CASE a.end = a.alloc /\ moved
      <3>1. m = D!Data(a.alloc, n, n * 2, LAMBDA i : D!Cell(a, a.begin + i - n))
        BY <1>3, <2>2
      <3>2. /\ m.alloc = c /\ m.begin = n /\ m.end = n * 2
            /\ m.array = [i \in 0 .. c - 1 |->
                           IF n <= i /\ i < n * 2 THEN D!Cell(a, o + i - n) ELSE Junk]
        BY <1>2, <3>1 DEF D!Data
      <3>3. n * 2 < c /\ n * 2 = n + n
        BY <1>2, <2>2
      <3>4. ASSUME NEW i \in 0 .. n - 1
            PROVE  m.array[m.begin + i] = Elems(a)[i] /\ Elems(a)[i] \in Values
        <4>1. PICK j \in 0 .. c - 1 : j = n + i /\ n <= j /\ j < n * 2 /\ o + j - n = o + i
          BY <3>3
        <4>2. m.array[j] = D!Cell(a, o + i)
          BY <3>2, <4>1
        <4>3. QED
          BY <1>2, <3>2, <4>1, <4>2 DEF Elems
      <3>5. Spans(m, n)
        BY <3>2, <3>3 DEF Spans
      <3>6. Makes(m, n, Elems(a))
        BY ONLY n \in Nat, <3>4, <3>5, MakesFrom
      <3>7. QED
        BY <3>2, <3>3, <3>6
    <2>3. CASE a.end = a.alloc /\ ~moved
      <3>1. m = D!realloc(a, D!grow(a.alloc + 1))
        BY <1>3, <2>3
      <3>2. PICK p \in Nat : p = a.alloc + 1 /\ a.alloc <= p /\ p <= MaxAlloc + 1
        BY <1>1, <1>2, SizeAssumption
      <3>3. /\ m.alloc \in Nat /\ m.alloc >= p /\ m.end = a.end
            /\ Makes(m, D!size(a), Elems(a))
        BY <3>1, <3>2, GrownMakes
      <3>4. QED
        BY <1>2, <2>3, <3>2, <3>3
    <2>4. QED
      BY <2>1, <2>2, <2>3
  <1> HIDE DEF room, moved
  <1>7. PICK k \in Nat : k = n + 1
    OBVIOUS
  <1>8. PICK p \in Nat, q \in Nat :
          /\ m.begin = p /\ m.end = p + n /\ m.alloc = q
          /\ \A i \in 0 .. n - 1 : D!Cell(m, p + i) = Elem(a, i)
    BY <1>1, <1>2, <1>6, GrownHas
  <1>9. p + n < q
    BY <1>6, <1>8
  <1>10. b.begin = p /\ Spans(b, k)
    BY ONLY n \in Nat, <1>5, <1>7, <1>8, <1>9 DEF Spans
  <1>11. ASSUME NEW i \in 0 .. k - 1
         PROVE  /\ b.array[b.begin + i] = Inserted(a, D!size(a), x)[i]
                /\ Inserted(a, D!size(a), x)[i] \in Values
    <2>1. PICK j \in 0 .. q - 1 : j = p + i /\ p <= j /\ j < p + n + 1 /\ (j = p + n <=> i = n)
      BY <1>7, <1>9
    <2>2. b.array[j] = IF i = n THEN x ELSE D!Cell(m, j)
      BY <1>5, <1>8, <2>1
    <2>3. i \in 0 .. n
      BY <1>7
    <2>4. QED
      BY <1>2, <1>8, <1>10, <2>1, <2>2, <2>3 DEF Inserted
  <1>12. Makes(b, k, Inserted(a, D!size(a), x))
    BY <1>10, <1>11, MakesFrom
  <1>13. QED
    BY <1>2, <1>4, <1>7, <1>12

(* append of a list puts its elements behind those there.                  *)
LEMMA appendListMakes ==
  ASSUME NEW a, Fitting(a), NEW xs \in Seq(Values), Len(xs) <= MaxAlloc
  PROVE  Makes(D!appendList(a, xs), D!size(a) + Len(xs), Extended(a, xs))
  <1>1. IsArray(a) /\ a.alloc <= MaxAlloc
    BY DEF Fitting
  <1>2. PICK o \in Nat, n \in Nat, c \in Nat :
           /\ a.begin = o /\ D!size(a) = n /\ a.end = o + n /\ a.alloc = c /\ o + n <= c
           /\ \A i \in 0 .. n - 1 : D!Cell(a, o + i) = Elem(a, i) /\ Elem(a, i) \in Values
    BY <1>1, ArrayHas
  <1>3. PICK l \in Nat : l = Len(xs) /\ l <= MaxAlloc /\ \A i \in 1 .. l : xs[i] \in Values
    BY LenProperties, ElementOfSeq
  <1>4. CASE l = 0
    <2>1. D!appendList(a, xs) = a
      BY <1>3, <1>4 DEF D!appendList
    <2>2. D!size(a) + Len(xs) = n /\ D!size(a) = n
      BY <1>2, <1>3, <1>4
    <2>3. \A i \in 0 .. n - 1 : Extended(a, xs)[i] = Elem(a, i)
      BY <2>2 DEF Extended
    <2>4. QED
      BY <1>1, <2>1, <2>2, <2>3 DEF Makes
  <1>5. CASE l # 0
    <2> DEFINE room == IF a.end + l > a.alloc THEN D!realloc(a, D!grow(a.end + l)) ELSE a
    <2>1. PICK m : m = room
      OBVIOUS
    <2>2. PICK b : b = D!appendList(a, xs)
      OBVIOUS
    <2>3. b = [alloc |-> m.alloc, begin |-> m.begin, end |-> m.end + l,
               array |-> [i \in 0 .. m.alloc - 1 |->
                            IF m.begin <= i /\ i < m.end + l
                            THEN IF i >= m.end THEN xs[i - m.end + 1] ELSE D!Cell(m, i) ELSE Junk]]
      BY <1>3, <1>5, <2>1, <2>2 DEF D!appendList, D!Data
    <2>4. Makes(m, n, Elems(a)) /\ m.end = o + n /\ o + n + l <= m.alloc
      <3>1. CASE a.end + l > a.alloc
        <4>1. PICK p \in Nat : p = a.end + l /\ p = o + n + l /\ a.alloc <= p /\ p <= 2 * MaxAlloc
          BY <1>1, <1>2, <1>3, <3>1, SizeAssumption
        <4>2. m = D!realloc(a, D!grow(p))
          BY <2>1, <3>1, <4>1
        <4>3. /\ m.alloc \in Nat /\ m.alloc >= p /\ m.end = a.end
              /\ Makes(m, D!size(a), Elems(a))
          BY <4>1, <4>2, GrownMakes
        <4>4. QED
          BY <1>2, <4>1, <4>3
      <3>2. CASE ~(a.end + l > a.alloc)
        BY <1>1, <1>2, <2>1, <3>2, ArrayMakes
      <3>3. QED
        BY <3>1, <3>2
    <2> HIDE DEF room
    <2>5. PICK k \in Nat : k = n + l
      OBVIOUS
    <2>6. PICK p \in Nat, q \in Nat :
            /\ m.begin = p /\ m.end = p + n /\ m.alloc = q
            /\ \A i \in 0 .. n - 1 : D!Cell(m, p + i) = Elem(a, i)
      BY <1>1, <1>2, <2>4, GrownHas
    <2>7. p + n + l <= q
      BY <2>4, <2>6
    <2>8. b.begin = p /\ Spans(b, k)
      BY ONLY n \in Nat, l \in Nat, <2>3, <2>5, <2>6, <2>7 DEF Spans
    <2>9. ASSUME NEW i \in 0 .. k - 1
          PROVE  b.array[b.begin + i] = Extended(a, xs)[i] /\ Extended(a, xs)[i] \in Values
      <3>1. PICK j \in 0 .. q - 1 : j = p + i /\ p <= j /\ j < p + n + l /\ (j >= p + n <=> ~(i < n))
        BY <2>5, <2>7
      <3>2. b.array[j] = IF i < n THEN D!Cell(m, j) ELSE xs[j - (p + n) + 1]
        BY <2>3, <2>6, <3>1
      <3>3. j - (p + n) + 1 = i - n + 1 /\ (~(i < n) => i - n + 1 \in 1 .. l) /\ i \in 0 .. n + l - 1
        BY <2>5, <3>1
      <3>4. Extended(a, xs)[i] = IF i < n THEN Elem(a, i) ELSE xs[i - n + 1]
        BY <1>2, <1>3, <3>3 DEF Extended
      <3>5. QED
        BY <1>2, <1>3, <2>6, <2>8, <3>1, <3>2, <3>3, <3>4
    <2>10. Makes(b, k, Extended(a, xs))
      BY <2>8, <2>9, MakesFrom
    <2>11. QED
      BY <1>2, <1>3, <2>2, <2>5, <2>10
  <1>6. QED
    BY <1>4, <1>5

(* prepend puts x before all elements, wherever it finds or makes room.    *)
LEMMA prependMakes ==
  ASSUME NEW a, Fitting(a), NEW x \in Values
  PROVE  Makes(D!prepend(a, x), D!size(a) + 1, Inserted(a, 0, x))
  <1>1. IsArray(a) /\ a.alloc <= MaxAlloc
    BY DEF Fitting
  <1>2. PICK o \in Nat, n \in Nat, c \in Nat :
           /\ a.begin = o /\ D!size(a) = n /\ a.end = o + n /\ a.alloc = c /\ o + n <= c
           /\ \A i \in 0 .. n - 1 : D!Cell(a, o + i) = Elem(a, i) /\ Elem(a, i) \in Values
    BY <1>1, ArrayHas
  <1> DEFINE grown == IF a.end >= a.alloc \div 3 THEN D!realloc(a, D!grow(a.alloc + 1)) ELSE a
  <1>3. PICK g : g = grown
    OBVIOUS
  <1> DEFINE begin == IF g.end < g.alloc \div 3 THEN g.alloc - 2 * g.end ELSE g.alloc - g.end
  <1>4. PICK s : s = begin
    OBVIOUS
  <1> DEFINE room == IF a.begin # 0 THEN a
                     ELSE D!Data(g.alloc, s, g.end + s, LAMBDA i : D!Cell(g, i - s))
  <1>5. PICK m : m = room
    OBVIOUS
  <1>6. PICK b : b = D!prepend(a, x)
    OBVIOUS
  <1>7. b = [alloc |-> m.alloc, begin |-> m.begin - 1, end |-> m.end,
             array |-> [i \in 0 .. m.alloc - 1 |->
                          IF m.begin - 1 <= i /\ i < m.end
                          THEN IF i = m.begin - 1 THEN x ELSE D!Cell(m, i) ELSE Junk]]
    BY <1>3, <1>4, <1>5, <1>6 DEF D!prepend, D!Data
  <1>8. Makes(m, n, Elems(a)) /\ m.begin > 0
    <2>1. CASE a.begin # 0
      BY <1>1, <1>2, <1>5, <2>1, ArrayMakes
    <2>2. CASE a.begin = 0
      <3>1. /\ g.alloc \in Nat /\ g.begin = 0 /\ g.end = n /\ Makes(g, n, Elems(a))
            /\ g.end < g.alloc
        <4>1. CASE a.end >= a.alloc \div 3
          <5>1. PICK p \in Nat : p = a.alloc + 1 /\ a.alloc <= p /\ p <= MaxAlloc + 1
            BY <1>1, <1>2, SizeAssumption
          <5>2. g = D!realloc(a, D!grow(p))
            BY <1>3, <4>1, <5>1
          <5>3. /\ g.alloc \in Nat /\ g.alloc >= p /\ g.begin = a.begin /\ g.end = a.end
                /\ Makes(g, D!size(a), Elems(a))
            BY <5>1, <5>2, GrownMakes
          <5>4. g.begin = 0 /\ g.end = n /\ n < p
            <6>1. o = 0 /\ a.end = o + n /\ p = c + 1 /\ o + n <= c
              BY <1>2, <2>2, <5>1
            <6>2. o + n = n
              BY <6>1
            <6>3. QED
              BY ONLY o \in Nat, n \in Nat, c \in Nat, <2>2, <5>3, <6>1, <6>2
          <5>5. PICK w \in Nat : w = g.alloc /\ p <= w
            BY ONLY <5>3
          <5>6. g.end < g.alloc
            BY ONLY n \in Nat, p \in Nat, <5>4, <5>5
          <5>7. QED
            BY <1>2, <5>3, <5>4, <5>6
        <4>2. CASE ~(a.end >= a.alloc \div 3)
          <5>1. g = a
            BY <1>3, <4>2
          <5>2. a.end < a.alloc
            BY <1>2, <4>2
          <5>3. QED
            BY <1>1, <1>2, <2>2, <5>1, <5>2, ArrayMakes
        <4>3. QED
          BY <4>1, <4>2
      <3>2. PICK q \in Nat : q = g.alloc /\ n < q
        BY <3>1
      <3>3. s \in Nat /\ s > 0 /\ s + n <= q
        <4>1. s = IF n < q \div 3 THEN q - 2 * n ELSE q - n
          BY <1>4, <3>1, <3>2
        <4>2. n < q \div 3 => 3 * n < q
          BY <3>2
        <4>3. QED
          BY ONLY n \in Nat, <3>2, <4>1, <4>2
      <3>4. m = D!Data(q, s, n + s, LAMBDA i : D!Cell(g, i - s))
        BY <1>5, <2>2, <3>1, <3>2
      <3>5. /\ m.alloc = q /\ m.begin = s /\ m.end = n + s
            /\ m.array = [i \in 0 .. q - 1 |->
                           IF s <= i /\ i < n + s THEN D!Cell(g, i - s) ELSE Junk]
        BY <3>4 DEF D!Data
      <3>6. \A i \in 0 .. n - 1 : D!Cell(g, i) = Elem(a, i)
        <4>1. PICK p \in Nat : g.begin = p /\ \A i \in 0 .. n - 1 : D!Cell(g, p + i) = Elem(a, i)
          BY <1>1, <1>2, <3>1, GrownHas
        <4>2. \A i \in 0 .. n - 1 : p + i = i
          BY <3>1, <4>1
        <4>3. QED
          BY <4>1, <4>2
      <3>7. ASSUME NEW i \in 0 .. n - 1
            PROVE  m.array[m.begin + i] = Elems(a)[i] /\ Elems(a)[i] \in Values
        <4>1. PICK j \in 0 .. q - 1 : j = s + i /\ s <= j /\ j < n + s /\ j - s = i
          BY <3>2, <3>3
        <4>2. m.array[j] = D!Cell(g, i)
          BY <3>5, <4>1
        <4>3. QED
          BY <1>2, <3>5, <3>6, <4>1, <4>2 DEF Elems
      <3>8. Spans(m, n)
        BY <3>2, <3>3, <3>5 DEF Spans
      <3>9. Makes(m, n, Elems(a))
        BY ONLY n \in Nat, <3>7, <3>8, MakesFrom
      <3>10. QED
        BY <3>3, <3>5, <3>9
    <2>3. QED
      BY <2>1, <2>2
  <1> HIDE DEF room
  <1>9. PICK k \in Nat : k = n + 1
    OBVIOUS
  <1>10. PICK p \in Nat, q \in Nat :
          /\ m.begin = p /\ m.end = p + n /\ m.alloc = q /\ p + n <= q
          /\ \A i \in 0 .. n - 1 : D!Cell(m, p + i) = Elem(a, i)
    BY <1>1, <1>2, <1>8, GrownHas
  <1>11. p > 0
    BY <1>8, <1>10
  <1>12. b.begin = p - 1 /\ Spans(b, k)
    BY ONLY n \in Nat, <1>7, <1>9, <1>10, <1>11 DEF Spans
  <1>13. ASSUME NEW i \in 0 .. k - 1
         PROVE  b.array[b.begin + i] = Inserted(a, 0, x)[i] /\ Inserted(a, 0, x)[i] \in Values
    <2>1. PICK j \in 0 .. q - 1 : /\ j = p - 1 + i /\ p - 1 <= j /\ j < p + n
                                  /\ (j = p - 1 <=> i = 0) /\ j = p + (i - 1)
      BY <1>9, <1>10, <1>11
    <2>2. b.array[j] = IF i = 0 THEN x ELSE D!Cell(m, p + (i - 1))
      BY <1>7, <1>10, <2>1
    <2>3. i \in 0 .. n /\ ~(i < 0) /\ (i # 0 => i - 1 \in 0 .. n - 1)
      BY <1>9
    <2>4. Inserted(a, 0, x)[i] = IF i = 0 THEN x ELSE Elem(a, i - 1)
      BY <1>2, <2>3 DEF Inserted
    <2>5. b.begin + i = j
      BY <1>12, <2>1
    <2>6. QED
      BY <1>2, <1>10, <2>2, <2>3, <2>4, <2>5
  <1>14. Makes(b, k, Inserted(a, 0, x))
    BY <1>12, <1>13, MakesFrom
  <1>15. QED
    BY <1>2, <1>6, <1>9, <1>14

(* remove closes the gap, from whichever side it does.                     *)
LEMMA removeOneMakes ==
  ASSUME NEW a, IsArray(a), NEW k \in 0 .. D!size(a) - 1
  PROVE  Makes(D!removeOne(a, k), D!size(a) - 1, Removed(a, k, 1))
  <1>1. PICK o \in Nat, n \in Nat, c \in Nat :
           /\ a.begin = o /\ D!size(a) = n /\ a.end = o + n /\ a.alloc = c /\ o + n <= c
           /\ \A i \in 0 .. n - 1 : D!Cell(a, o + i) = Elem(a, i) /\ Elem(a, i) \in Values
    BY ArrayHas
  <1>2. PICK b : b = D!removeOne(a, k)
    OBVIOUS
  <1>3. PICK l \in Nat : l = n - 1 /\ k \in 0 .. l /\ k \in Nat
    BY <1>1
  <1>4. ASSUME NEW i \in 0 .. l - 1
        PROVE  /\ Removed(a, k, 1)[i] = IF i < k THEN Elem(a, i) ELSE Elem(a, i + 1)
               /\ Removed(a, k, 1)[i] \in Values
    <2>1. i \in 0 .. D!size(a) - 1 - 1 /\ i \in 0 .. n - 1 /\ i + 1 \in 0 .. n - 1
      BY <1>1, <1>3
    <2>2. QED
      BY <1>1, <2>1 DEF Removed
  <1>5. CASE k < a.end - (a.begin + k)
    <2>1. b = [alloc |-> c, begin |-> o + 1, end |-> o + n,
               array |-> [i \in 0 .. c - 1 |->
                            IF o + 1 <= i /\ i < o + n
                            THEN D!Cell(a, IF i <= o + k THEN i - 1 ELSE i) ELSE Junk]]
      BY <1>1, <1>2, <1>5 DEF D!removeOne, D!Data
    <2>2. b.begin = o + 1 /\ Spans(b, l)
      BY ONLY o \in Nat, n \in Nat, c \in Nat, <1>1, <1>3, <2>1 DEF Spans
    <2>3. ASSUME NEW i \in 0 .. l - 1
          PROVE  b.array[b.begin + i] = Removed(a, k, 1)[i]
      <3>1. PICK j \in 0 .. c - 1 : /\ j = o + 1 + i /\ o + 1 <= j /\ j < o + n
                                    /\ j - 1 = o + i /\ j = o + (i + 1) /\ (j <= o + k <=> i < k)
        BY <1>1, <1>3
      <3>2. b.array[j] = D!Cell(a, IF i < k THEN o + i ELSE o + (i + 1))
        BY <2>1, <3>1
      <3>3. i \in 0 .. n - 1 /\ i + 1 \in 0 .. n - 1
        BY <1>3
      <3>4. QED
        BY <1>1, <1>4, <2>2, <3>1, <3>2, <3>3
    <2>4. Makes(b, l, Removed(a, k, 1))
      BY <1>4, <2>2, <2>3, MakesFrom
    <2>5. QED
      BY <1>1, <1>2, <1>3, <2>4
  <1>6. CASE ~(k < a.end - (a.begin + k))
    <2>1. b = [alloc |-> c, begin |-> o, end |-> o + n - 1,
               array |-> [i \in 0 .. c - 1 |->
                            IF o <= i /\ i < o + n - 1
                            THEN D!Cell(a, IF i < o + k THEN i ELSE i + 1) ELSE Junk]]
      BY <1>1, <1>2, <1>6 DEF D!removeOne, D!Data
    <2>2. b.begin = o /\ Spans(b, l)
      BY ONLY o \in Nat, n \in Nat, c \in Nat, <1>1, <1>3, <2>1 DEF Spans
    <2>3. ASSUME NEW i \in 0 .. l - 1
          PROVE  b.array[b.begin + i] = Removed(a, k, 1)[i]
      <3>1. PICK j \in 0 .. c - 1 : /\ j = o + i /\ o <= j /\ j < o + n - 1
                                    /\ j + 1 = o + (i + 1) /\ (j < o + k <=> i < k)
        BY <1>1, <1>3
      <3>2. b.array[j] = D!Cell(a, IF i < k THEN o + i ELSE o + (i + 1))
        BY <2>1, <3>1
      <3>3. i \in 0 .. n - 1 /\ i + 1 \in 0 .. n - 1
        BY <1>3
      <3>4. QED
        BY <1>1, <1>4, <2>2, <3>1, <3>2, <3>3
    <2>4. Makes(b, l, Removed(a, k, 1))
      BY <1>4, <2>2, <2>3, MakesFrom
    <2>5. QED
      BY <1>1, <1>2, <1>3, <2>4
  <1>7. QED
    BY <1>5, <1>6

(* remove of several closes the gap, from whichever side it does.          *)
LEMMA removeManyMakes ==
  ASSUME NEW a, IsArray(a), NEW k \in Nat, NEW r \in Nat, k + r <= D!size(a)
  PROVE  Makes(D!removeMany(a, k, r), D!size(a) - r, Removed(a, k, r))
  <1>1. PICK o \in Nat, n \in Nat, c \in Nat :
           /\ a.begin = o /\ D!size(a) = n /\ a.end = o + n /\ a.alloc = c /\ o + n <= c
           /\ \A i \in 0 .. n - 1 : D!Cell(a, o + i) = Elem(a, i) /\ Elem(a, i) \in Values
    BY ArrayHas
  <1>2. PICK b : b = D!removeMany(a, k, r)
    OBVIOUS
  <1>3. PICK l \in Nat : l = n - r /\ k <= l
    BY <1>1
  <1>4. ASSUME NEW i \in 0 .. l - 1
        PROVE  /\ Removed(a, k, r)[i] = IF i < k THEN Elem(a, i) ELSE Elem(a, i + r)
               /\ Removed(a, k, r)[i] \in Values
    <2>1. i \in 0 .. D!size(a) - r - 1 /\ i \in 0 .. n - 1 /\ i + r \in 0 .. n - 1
      BY <1>1, <1>3
    <2>2. QED
      BY <1>1, <2>1 DEF Removed
  <1> DEFINE middle == a.begin + k + r \div 2
  <1>5. CASE middle - a.begin < a.end - middle
    <2>1. b = [alloc |-> c, begin |-> o + r, end |-> o + n,
               array |-> [i \in 0 .. c - 1 |->
                            IF o + r <= i /\ i < o + n
                            THEN D!Cell(a, IF i < o + k + r THEN i - r ELSE i) ELSE Junk]]
      BY <1>1, <1>2, <1>5 DEF D!removeMany, D!Data
    <2>2. b.begin = o + r /\ Spans(b, l)
      BY ONLY o \in Nat, n \in Nat, c \in Nat, r \in Nat, <1>1, <1>3, <2>1 DEF Spans
    <2>3. ASSUME NEW i \in 0 .. l - 1
          PROVE  b.array[b.begin + i] = Removed(a, k, r)[i]
      <3>1. PICK j \in 0 .. c - 1 : /\ j = o + r + i /\ o + r <= j /\ j < o + n
                                    /\ j - r = o + i /\ j = o + (i + r) /\ (j < o + k + r <=> i < k)
        BY <1>1, <1>3
      <3>2. b.array[j] = D!Cell(a, IF i < k THEN o + i ELSE o + (i + r))
        BY <2>1, <3>1
      <3>3. i \in 0 .. n - 1 /\ i + r \in 0 .. n - 1
        BY <1>3
      <3>4. QED
        BY <1>1, <1>4, <2>2, <3>1, <3>2, <3>3
    <2>4. Makes(b, l, Removed(a, k, r))
      BY <1>4, <2>2, <2>3, MakesFrom
    <2>5. QED
      BY <1>1, <1>2, <1>3, <2>4
  <1>6. CASE ~(middle - a.begin < a.end - middle)
    <2>1. b = [alloc |-> c, begin |-> o, end |-> o + n - r,
               array |-> [i \in 0 .. c - 1 |->
                            IF o <= i /\ i < o + n - r
                            THEN D!Cell(a, IF i < o + k THEN i ELSE i + r) ELSE Junk]]
      BY <1>1, <1>2, <1>6 DEF D!removeMany, D!Data
    <2>2. b.begin = o /\ Spans(b, l)
      BY ONLY o \in Nat, n \in Nat, c \in Nat, r \in Nat, <1>1, <1>3, <2>1 DEF Spans
    <2>3. ASSUME NEW i \in 0 .. l - 1
          PROVE  b.array[b.begin + i] = Removed(a, k, r)[i]
      <3>1. PICK j \in 0 .. c - 1 : /\ j = o + i /\ o <= j /\ j < o + n - r
                                    /\ j + r = o + (i + r) /\ (j < o + k <=> i < k)
        BY <1>1, <1>3
      <3>2. b.array[j] = D!Cell(a, IF i < k THEN o + i ELSE o + (i + r))
        BY <2>1, <3>1
      <3>3. i \in 0 .. n - 1 /\ i + r \in 0 .. n - 1
        BY <1>3
      <3>4. QED
        BY <1>1, <1>4, <2>2, <3>1, <3>2, <3>3
    <2>4. Makes(b, l, Removed(a, k, r))
      BY <1>4, <2>2, <2>3, MakesFrom
    <2>5. QED
      BY <1>1, <1>2, <1>3, <2>4
  <1>7. QED
    BY <1>5, <1>6

(* insert puts x at k: it moves the elements before it or those behind it. *)
LEMMA insertMakes ==
  ASSUME NEW a, Fitting(a), NEW k \in 0 .. D!size(a), NEW x \in Values
  PROVE  Makes(D!insert(a, k, x), D!size(a) + 1, Inserted(a, k, x))
  <1>1. IsArray(a) /\ a.alloc <= MaxAlloc
    BY DEF Fitting
  <1>2. PICK o \in Nat, n \in Nat, c \in Nat :
           /\ a.begin = o /\ D!size(a) = n /\ a.end = o + n /\ a.alloc = c /\ o + n <= c
           /\ \A i \in 0 .. n - 1 : D!Cell(a, o + i) = Elem(a, i) /\ Elem(a, i) \in Values
    BY <1>1, ArrayHas
  <1>3. k \in Nat /\ k <= n
    BY <1>2
  <1>4. CASE k <= 0
    <2>1. k = 0
      BY <1>3, <1>4
    <2>2. D!insert(a, k, x) = D!prepend(a, x)
      BY <1>2, <2>1 DEF D!insert
    <2>3. QED
      BY <2>1, <2>2, prependMakes
  <1>5. CASE k > 0 /\ k >= D!size(a)
    <2>1. k = n
      BY <1>2, <1>3, <1>5
    <2>2. D!insert(a, k, x) = D!append(a, x)
      BY <1>3, <1>5 DEF D!insert
    <2>3. QED
      BY <1>2, <2>1, <2>2, appendMakes
  <1>6. CASE k > 0 /\ k < n
    <2> DEFINE left == D!Leftward(a, k)
               room == IF a.begin = 0 /\ a.end = a.alloc THEN D!realloc(a, D!grow(a.alloc + 1)) ELSE a
    <2>1. PICK m : m = room
      OBVIOUS
    <2>2. Makes(m, n, Elems(a)) /\ (left => m.begin > 0) /\ (~left => m.end < m.alloc)
      <3>1. CASE a.begin = 0 /\ a.end = a.alloc
        <4>1. PICK p \in Nat : p = a.alloc + 1 /\ a.alloc <= p /\ p <= MaxAlloc + 1
          BY <1>1, <1>2, SizeAssumption
        <4>2. m = D!realloc(a, D!grow(p))
          BY <2>1, <3>1, <4>1
        <4>3. /\ m.alloc \in Nat /\ m.alloc >= p /\ m.begin = a.begin /\ m.end = a.end
              /\ Makes(m, D!size(a), Elems(a))
          BY <4>1, <4>2, GrownMakes
        <4>4. ~left
          BY <3>1 DEF D!Leftward
        <4>5. m.end < m.alloc
          BY ONLY c \in Nat, <1>2, <3>1, <4>1, <4>3
        <4>6. QED
          BY <1>2, <4>3, <4>4, <4>5
      <3>2. CASE ~(a.begin = 0 /\ a.end = a.alloc)
        <4>1. m = a
          BY <2>1, <3>2
        <4>2. (left => a.begin > 0) /\ (~left => a.end < a.alloc)
          BY <1>2, <3>2 DEF D!Leftward
        <4>3. QED
          BY <1>1, <1>2, <4>1, <4>2, ArrayMakes
      <3>3. QED
        BY <3>1, <3>2
    <2>3. PICK p \in Nat, q \in Nat :
            /\ m.begin = p /\ m.end = p + n /\ m.alloc = q /\ p + n <= q
            /\ \A i \in 0 .. n - 1 : D!Cell(m, p + i) = Elem(a, i)
      BY <1>1, <1>2, <2>2, GrownHas
    <2>4. PICK e \in Nat : e = (IF left THEN p - 1 ELSE p) /\ e + n + 1 <= q
      BY <2>2, <2>3
    <2>5. PICK b : b = D!insert(a, k, x)
      OBVIOUS
    <2>6. D!size(m) = n
      BY <2>2 DEF Makes
    <2>7. b = [alloc |-> q, begin |-> e, end |-> e + n + 1,
               array |-> [i \in 0 .. q - 1 |->
                            IF e <= i /\ i < e + n + 1
                            THEN IF i < e + k THEN D!Cell(m, IF left THEN i + 1 ELSE i)
                                 ELSE IF i = e + k THEN x
                                 ELSE D!Cell(m, IF left THEN i ELSE i - 1)
                            ELSE Junk]]
      <3>1. ~(k <= 0) /\ ~(k >= D!size(a))
        BY <1>2, <1>3, <1>6
      <3>2. e = IF left THEN m.begin - 1 ELSE m.begin
        BY <2>3, <2>4
      <3>3. b = D!Data(m.alloc, e, e + D!size(m) + 1,
                       LAMBDA i : IF i < e + k THEN D!Cell(m, IF left THEN i + 1 ELSE i)
                                  ELSE IF i = e + k THEN x
                                  ELSE D!Cell(m, IF left THEN i ELSE i - 1))
        BY ONLY <2>1, <2>5, <3>1, <3>2 DEF D!insert
      <3>4. QED
        BY ONLY <2>3, <2>6, <3>3 DEF D!Data
    <2> HIDE DEF left, room
    <2>8. PICK l \in Nat : l = n + 1
      OBVIOUS
    <2>9. b.begin = e /\ Spans(b, l)
      BY ONLY n \in Nat, q \in Nat, <2>4, <2>7, <2>8 DEF Spans
    <2>10. ASSUME NEW i \in 0 .. l - 1
           PROVE  /\ b.array[b.begin + i] = Inserted(a, k, x)[i]
                  /\ Inserted(a, k, x)[i] \in Values
      <3>1. PICK j \in 0 .. q - 1 : /\ j = e + i /\ e <= j /\ j < e + n + 1
                                    /\ (j < e + k <=> i < k) /\ (j = e + k <=> i = k)
        <4>1. e + n + 1 <= q
          BY <2>4
        <4>2. i \in Nat /\ i < n + 1
          BY <2>8
        <4>3. PICK j \in Nat : j = e + i
          BY <4>2
        <4>4. PICK kk \in Nat : kk = k
          BY <1>3
        <4>5. /\ j \in 0 .. q - 1 /\ e <= j /\ j < e + n + 1
              /\ (j < e + kk <=> i < kk) /\ (j = e + kk <=> i = kk)
          BY ONLY e \in Nat, n \in Nat, q \in Nat, <4>1, <4>2, <4>3, <4>4
        <4>6. QED
          BY <4>3, <4>4, <4>5
      <3>2. /\ (IF left THEN j + 1 ELSE j) = p + i
            /\ (IF left THEN j ELSE j - 1) = p + (i - 1)
        BY <2>4, <3>1
      <3>3. b.array[j] = IF i < k THEN D!Cell(m, p + i)
                         ELSE IF i = k THEN x ELSE D!Cell(m, p + (i - 1))
        BY <2>7, <3>1, <3>2
      <3>4. /\ i \in 0 .. D!size(a)
            /\ i < k => i \in 0 .. n - 1
            /\ ~(i < k) /\ i # k => i - 1 \in 0 .. n - 1
        BY <1>2, <1>3, <2>8
      <3>5. Inserted(a, k, x)[i] = IF i < k THEN Elem(a, i) ELSE IF i = k THEN x ELSE Elem(a, i - 1)
        BY <3>4 DEF Inserted
      <3>6. b.begin + i = j
        BY <2>9, <3>1
      <3>7. QED
        BY <1>2, <2>3, <3>3, <3>4, <3>5, <3>6
    <2>11. Makes(b, l, Inserted(a, k, x))
      BY <2>9, <2>10, MakesFrom
    <2>12. QED
      BY <1>2, <2>5, <2>8, <2>11
  <1>7. QED
    BY <1>2, <1>3, <1>4, <1>5, <1>6

(* The elements an array shows of a cell and of its neighbours             *)
LEMMA MovedIs ==
  ASSUME NEW a, IsArray(a), NEW s \in 0 .. D!size(a) - 1, NEW t \in 0 .. D!size(a) - 1,
         NEW i \in 0 .. D!size(a) - 1
  PROVE  /\ Moved(a, s, t)[i] = IF i = t THEN Elem(a, s)
                                ELSE IF s <= i /\ i < t THEN Elem(a, i + 1)
                                ELSE IF t < i /\ i <= s THEN Elem(a, i - 1)
                                ELSE Elem(a, i)
         /\ Moved(a, s, t)[i] \in Values
  <1>1. PICK n \in Nat : n = D!size(a) /\ \A j \in 0 .. n - 1 : Elem(a, j) \in Values
    BY SizeIs
  <1>2. /\ s \in 0 .. n - 1 /\ t \in 0 .. n - 1 /\ i \in 0 .. n - 1
    BY <1>1
  <1>3. /\ s <= i /\ i < t => i + 1 \in 0 .. n - 1
        /\ t < i /\ i <= s => i - 1 \in 0 .. n - 1
    BY <1>2
  <1>4. Moved(a, s, t)[i] = IF i = t THEN Elem(a, s)
                            ELSE IF s <= i /\ i < t THEN Elem(a, i + 1)
                            ELSE IF t < i /\ i <= s THEN Elem(a, i - 1)
                            ELSE Elem(a, i)
    BY DEF Moved
  <1>5. QED
    BY <1>1, <1>2, <1>3, <1>4

(* move moves one element and keeps the order of the others, whether it    *)
(* shifts those between or those around.                                   *)
LEMMA moveMakes ==
  ASSUME NEW a, IsArray(a), NEW s \in 0 .. D!size(a) - 1, NEW t \in 0 .. D!size(a) - 1
  PROVE  Makes(D!move(a, s, t), D!size(a), Moved(a, s, t))
  <1>1. PICK o \in Nat, n \in Nat, c \in Nat :
           /\ a.begin = o /\ D!size(a) = n /\ a.end = o + n /\ a.alloc = c /\ o + n <= c
           /\ \A i \in 0 .. n - 1 : D!Cell(a, o + i) = Elem(a, i) /\ Elem(a, i) \in Values
    BY ArrayHas
  <1>2. PICK u \in Nat, v \in Nat : u = s /\ v = t /\ u < n /\ v < n
    BY <1>1
  <1>3. PICK b : b = D!move(a, s, t)
    OBVIOUS
  <1>4. PICK from \in Nat, to \in Nat : from = o + u /\ to = o + v
    BY <1>2
  <1>a. PICK x : x = a.array[from]
    OBVIOUS
  <1>5. x = Elem(a, u)
    BY <1>1, <1>4, <1>a DEF Elem
  <1>6. \A i \in 0 .. n - 1 :
          /\ Moved(a, s, t)[i] = IF i = v THEN x
                                 ELSE IF u <= i /\ i < v THEN Elem(a, i + 1)
                                 ELSE IF v < i /\ i <= u THEN Elem(a, i - 1)
                                 ELSE Elem(a, i)
          /\ Moved(a, s, t)[i] \in Values
    BY <1>1, <1>2, <1>5, MovedIs
  <1> DEFINE forth == from < to
             shift == IF forth THEN a.end = a.alloc \/ 3 * (to - from) < 2 * D!size(a)
                               ELSE a.begin = 0 \/ 3 * (from - to) < 2 * D!size(a)
  <1>7. CASE s = t
    <2>1. D!move(a, s, t) = a
      <3>1. ~(a.begin + s < a.begin + t)
        BY <1>1, <1>2, <1>7
      <3>2. QED
        BY <1>7, <3>1 DEF D!move
    <2>2. ASSUME NEW i \in 0 .. n - 1
          PROVE  Elem(a, i) = Moved(a, s, t)[i]
      <3>1. u = v /\ ~(u <= i /\ i < v) /\ ~(v < i /\ i <= u)
        BY <1>2, <1>7
      <3>2. QED
        BY <1>5, <1>6, <3>1
    <2>3. QED
      BY <1>1, <2>1, <2>2 DEF Makes
  <1>8. CASE s # t /\ shift
    <2>1. b = D!Data(a.alloc, a.begin, a.end,
                     LAMBDA i : IF i = to THEN x
                                ELSE IF forth /\ from <= i /\ i < to THEN D!Cell(a, i + 1)
                                ELSE IF ~forth /\ to < i /\ i <= from THEN D!Cell(a, i - 1)
                                ELSE D!Cell(a, i))
      BY <1>1, <1>2, <1>3, <1>4, <1>a, <1>8 DEF D!move
    <2>2. /\ b.alloc = c /\ b.begin = o /\ b.end = o + n
          /\ b.array = [i \in 0 .. c - 1 |->
                          IF o <= i /\ i < o + n
                          THEN IF i = to THEN x
                               ELSE IF forth /\ from <= i /\ i < to THEN D!Cell(a, i + 1)
                               ELSE IF ~forth /\ to < i /\ i <= from THEN D!Cell(a, i - 1)
                               ELSE D!Cell(a, i)
                          ELSE Junk]
      BY <1>1, <2>1 DEF D!Data
    <2> HIDE DEF shift
    <2>3. ASSUME NEW i \in 0 .. n - 1
          PROVE  b.array[b.begin + i] = Moved(a, s, t)[i]
      <3>1. PICK j \in 0 .. c - 1 :
              /\ j = o + i /\ o <= j /\ j < o + n
              /\ j + 1 = o + (i + 1) /\ j - 1 = o + (i - 1)
              /\ (j = to <=> i = v)
              /\ (forth /\ from <= j /\ j < to <=> u <= i /\ i < v)
              /\ (~forth /\ to < j /\ j <= from <=> v < i /\ i <= u)
        BY <1>1, <1>2, <1>4
      <3>2. b.array[j] = IF i = v THEN x
                         ELSE IF u <= i /\ i < v THEN D!Cell(a, o + (i + 1))
                         ELSE IF v < i /\ i <= u THEN D!Cell(a, o + (i - 1))
                         ELSE D!Cell(a, o + i)
        BY <2>2, <3>1
      <3>3. /\ u <= i /\ i < v => i + 1 \in 0 .. n - 1
            /\ v < i /\ i <= u => i - 1 \in 0 .. n - 1
        BY <1>2
      <3>4. QED
        BY <1>1, <1>6, <2>2, <3>1, <3>2, <3>3
    <2>4. Spans(b, n)
      BY <1>1, <2>2 DEF Spans
    <2>5. Makes(b, n, Moved(a, s, t))
      BY ONLY n \in Nat, <1>6, <2>3, <2>4, MakesFrom
    <2>6. QED
      BY <1>1, <1>3, <2>5
  <1>9. CASE s # t /\ forth /\ ~shift
    <2>1. b = D!Data(a.alloc, a.begin + 1, a.end + 1,
                     LAMBDA i : IF i = to + 1 THEN x
                                ELSE IF i <= from \/ i > to + 1 THEN D!Cell(a, i - 1)
                                ELSE D!Cell(a, i))
      BY <1>1, <1>2, <1>3, <1>4, <1>a, <1>9 DEF D!move
    <2>2. /\ b.alloc = c /\ b.begin = o + 1 /\ b.end = o + n + 1
          /\ b.array = [i \in 0 .. c - 1 |->
                          IF o + 1 <= i /\ i < o + n + 1
                          THEN IF i = to + 1 THEN x
                               ELSE IF i <= from \/ i > to + 1 THEN D!Cell(a, i - 1)
                               ELSE D!Cell(a, i)
                          ELSE Junk]
      BY <1>1, <2>1 DEF D!Data
    <2>3. o + n + 1 <= c /\ u < v
      BY <1>1, <1>4, <1>9
    <2> HIDE DEF shift, forth
    <2>4. ASSUME NEW i \in 0 .. n - 1
          PROVE  b.array[b.begin + i] = Moved(a, s, t)[i]
      <3>1. PICK j \in 0 .. c - 1 :
              /\ j = o + 1 + i /\ o + 1 <= j /\ j < o + n + 1
              /\ j = o + (i + 1) /\ j - 1 = o + i
              /\ (j = to + 1 <=> i = v)
              /\ (j <= from \/ j > to + 1 <=> i < u \/ i > v)
        BY <1>2, <1>4, <2>3
      <3>2. b.array[j] = IF i = v THEN x
                         ELSE IF i < u \/ i > v THEN D!Cell(a, o + i)
                         ELSE D!Cell(a, o + (i + 1))
        BY <2>2, <3>1
      <3>3. /\ u <= i /\ i < v => i + 1 \in 0 .. n - 1
            /\ i < u \/ i > v <=> i # v /\ ~(u <= i /\ i < v)
            /\ ~(v < i /\ i <= u)
        BY <1>2, <2>3
      <3>4. QED
        BY <1>1, <1>6, <2>2, <3>1, <3>2, <3>3
    <2>5. Spans(b, n)
      BY <2>2, <2>3 DEF Spans
    <2>6. Makes(b, n, Moved(a, s, t))
      BY ONLY n \in Nat, <1>6, <2>4, <2>5, MakesFrom
    <2>7. QED
      BY <1>1, <1>3, <2>6
  <1>10. CASE s # t /\ ~forth /\ ~shift
    <2>1. b = D!Data(a.alloc, a.begin - 1, a.end - 1,
                     LAMBDA i : IF i = to - 1 THEN x
                                ELSE IF i < to - 1 \/ i >= from THEN D!Cell(a, i + 1)
                                ELSE D!Cell(a, i))
      BY <1>1, <1>2, <1>3, <1>4, <1>a, <1>10 DEF D!move
    <2>2. /\ b.alloc = c /\ b.begin = o - 1 /\ b.end = o + n - 1
          /\ b.array = [i \in 0 .. c - 1 |->
                          IF o - 1 <= i /\ i < o + n - 1
                          THEN IF i = to - 1 THEN x
                               ELSE IF i < to - 1 \/ i >= from THEN D!Cell(a, i + 1)
                               ELSE D!Cell(a, i)
                          ELSE Junk]
      BY <1>1, <2>1 DEF D!Data
    <2>3. o > 0 /\ v < u
      BY <1>1, <1>2, <1>4, <1>10
    <2> HIDE DEF shift, forth
    <2>4. ASSUME NEW i \in 0 .. n - 1
          PROVE  b.array[b.begin + i] = Moved(a, s, t)[i]
      <3>1. PICK j \in 0 .. c - 1 :
              /\ j = o - 1 + i /\ o - 1 <= j /\ j < o + n - 1
              /\ j = o + (i - 1) /\ j + 1 = o + i
              /\ (j = to - 1 <=> i = v)
              /\ (j < to - 1 \/ j >= from <=> i < v \/ i > u)
        BY <1>1, <1>2, <1>4, <2>3
      <3>2. b.array[j] = IF i = v THEN x
                         ELSE IF i < v \/ i > u THEN D!Cell(a, o + i)
                         ELSE D!Cell(a, o + (i - 1))
        BY <2>2, <3>1
      <3>3. /\ v < i /\ i <= u => i - 1 \in 0 .. n - 1
            /\ i < v \/ i > u <=> i # v /\ ~(v < i /\ i <= u)
            /\ ~(u <= i /\ i < v)
        BY <1>2, <2>3
      <3>4. QED
        BY <1>1, <1>6, <2>2, <3>1, <3>2, <3>3
    <2>5. Spans(b, n)
      BY <1>1, <2>2, <2>3 DEF Spans
    <2>6. Makes(b, n, Moved(a, s, t))
      BY ONLY n \in Nat, <1>6, <2>4, <2>5, MakesFrom
    <2>7. QED
      BY <1>1, <1>3, <2>6
  <1>11. QED
    BY <1>7, <1>8, <1>9, <1>10

-----------------------------------------------------------------------------
(* The same as lists *)

Cat(p, q) == p \o q

(* What the list h concatenated of p and q is                              *)
IsCat(h, p, q, m, n) ==
  /\ h \in Seq(Values) /\ Len(h) = m + n
  /\ \A i \in 1 .. m : h[i] = p[i]
  /\ \A i \in 1 .. n : h[m + i] = q[i]

(* Concatenation, by elements                                              *)
LEMMA CatIs ==
  ASSUME NEW p \in Seq(Values), NEW q \in Seq(Values), NEW m \in Nat, NEW n \in Nat,
         Len(p) = m, Len(q) = n
  PROVE  IsCat(Cat(p, q), p, q, m, n)
  <1>1. /\ p \o q \in Seq(Values) /\ Len(p \o q) = m + n
        /\ \A i \in 1 .. m + n : (p \o q)[i] = IF i <= m THEN p[i] ELSE q[i - m]
    BY ConcatProperties
  <1>2. PICK f : f = p \o q
    OBVIOUS
  <1>3. /\ f \in Seq(Values) /\ Len(f) = m + n
        /\ \A i \in 1 .. m + n : f[i] = IF i <= m THEN p[i] ELSE q[i - m]
    BY <1>1, <1>2
  <1>4. ASSUME NEW i \in 1 .. n
        PROVE  f[m + i] = q[i]
    <2>1. PICK j \in 1 .. m + n : j = m + i /\ ~(j <= m) /\ j - m = i
      OBVIOUS
    <2>2. QED
      BY <1>3, <2>1
  <1>5. \A i \in 1 .. m : f[i] = p[i]
    BY <1>3
  <1>6. IsCat(f, p, q, m, n)
    BY <1>3, <1>4, <1>5 DEF IsCat
  <1>7. f = Cat(p, q)
    BY <1>2 DEF Cat
  <1>8. QED
    BY <1>6, <1>7

(* A part of a list, by elements                                           *)
LEMMA Part ==
  ASSUME NEW S, NEW s \in Seq(S), NEW m \in Nat, NEW n \in Nat, m <= n, n <= Len(s),
         NEW w, w = m + 1
  PROVE  /\ SubSeq(s, w, n) \in Seq(S) /\ Len(SubSeq(s, w, n)) = n - m
         /\ \A i \in 1 .. n - m : SubSeq(s, w, n)[i] = s[m + i]
  <1>1. w \in Int /\ n \in Int /\ n - w + 1 = n - m
    OBVIOUS
  <1>2. \A i \in w .. n : s[i] \in S
    BY ElementOfSeq
  <1>3. PICK q : q = SubSeq(s, w, n)
    OBVIOUS
  <1>4. /\ q \in Seq(S) /\ Len(q) = IF w <= n THEN n - w + 1 ELSE 0
        /\ \A i \in 1 .. n - w + 1 : q[i] = s[w + i - 1]
    BY ONLY <1>1, <1>2, <1>3, SubSeqProperties
  <1>5. Len(q) = n - m /\ \A i \in 1 .. n - m : w + i - 1 = m + i
    BY <1>1, <1>4
  <1>6. QED
    BY <1>1, <1>3, <1>4, <1>5

(* A list of one                                                           *)
LEMMA OneElement ==
  ASSUME NEW S, NEW x \in S
  PROVE  <<x>> \in Seq(S) /\ Len(<<x>>) = 1 /\ <<x>>[1] = x
  OBVIOUS

(* Two lists of the same elements are the same *)
LEMMA SameList ==
  ASSUME NEW S, NEW s \in Seq(S), NEW t \in Seq(S), NEW n, Len(s) = n, Len(t) = n,
         \A i \in 1 .. n : s[i] = t[i]
  PROVE  s = t
  BY SeqEqual

(* Contents lists the elements, counted from 1.                            *)
LEMMA ContentsIs ==
  ASSUME NEW a, IsArray(a)
  PROVE  /\ D!Contents(a) \in Seq(Values) /\ Len(D!Contents(a)) = D!size(a)
         /\ \A i \in 1 .. D!size(a) : D!Contents(a)[i] = Elem(a, i - 1)
  <1>1. PICK o \in Nat, n \in Nat, c \in Nat :
           /\ a.begin = o /\ D!size(a) = n /\ a.end = o + n /\ a.alloc = c /\ o + n <= c
           /\ \A i \in 0 .. n - 1 : D!Cell(a, o + i) = Elem(a, i) /\ Elem(a, i) \in Values
    BY ArrayHas
  <1>2. PICK s : s = D!Contents(a)
    OBVIOUS
  <1>3. s = [i \in 1 .. n |-> a.array[o + i - 1]]
    BY <1>1, <1>2 DEF D!Contents
  <1>4. ASSUME NEW i \in 1 .. n
        PROVE  s[i] = Elem(a, i - 1) /\ s[i] \in Values
    <2>1. o + i - 1 = o + (i - 1) /\ i - 1 \in 0 .. n - 1
      OBVIOUS
    <2>2. s[i] = a.array[o + (i - 1)]
      BY <1>3, <2>1
    <2>3. QED
      BY <1>1, <2>1, <2>2 DEF Elem
  <1>5. s \in [1 .. n -> Values]
    BY <1>3, <1>4
  <1>6. s \in Seq(Values) /\ Len(s) = n
    BY <1>5
  <1>7. QED
    BY <1>1, <1>2, <1>4, <1>6

(* What an operation made, as a list                                       *)
LEMMA MakesContents ==
  ASSUME NEW b, NEW n \in Nat, NEW f, Makes(b, n, f)
  PROVE  /\ D!Contents(b) \in Seq(Values) /\ Len(D!Contents(b)) = n
         /\ \A i \in 1 .. n : D!Contents(b)[i] = f[i - 1]
  <1>1. IsArray(b) /\ D!size(b) = n /\ \A i \in 0 .. n - 1 : Elem(b, i) = f[i]
    BY DEF Makes
  <1>2. \A i \in 1 .. n : i - 1 \in 0 .. n - 1
    OBVIOUS
  <1>3. QED
    BY <1>1, <1>2, ContentsIs

(* The same elements are the same list.                                    *)
LEMMA SameContents ==
  ASSUME NEW a, IsArray(a), NEW b, Makes(b, D!size(a), Elems(a))
  PROVE  D!Contents(b) = D!Contents(a)
  <1>1. PICK n \in Nat : n = D!size(a)
    BY SizeIs
  <1>2. PICK s \in Seq(Values) : s = D!Contents(a) /\ Len(s) = n /\ \A i \in 1 .. n : s[i] = Elem(a, i - 1)
    BY <1>1, ContentsIs
  <1>3. PICK t \in Seq(Values) : t = D!Contents(b) /\ Len(t) = n /\ \A i \in 1 .. n : t[i] = Elems(a)[i - 1]
    BY <1>1, MakesContents
  <1>4. \A i \in 1 .. n : Elems(a)[i - 1] = Elem(a, i - 1)
    <2> TAKE i \in 1 .. n
    <2>1. i - 1 \in 0 .. n - 1
      OBVIOUS
    <2>2. QED
      BY <1>1, <2>1 DEF Elems
  <1>5. Len(s) = Len(t) /\ \A i \in 1 .. Len(s) : s[i] = t[i]
    BY <1>2, <1>3, <1>4
  <1>6. s = t
    BY ONLY <1>5, SeqEqual
  <1>7. QED
    BY <1>2, <1>3, <1>6

(* An insertion and a removal                                              *)
With(s, m, x)    == Cat(Cat(SubSeq(s, 1, m), <<x>>), SubSeq(s, m + 1, Len(s)))
Without(s, m, u) == Cat(SubSeq(s, 1, m), SubSeq(s, m + u + 1, Len(s)))

(* What the lists h they make are                                          *)
IsWith(h, s, n, m, x) ==
  /\ h \in Seq(Values) /\ Len(h) = n + 1
  /\ \A i \in 1 .. n + 1 : h[i] = IF i <= m THEN s[i] ELSE IF i = m + 1 THEN x ELSE s[i - 1]

IsWithout(h, s, n, m, u) ==
  /\ h \in Seq(Values) /\ Len(h) = n - u
  /\ \A i \in 1 .. n - u : h[i] = IF i <= m THEN s[i] ELSE s[i + u]

(* An insertion makes what IsWith says, ...                                   *)
LEMMA WithIs ==
  ASSUME NEW s \in Seq(Values), NEW n \in Nat, NEW m \in Nat, NEW x \in Values,
         Len(s) = n, m <= n
  PROVE  IsWith(With(s, m, x), s, n, m, x)
  <1>1. s \in Seq(Values) /\ Len(s) = n /\ m <= n
    OBVIOUS
  <1>7. PICK p \in Seq(Values) : /\ p = SubSeq(s, 1, m) /\ Len(p) = m
                                 /\ \A i \in 1 .. m : p[i] = s[i]
    <2>1. 0 \in Nat /\ 1 = 0 + 1 /\ m - 0 = m /\ \A i \in 1 .. m : 0 + i = i
      BY ONLY m \in Nat
    <2>2. PICK p : p = SubSeq(s, 1, m)
      OBVIOUS
    <2>3. /\ p \in Seq(Values) /\ Len(p) = m - 0
          /\ \A i \in 1 .. m - 0 : p[i] = s[0 + i]
      BY ONLY m \in Nat, <1>1, <2>1, <2>2, Part
    <2>4. QED
      BY <2>1, <2>2, <2>3
  <1>8. PICK w \in Nat : w = m + 1
    OBVIOUS
  <1>9. PICK r \in Nat : r = n - m
    BY <1>1
  <1>10. PICK q \in Seq(Values) : /\ q = SubSeq(s, w, n) /\ Len(q) = r
                                  /\ \A i \in 1 .. r : q[i] = s[m + i]
    <2>1. PICK q : q = SubSeq(s, w, n)
      OBVIOUS
    <2>2. q \in Seq(Values) /\ Len(q) = n - m /\ \A i \in 1 .. n - m : q[i] = s[m + i]
      BY ONLY m \in Nat, n \in Nat, <1>1, <1>8, <2>1, Part
    <2>3. QED
      BY <1>9, <2>1, <2>2
  <1>11. PICK o \in Nat : o = 1
    OBVIOUS
  <1>12. PICK e \in Seq(Values) : e = <<x>> /\ Len(e) = o /\ e[1] = x
    BY <1>11, OneElement
  <1>13. PICK g \in Seq(Values) : /\ g = Cat(p, e) /\ Len(g) = m + o
                                  /\ \A i \in 1 .. m : g[i] = p[i]
                                  /\ \A i \in 1 .. o : g[m + i] = e[i]
    <2>1. Len(p) = m
      BY <1>7
    <2>2. Len(e) = o
      BY <1>12
    <2>3. IsCat(Cat(p, e), p, e, m, o)
      BY ONLY m \in Nat, o \in Nat, p \in Seq(Values), e \in Seq(Values), <2>1, <2>2, CatIs, Zenon
    <2>4. PICK g : g = Cat(p, e) /\ IsCat(g, p, e, m, o)
      BY <2>3
    <2>5. QED
      BY <2>4 DEF IsCat
  <1>14. Len(g) = w
    BY <1>8, <1>11, <1>13
  <1>15. PICK h \in Seq(Values) : /\ h = Cat(g, q) /\ Len(h) = w + r
                                  /\ \A i \in 1 .. w : h[i] = g[i]
                                  /\ \A i \in 1 .. r : h[w + i] = q[i]
    <2>1. Len(q) = r
      BY <1>10
    <2>2. IsCat(Cat(g, q), g, q, w, r)
      BY ONLY w \in Nat, r \in Nat, g \in Seq(Values), q \in Seq(Values), <1>14, <2>1, CatIs, Zenon
    <2>3. PICK h : h = Cat(g, q) /\ IsCat(h, g, q, w, r)
      BY <2>2
    <2>4. QED
      BY <2>3 DEF IsCat
  <1>16. w + r = n + 1
    BY <1>8, <1>9
  <1>17. ASSUME NEW i \in 1 .. n + 1
         PROVE  h[i] = IF i <= m THEN s[i] ELSE IF i = m + 1 THEN x ELSE s[i - 1]
    <2>1. CASE i <= m
      <3>1. i \in 1 .. m /\ i \in 1 .. w
        BY <1>8, <2>1
      <3>2. QED
        BY <1>7, <1>13, <1>15, <2>1, <3>1
    <2>2. CASE i = m + 1
      <3>1. i \in 1 .. w /\ ~(i <= m) /\ i = m + o /\ o \in 1 .. o
        BY <1>8, <1>11, <2>2
      <3>2. h[i] = e[1]
        BY <1>11, <1>13, <1>15, <3>1
      <3>3. QED
        BY <1>12, <2>2, <3>1, <3>2
    <2>3. CASE i > m + 1
      <3>1. PICK j \in 1 .. r : w + j = i /\ m + j = i - 1 /\ ~(i <= m) /\ i # m + 1
        BY <1>8, <1>9, <2>3
      <3>2. h[i] = q[j] /\ q[j] = s[i - 1]
        BY <1>10, <1>15, <3>1
      <3>3. QED
        BY <3>1, <3>2
    <2>4. QED
      BY <2>1, <2>2, <2>3
  <1>18. h = With(s, m, x)
    BY <1>1, <1>7, <1>8, <1>10, <1>12, <1>13, <1>15 DEF With
  <1>19. IsWith(h, s, n, m, x)
    BY <1>15, <1>16, <1>17 DEF IsWith
  <1>20. QED
    BY <1>18, <1>19

(* ... and a removal what IsWithout says.                                  *)
LEMMA WithoutIs ==
  ASSUME NEW s \in Seq(Values), NEW n \in Nat, NEW m \in Nat, NEW u \in Nat,
         Len(s) = n, m + u <= n
  PROVE  IsWithout(Without(s, m, u), s, n, m, u)
  <1>1. s \in Seq(Values) /\ Len(s) = n /\ m <= n /\ m + u <= n
    OBVIOUS
  <1>2. PICK p \in Seq(Values) : /\ p = SubSeq(s, 1, m) /\ Len(p) = m
                                 /\ \A i \in 1 .. m : p[i] = s[i]
    <2>1. 0 \in Nat /\ 1 = 0 + 1 /\ m - 0 = m /\ \A i \in 1 .. m : 0 + i = i
      BY ONLY m \in Nat
    <2>2. PICK p : p = SubSeq(s, 1, m)
      OBVIOUS
    <2>3. /\ p \in Seq(Values) /\ Len(p) = m - 0
          /\ \A i \in 1 .. m - 0 : p[i] = s[0 + i]
      BY ONLY m \in Nat, <1>1, <2>1, <2>2, Part
    <2>4. QED
      BY <2>1, <2>2, <2>3
  <1>3. PICK v \in Nat : v = m + u
    OBVIOUS
  <1>4. PICK w \in Nat : w = v + 1 /\ w = m + u + 1
    BY <1>3
  <1>5. PICK r \in Nat : r = n - v
    BY <1>1, <1>3
  <1>6. PICK q \in Seq(Values) : /\ q = SubSeq(s, w, n) /\ Len(q) = r
                                 /\ \A i \in 1 .. r : q[i] = s[v + i]
    <2>1. PICK q : q = SubSeq(s, w, n)
      OBVIOUS
    <2>2. q \in Seq(Values) /\ Len(q) = n - v /\ \A i \in 1 .. n - v : q[i] = s[v + i]
      <3>1. s \in Seq(Values) /\ Len(s) = n /\ v <= n
        BY <1>1, <1>3
      <3>2. QED
        BY ONLY v \in Nat, n \in Nat, <1>4, <2>1, <3>1, Part
    <2>3. QED
      BY <1>5, <2>1, <2>2
  <1>7. PICK h \in Seq(Values) : /\ h = Cat(p, q) /\ Len(h) = m + r
                                 /\ \A i \in 1 .. m : h[i] = p[i]
                                 /\ \A i \in 1 .. r : h[m + i] = q[i]
    <2>1. Len(p) = m
      BY <1>2
    <2>2. Len(q) = r
      BY <1>6
    <2>3. IsCat(Cat(p, q), p, q, m, r)
      BY ONLY m \in Nat, r \in Nat, p \in Seq(Values), q \in Seq(Values), <2>1, <2>2, CatIs, Zenon
    <2>4. PICK h : h = Cat(p, q) /\ IsCat(h, p, q, m, r)
      BY <2>3
    <2>5. QED
      BY <2>4 DEF IsCat
  <1>8. ASSUME NEW i \in 1 .. n - u
        PROVE  h[i] = IF i <= m THEN s[i] ELSE s[i + u]
    <2>1. CASE i <= m
      <3>1. i \in 1 .. m
        BY <2>1
      <3>2. QED
        BY <1>2, <1>7, <2>1, <3>1
    <2>2. CASE ~(i <= m)
      <3>1. PICK j \in 1 .. r : m + j = i /\ v + j = i + u
        BY <1>3, <1>5, <2>2
      <3>2. h[i] = q[j] /\ q[j] = s[i + u]
        BY <1>6, <1>7, <3>1
      <3>3. QED
        BY <2>2, <3>2
    <2>3. QED
      BY <2>1, <2>2
  <1>9. h = Without(s, m, u)
    BY <1>1, <1>2, <1>4, <1>6, <1>7 DEF Without
  <1>10. m + r = n - u
    BY <1>3, <1>5
  <1>11. IsWithout(h, s, n, m, u)
    BY <1>7, <1>8, <1>10 DEF IsWithout
  <1>12. QED
    BY <1>9, <1>11

(* An element put at k is an insertion in the list.                        *)
LEMMA InsertedContents ==
  ASSUME NEW a, IsArray(a), NEW k \in 0 .. D!size(a), NEW x \in Values,
         NEW b, Makes(b, D!size(a) + 1, Inserted(a, k, x)), NEW s, s = D!Contents(a)
  PROVE  D!Contents(b) = With(s, k, x)
  <1>1. PICK n \in Nat : n = D!size(a)
    BY SizeIs
  <1>2. PICK m \in Nat : m = k /\ m <= n
    BY <1>1
  <1>3. s \in Seq(Values) /\ Len(s) = n /\ \A i \in 1 .. n : s[i] = Elem(a, i - 1)
    BY <1>1, ContentsIs
  <1>4. PICK l \in Nat : l = n + 1
    OBVIOUS
  <1>5. PICK t \in Seq(Values) : /\ t = D!Contents(b) /\ Len(t) = l
                                 /\ \A i \in 1 .. l : t[i] = Inserted(a, k, x)[i - 1]
    BY <1>1, <1>4, MakesContents
  <1>6. ASSUME NEW i \in 1 .. l
        PROVE  t[i] = IF i <= m THEN s[i] ELSE IF i = m + 1 THEN x ELSE s[i - 1]
    <2>1. PICK j \in 0 .. n : j = i - 1 /\ (j < m <=> i <= m) /\ (j = m <=> i = m + 1)
      BY <1>4
    <2>2. t[i] = IF j < m THEN Elem(a, j) ELSE IF j = m THEN x ELSE Elem(a, j - 1)
      BY <1>1, <1>2, <1>5, <2>1 DEF Inserted
    <2>3. i <= m => i \in 1 .. n /\ s[i] = Elem(a, j)
      BY <1>2, <1>3, <2>1
    <2>4. ~(i <= m) /\ i # m + 1 => i - 1 \in 1 .. n /\ s[i - 1] = Elem(a, j - 1)
      BY <1>2, <1>3, <1>4, <2>1
    <2>5. QED
      BY <2>1, <2>2, <2>3, <2>4
  <1>7. PICK h \in Seq(Values) :
           /\ h = With(s, m, x) /\ Len(h) = l
           /\ \A i \in 1 .. l : h[i] = IF i <= m THEN s[i] ELSE IF i = m + 1 THEN x ELSE s[i - 1]
    <2>1. s \in Seq(Values) /\ Len(s) = n /\ m <= n
      BY <1>2, <1>3
    <2>2. IsWith(With(s, m, x), s, n, m, x)
      BY ONLY n \in Nat, m \in Nat, x \in Values, <2>1, WithIs, Zenon
    <2>3. PICK h : h = With(s, m, x) /\ IsWith(h, s, n, m, x)
      BY <2>2
    <2>4. QED
      BY <1>4, <2>3 DEF IsWith
  <1>8. t = h
    <2>1. Len(t) = Len(h) /\ \A i \in 1 .. Len(t) : t[i] = h[i]
      BY <1>5, <1>6, <1>7
    <2>2. QED
      BY ONLY t \in Seq(Values), h \in Seq(Values), <2>1, SeqEqual
  <1>9. QED
    BY <1>2, <1>5, <1>7, <1>8

(* Elements taken out are a removal from the list.                         *)
LEMMA RemovedContents ==
  ASSUME NEW a, IsArray(a), NEW k \in Nat, NEW u \in Nat, k + u <= D!size(a),
         NEW b, Makes(b, D!size(a) - u, Removed(a, k, u)), NEW s, s = D!Contents(a)
  PROVE  D!Contents(b) = Without(s, k, u)
  <1>1. PICK n \in Nat : n = D!size(a) /\ k + u <= n
    BY SizeIs
  <1>2. s \in Seq(Values) /\ Len(s) = n /\ \A i \in 1 .. n : s[i] = Elem(a, i - 1)
    BY <1>1, ContentsIs
  <1>3. PICK l \in Nat : l = n - u
    BY <1>1
  <1>4. PICK t \in Seq(Values) : /\ t = D!Contents(b) /\ Len(t) = l
                                 /\ \A i \in 1 .. l : t[i] = Removed(a, k, u)[i - 1]
    BY <1>1, <1>3, MakesContents
  <1>5. ASSUME NEW i \in 1 .. l
        PROVE  t[i] = IF i <= k THEN s[i] ELSE s[i + u]
    <2>1. PICK j \in 0 .. n - u - 1 : j = i - 1 /\ (j < k <=> i <= k)
      BY <1>3
    <2>2. t[i] = IF j < k THEN Elem(a, j) ELSE Elem(a, j + u)
      BY <1>1, <1>4, <2>1 DEF Removed
    <2>3. i <= k => i \in 1 .. n /\ s[i] = Elem(a, j)
      BY <1>1, <1>2, <2>1
    <2>4. i + u \in 1 .. n /\ s[i + u] = Elem(a, j + u)
      <3>1. i + u \in 1 .. n /\ i + u - 1 = j + u
        BY <1>3, <2>1
      <3>2. QED
        BY <1>2, <3>1
    <2>5. QED
      BY <2>1, <2>2, <2>3, <2>4
  <1>6. PICK h \in Seq(Values) :
           /\ h = Without(s, k, u) /\ Len(h) = l
           /\ \A i \in 1 .. l : h[i] = IF i <= k THEN s[i] ELSE s[i + u]
    <2>1. s \in Seq(Values) /\ Len(s) = n /\ k + u <= n
      BY <1>1, <1>2
    <2>2. IsWithout(Without(s, k, u), s, n, k, u)
      BY ONLY n \in Nat, k \in Nat, u \in Nat, <2>1, WithoutIs, Zenon
    <2>3. PICK h : h = Without(s, k, u) /\ IsWithout(h, s, n, k, u)
      BY <2>2
    <2>4. QED
      BY <1>3, <2>3 DEF IsWithout
  <1>7. t = h
    <2>1. Len(t) = Len(h) /\ \A i \in 1 .. Len(t) : t[i] = h[i]
      BY <1>4, <1>5, <1>6
    <2>2. QED
      BY ONLY t \in Seq(Values), h \in Seq(Values), <2>1, SeqEqual
  <1>8. QED
    BY <1>4, <1>6, <1>7

(* An element moved is one taken out and put in again.                     *)
LEMMA MovedContents ==
  ASSUME NEW a, IsArray(a), NEW k \in 0 .. D!size(a) - 1, NEW u \in 0 .. D!size(a) - 1,
         NEW b, Makes(b, D!size(a), Moved(a, k, u)), NEW s, s = D!Contents(a)
  PROVE  D!Contents(b) = With(Without(s, k, 1), u, s[k + 1])
  <1>1. PICK n \in Nat : n = D!size(a) /\ k \in 0 .. n - 1 /\ u \in 0 .. n - 1
    BY SizeIs
  <1>2. s \in Seq(Values) /\ Len(s) = n /\ \A i \in 1 .. n : s[i] = Elem(a, i - 1)
    BY <1>1, ContentsIs
  <1>3. PICK l \in Nat : l = n - 1
    BY <1>1
  <1>4. PICK t \in Seq(Values) : /\ t = D!Contents(b) /\ Len(t) = n
                                 /\ \A i \in 1 .. n : t[i] = Moved(a, k, u)[i - 1]
    BY <1>1, MakesContents
  <1>5. PICK x \in Values : x = s[k + 1] /\ x = Elem(a, k)
    <2>1. k + 1 \in 1 .. n /\ k + 1 - 1 = k
      BY <1>1
    <2>2. s[k + 1] \in Values
      BY <1>2, <2>1, ElementOfSeq
    <2>3. QED
      BY <1>2, <2>1, <2>2
  <1>6. ASSUME NEW i \in 1 .. n
        PROVE  t[i] = IF i = u + 1 THEN x
                      ELSE IF k + 1 <= i /\ i < u + 1 THEN s[i + 1]
                      ELSE IF u + 1 < i /\ i <= k + 1 THEN s[i - 1]
                      ELSE s[i]
    <2>1. PICK j \in 0 .. n - 1 : /\ j = i - 1 /\ (j = u <=> i = u + 1) /\ j + 1 = i
                                  /\ (k <= j <=> k + 1 <= i) /\ (j < u <=> i < u + 1)
                                  /\ (u < j <=> u + 1 < i) /\ (j <= k <=> i <= k + 1)
      BY <1>1
    <2>2. t[i] = IF j = u THEN Elem(a, k)
                 ELSE IF k <= j /\ j < u THEN Elem(a, j + 1)
                 ELSE IF u < j /\ j <= k THEN Elem(a, j - 1)
                 ELSE Elem(a, j)
      BY <1>1, <1>4, <2>1 DEF Moved
    <2>3. s[i] = Elem(a, j)
      BY <1>2, <2>1
    <2>4. i < u + 1 => s[i + 1] = Elem(a, j + 1)
      <3>1. i < u + 1 => i + 1 \in 1 .. n /\ i + 1 - 1 = j + 1
        BY <1>1, <2>1
      <3>2. QED
        BY <1>2, <3>1
    <2>5. u + 1 < i => s[i - 1] = Elem(a, j - 1)
      <3>1. u + 1 < i => i - 1 \in 1 .. n /\ i - 1 - 1 = j - 1
        BY <1>1, <2>1
      <3>2. QED
        BY <1>2, <3>1
    <2>6. QED
      BY <1>5, <2>1, <2>2, <2>3, <2>4, <2>5
  <1>7. PICK v \in Seq(Values) :
           /\ v = Without(s, k, 1) /\ Len(v) = l
           /\ \A i \in 1 .. l : v[i] = IF i <= k THEN s[i] ELSE s[i + 1]
    <2>1. s \in Seq(Values) /\ Len(s) = n /\ k \in Nat /\ 1 \in Nat /\ k + 1 <= n
      BY <1>1, <1>2
    <2>2. IsWithout(Without(s, k, 1), s, n, k, 1)
      BY ONLY n \in Nat, <2>1, WithoutIs, Zenon
    <2>3. PICK v : v = Without(s, k, 1) /\ IsWithout(v, s, n, k, 1)
      BY <2>2
    <2>4. QED
      BY <1>3, <2>3 DEF IsWithout
  <1>8. PICK h \in Seq(Values) :
           /\ h = With(v, u, x) /\ Len(h) = n
           /\ \A i \in 1 .. n : h[i] = IF i <= u THEN v[i] ELSE IF i = u + 1 THEN x ELSE v[i - 1]
    <2>1. v \in Seq(Values) /\ Len(v) = l /\ u \in Nat /\ u <= l
      BY <1>1, <1>3, <1>7
    <2>2. IsWith(With(v, u, x), v, l, u, x)
      BY ONLY l \in Nat, x \in Values, <2>1, WithIs, Zenon
    <2>3. PICK h : h = With(v, u, x) /\ IsWith(h, v, l, u, x)
      BY <2>2
    <2>4. l + 1 = n
      BY <1>3
    <2>5. QED
      BY <2>3, <2>4 DEF IsWith
  <1>9. ASSUME NEW i \in 1 .. n
        PROVE  t[i] = h[i]
    <2>1. CASE i <= u
      <3>1. i \in 1 .. l /\ (i <= k <=> ~(k + 1 <= i)) /\ i < u + 1 /\ i # u + 1 /\ ~(u + 1 < i)
        BY <1>1, <1>3, <2>1
      <3>2. h[i] = IF i <= k THEN s[i] ELSE s[i + 1]
        BY <1>7, <1>8, <2>1, <3>1
      <3>3. QED
        BY <1>6, <3>1, <3>2
    <2>2. CASE i = u + 1
      BY <1>1, <1>6, <1>8, <2>2
    <2>3. CASE i > u + 1
      <3>1. PICK j \in 1 .. l : j = i - 1 /\ j + 1 = i /\ (j <= k <=> i <= k + 1)
        BY <1>1, <1>3, <2>3
      <3>2. ~(i <= u) /\ i # u + 1 /\ ~(i < u + 1) /\ u + 1 < i
        BY <1>1, <2>3
      <3>3. h[i] = v[j]
        BY <1>8, <3>1, <3>2
      <3>4. v[j] = IF i <= k + 1 THEN s[i - 1] ELSE s[i]
        BY <1>7, <3>1
      <3>5. QED
        BY <1>6, <3>2, <3>3, <3>4
    <2>4. QED
      BY <1>1, <2>1, <2>2, <2>3
  <1>10. t = h
    <2>1. Len(t) = Len(h) /\ \A i \in 1 .. Len(t) : t[i] = h[i]
      BY <1>4, <1>8, <1>9
    <2>2. QED
      BY ONLY t \in Seq(Values), h \in Seq(Values), <2>1, SeqEqual
  <1>11. QED
    BY <1>4, <1>5, <1>7, <1>8, <1>10

(* Elements put behind are a concatenation.                                *)
LEMMA ExtendedContents ==
  ASSUME NEW a, IsArray(a), NEW xs \in Seq(Values),
         NEW b, Makes(b, D!size(a) + Len(xs), Extended(a, xs))
  PROVE  D!Contents(b) = D!Contents(a) \o xs
  <1>1. PICK n \in Nat : n = D!size(a)
    BY SizeIs
  <1>2. PICK m \in Nat : m = Len(xs)
    OBVIOUS
  <1>3. PICK s \in Seq(Values) : s = D!Contents(a) /\ Len(s) = n /\ \A i \in 1 .. n : s[i] = Elem(a, i - 1)
    BY <1>1, ContentsIs
  <1>4. PICK l \in Nat : l = n + m
    OBVIOUS
  <1>5. PICK t \in Seq(Values) : /\ t = D!Contents(b) /\ Len(t) = l
                                 /\ \A i \in 1 .. l : t[i] = Extended(a, xs)[i - 1]
    BY <1>1, <1>2, <1>4, MakesContents
  <1>6. IsCat(Cat(s, xs), s, xs, n, m)
    <2>1. Len(s) = n
      BY <1>3
    <2>2. Len(xs) = m
      BY <1>2
    <2>3. QED
      BY ONLY n \in Nat, m \in Nat, s \in Seq(Values), xs \in Seq(Values), <2>1, <2>2, CatIs, Zenon
  <1>7. PICK h \in Seq(Values) : /\ h = Cat(s, xs) /\ Len(h) = n + m
                                 /\ \A i \in 1 .. n : h[i] = s[i]
                                 /\ \A i \in 1 .. m : h[n + i] = xs[i]
    <2>1. PICK h : h = Cat(s, xs) /\ IsCat(h, s, xs, n, m)
      BY <1>6
    <2>2. QED
      BY <2>1 DEF IsCat
  <1>8. ASSUME NEW i \in 1 .. l
        PROVE  t[i] = h[i]
    <2>1. PICK j \in 0 .. n + m - 1 : j = i - 1 /\ (j < n <=> i <= n) /\ j - n + 1 = i - n
      BY <1>4
    <2>2. t[i] = IF j < n THEN Elem(a, j) ELSE xs[j - n + 1]
      BY <1>1, <1>2, <1>5, <2>1 DEF Extended
    <2>3. CASE i <= n
      <3>1. i \in 1 .. n
        BY <2>3
      <3>2. QED
        BY <1>3, <1>7, <2>1, <2>2, <2>3, <3>1
    <2>4. CASE ~(i <= n)
      <3>1. PICK k \in 1 .. m : k = i - n /\ n + k = i
        BY <1>4, <2>4
      <3>2. QED
        BY <1>7, <2>1, <2>2, <2>4, <3>1
    <2>5. QED
      BY <2>3, <2>4
  <1>9. t = h
    BY ONLY t \in Seq(Values), <1>4, <1>5, <1>7, <1>8, SameList
  <1>10. QED
    BY <1>3, <1>5, <1>7, <1>9 DEF Cat

-----------------------------------------------------------------------------
(* What each operation does to the list that an array stands for           *)

(* append is an insertion at the end, ...                                  *)
LEMMA appendIs ==
  ASSUME NEW a, Fitting(a), NEW x \in Values
  PROVE  /\ IsArray(D!append(a, x))
         /\ D!Contents(D!append(a, x)) = With(D!Contents(a), D!size(a), x)
  <1>1. IsArray(a)
    BY DEF Fitting
  <1>2. PICK b : b = D!append(a, x)
    OBVIOUS
  <1>3. Makes(b, D!size(a) + 1, Inserted(a, D!size(a), x))
    BY <1>2, appendMakes
  <1>4. D!size(a) \in 0 .. D!size(a)
    BY <1>1, SizeIs
  <1>5. D!Contents(b) = With(D!Contents(a), D!size(a), x)
    BY <1>1, <1>3, <1>4, InsertedContents
  <1>6. QED
    BY <1>2, <1>3, <1>5 DEF Makes

(* ... insert one at its index, ...                                        *)
LEMMA insertIs ==
  ASSUME NEW a, Fitting(a), NEW k \in 0 .. D!size(a), NEW x \in Values
  PROVE  /\ IsArray(D!insert(a, k, x))
         /\ D!Contents(D!insert(a, k, x)) = With(D!Contents(a), k, x)
  <1>1. IsArray(a)
    BY DEF Fitting
  <1>2. PICK b : b = D!insert(a, k, x)
    OBVIOUS
  <1>3. Makes(b, D!size(a) + 1, Inserted(a, k, x))
    BY <1>2, insertMakes
  <1>4. D!Contents(b) = With(D!Contents(a), k, x)
    BY <1>1, <1>3, InsertedContents
  <1>5. QED
    BY <1>2, <1>3, <1>4 DEF Makes

(* ... append of a list a concatenation, ...                               *)
LEMMA appendListIs ==
  ASSUME NEW a, Fitting(a), NEW xs \in Seq(Values), Len(xs) <= MaxAlloc
  PROVE  /\ IsArray(D!appendList(a, xs))
         /\ D!Contents(D!appendList(a, xs)) = D!Contents(a) \o xs
  <1>1. IsArray(a)
    BY DEF Fitting
  <1>2. PICK b : b = D!appendList(a, xs)
    OBVIOUS
  <1>3. Makes(b, D!size(a) + Len(xs), Extended(a, xs))
    BY <1>2, appendListMakes
  <1>4. D!Contents(b) = D!Contents(a) \o xs
    BY <1>1, <1>3, ExtendedContents
  <1>5. QED
    BY <1>2, <1>3, <1>4 DEF Makes

(* ... remove a removal of one ...                                         *)
LEMMA removeOneIs ==
  ASSUME NEW a, IsArray(a), NEW k \in 0 .. D!size(a) - 1
  PROVE  /\ IsArray(D!removeOne(a, k))
         /\ D!Contents(D!removeOne(a, k)) = Without(D!Contents(a), k, 1)
  <1>1. PICK b : b = D!removeOne(a, k)
    OBVIOUS
  <1>2. Makes(b, D!size(a) - 1, Removed(a, k, 1))
    BY <1>1, removeOneMakes
  <1>3. k \in Nat /\ 1 \in Nat /\ k + 1 <= D!size(a)
    BY SizeIs
  <1>4. D!Contents(b) = Without(D!Contents(a), k, 1)
    BY <1>2, <1>3, RemovedContents
  <1>5. QED
    BY <1>1, <1>2, <1>4 DEF Makes

(* ... or of several, ...                                                  *)
LEMMA removeManyIs ==
  ASSUME NEW a, IsArray(a), NEW k \in Nat, NEW u \in Nat, k + u <= D!size(a)
  PROVE  /\ IsArray(D!removeMany(a, k, u))
         /\ D!Contents(D!removeMany(a, k, u)) = Without(D!Contents(a), k, u)
  <1>1. PICK b : b = D!removeMany(a, k, u)
    OBVIOUS
  <1>2. Makes(b, D!size(a) - u, Removed(a, k, u))
    BY <1>1, removeManyMakes
  <1>3. D!Contents(b) = Without(D!Contents(a), k, u)
    BY <1>2, RemovedContents
  <1>4. QED
    BY <1>1, <1>2, <1>3 DEF Makes

(* ... and move a removal and an insertion.                                *)
LEMMA moveIs ==
  ASSUME NEW a, IsArray(a), NEW k \in 0 .. D!size(a) - 1, NEW u \in 0 .. D!size(a) - 1
  PROVE  /\ IsArray(D!move(a, k, u))
         /\ D!Contents(D!move(a, k, u)) = With(Without(D!Contents(a), k, 1), u, D!Contents(a)[k + 1])
  <1>1. PICK b : b = D!move(a, k, u)
    OBVIOUS
  <1>2. Makes(b, D!size(a), Moved(a, k, u))
    BY <1>1, moveMakes
  <1>3. D!Contents(b) = With(Without(D!Contents(a), k, 1), u, D!Contents(a)[k + 1])
    BY <1>2, MovedContents
  <1>4. QED
    BY <1>1, <1>2, <1>3 DEF Makes

(* detach2 makes the same list in another array that fits.                 *)
LEMMA detach2Is ==
  ASSUME NEW a, Fitting(a)
  PROVE  /\ Fitting(D!detach2(a)) /\ D!size(D!detach2(a)) = D!size(a)
         /\ D!Contents(D!detach2(a)) = D!Contents(a)
  <1>1. IsArray(a) /\ a.alloc \in Nat /\ a.alloc >= a.alloc /\ a.alloc <= MaxAlloc
    BY DEF Fitting, IsArray
  <1>2. PICK b : b = D!detach2(a) /\ b = D!realloc(a, a.alloc)
    <2>1. PICK b : b = D!detach2(a)
      OBVIOUS
    <2>2. b = D!realloc(a, a.alloc)
      BY <2>1, Zenon DEF D!detach2
    <2>3. QED
      BY <2>1, <2>2
  <1>3. b.alloc = a.alloc /\ Makes(b, D!size(a), Elems(a))
    BY <1>1, <1>2, ReallocMakes
  <1>4. D!Contents(b) = D!Contents(a)
    BY <1>1, <1>3, SameContents
  <1>5. QED
    BY <1>1, <1>2, <1>3, <1>4 DEF Makes, Fitting

(* The shared empty block is an empty list.                                *)
LEMMA sharedNullIs ==
  Fitting(D!sharedNull) /\ D!size(D!sharedNull) = 0 /\ D!Contents(D!sharedNull) = <<>>
  <1>1. PICK a : a = D!sharedNull
    OBVIOUS
  <1>2. a.alloc = 0 /\ a.begin = 0 /\ a.end = 0
    BY <1>1 DEF D!sharedNull, D!Data
  <1>3. MaxAlloc \in Nat
    BY SizeAssumption
  <1>4. Fitting(a) /\ D!size(a) = 0
    BY <1>2, <1>3 DEF Fitting, IsArray, D!size
  <1>5. D!Contents(a) \in Seq(Values) /\ Len(D!Contents(a)) = 0
    BY <1>4, ContentsIs DEF Fitting
  <1>6. QED
    BY <1>1, <1>4, <1>5, EmptySeq

(* Removing nothing changes nothing.                                       *)
LEMMA NothingRemoved ==
  ASSUME NEW s \in Seq(Values), NEW k \in Nat, k <= Len(s)
  PROVE  Without(s, k, 0) = s
  <1>1. PICK n \in Nat : n = Len(s)
    BY LenProperties
  <1>2. 0 \in Nat /\ Len(s) = n /\ k + 0 <= n
    BY <1>1
  <1>3. IsWithout(Without(s, k, 0), s, n, k, 0)
    BY ONLY s \in Seq(Values), n \in Nat, k \in Nat, <1>2, WithoutIs, Zenon
  <1>4. PICK h : h = Without(s, k, 0) /\ IsWithout(h, s, n, k, 0)
    BY <1>3
  <1>5. h \in Seq(Values) /\ Len(h) = n
    BY <1>1, <1>4 DEF IsWithout
  <1>6. \A i \in 1 .. n : h[i] = s[i]
    BY <1>4 DEF IsWithout
  <1>7. h = s
    <2>1. Len(h) = Len(s) /\ \A i \in 1 .. Len(h) : h[i] = s[i]
      BY <1>1, <1>5, <1>6
    <2>2. h \in Seq(Values)
      BY <1>5
    <2>3. QED
      BY ONLY s \in Seq(Values), <2>1, <2>2, SeqEqual
  <1>8. QED
    BY <1>4, <1>7

-----------------------------------------------------------------------------
(* Handles and blocks                                                      *)

AllBlocks == Blocks \cup {SharedNull}
Ends      == {Idle, Write}

QListTypeOK ==
  /\ d \in [Handles -> AllBlocks \cup {NULL}]
  /\ ref \in [AllBlocks -> Nat]
  /\ busy \in [Handles -> {Idle, Copy, Write} \cup {Drop(b, then) : b \in AllBlocks, then \in Ends}]
  /\ SharedNull \in DOMAIN data /\ DOMAIN data \subseteq AllBlocks

(* Who is in the middle of something has a block.                          *)
BusyIsLive == \A h \in Handles : busy[h] # Idle => Live(h)

(* Who writes, or will once it has let the shared block go, ...            *)
Writes(h) == busy[h] = Write \/ \E b \in AllBlocks : busy[h] = Drop(b, Write)

(* ... has its block for itself.                                           *)
Exclusive(h) ==
  /\ d[h] \in Blocks
  /\ \A g \in Handles : g # h => d[g] # d[h]
  /\ \A g \in Handles, then \in Ends : busy[g] # Drop(d[h], then)

WritersAlone == \A h \in Handles : Writes(h) => Exclusive(h)

QListInv == QListTypeOK /\ BusyIsLive /\ CountsExact /\ WritersAlone

-----------------------------------------------------------------------------
(* Blocks are numbers, apart from the shared one and from NULL.            *)
LEMMA BlockNames ==
  /\ Cardinality(Handles) \in Nat
  /\ Blocks \subseteq Nat \ {0} /\ SharedNull \notin Blocks /\ NULL \notin AllBlocks
  BY ListAssumption, FS_CardinalityType DEF Blocks, SharedNull, AllBlocks

(* What a handle is in the middle of                                       *)
LEMMA Doing ==
  /\ Idle.pc = "idle" /\ Copy.pc = "copy" /\ Write.pc = "write"
  /\ \A b, then : /\ Drop(b, then).pc = "drop" /\ Drop(b, then).old = b
                  /\ Drop(b, then).then = then
  /\ Idle # Copy /\ Idle # Write /\ Copy # Write
  /\ \A b, then : Drop(b, then) \notin {Idle, Copy, Write}
  <1>1. /\ Idle.pc = "idle" /\ Copy.pc = "copy" /\ Write.pc = "write"
        /\ \A b, then : /\ Drop(b, then).pc = "drop" /\ Drop(b, then).old = b
                        /\ Drop(b, then).then = then
    BY DEF Idle, Copy, Write, Drop
  <1>2. \A b, then : Drop(b, then) \notin {Idle, Copy, Write}
    BY <1>1
  <1>3. QED
    BY <1>1, <1>2

(* Which block is let go, and what comes then, is part of the state.       *)
LEMMA DropEqual ==
  ASSUME NEW b, NEW then, NEW c, NEW after, Drop(b, then) = Drop(c, after)
  PROVE  b = c /\ then = after
  BY Doing

(* What a thread is at, as one of the states                               *)
LEMMA AtIs ==
  ASSUME QListTypeOK, NEW h \in Handles
  PROVE  /\ At(h, "copy") <=> busy[h] = Copy
         /\ At(h, "write") <=> busy[h] = Write
         /\ At(h, "drop") <=> \E b \in AllBlocks, then \in Ends : busy[h] = Drop(b, then)
  <1>1. busy[h] \in {Idle, Copy, Write} \cup {Drop(b, then) : b \in AllBlocks, then \in Ends}
    BY DEF QListTypeOK
  <1>2. QED
    BY <1>1, Doing DEF At

(* Who lets a block go, by the states                                      *)
LEMMA LettingGoIs ==
  ASSUME QListTypeOK, NEW b \in AllBlocks
  PROVE  LettingGo(b) = {h \in Handles : \E then \in Ends : busy[h] = Drop(b, then)}
  <1>1. ASSUME NEW h \in Handles
        PROVE  At(h, "drop") /\ busy[h].old = b <=> \E then \in Ends : busy[h] = Drop(b, then)
    BY AtIs, Doing
  <1>2. QED
    BY <1>1 DEF LettingGo

(* A block has a finite number of holders.                                 *)
LEMMA HoldersFinite ==
  ASSUME NEW b
  PROVE  /\ IsFiniteSet(Owners(b)) /\ Cardinality(Owners(b)) \in Nat
         /\ IsFiniteSet(LettingGo(b)) /\ Cardinality(LettingGo(b)) \in Nat
         /\ Holders(b) \in Nat
         /\ Holders(b) = 0 <=> Owners(b) = {} /\ LettingGo(b) = {}
  <1>1. Owners(b) \in SUBSET Handles /\ LettingGo(b) \in SUBSET Handles
    BY DEF Owners, LettingGo
  <1>2. IsFiniteSet(Owners(b)) /\ IsFiniteSet(LettingGo(b))
    BY <1>1, ListAssumption, FS_Subset
  <1>3. Cardinality(Owners(b)) \in Nat /\ Cardinality(LettingGo(b)) \in Nat
    BY <1>2, FS_CardinalityType
  <1>4. /\ Cardinality(Owners(b)) = 0 <=> Owners(b) = {}
        /\ Cardinality(LettingGo(b)) = 0 <=> LettingGo(b) = {}
    BY <1>2, FS_EmptySet
  <1>5. QED
    BY <1>2, <1>3, <1>4 DEF Holders

(* Before the first step                                                   *)
LEMMA InitEstablishesQListInv == Init => QListInv
  <1> SUFFICES ASSUME Init PROVE QListInv
    OBVIOUS
  <1> USE DEF Init
  <1>1. QListTypeOK
    BY DEF QListTypeOK, AllBlocks
  <1>2. BusyIsLive
    BY DEF BusyIsLive
  <1>3. WritersAlone
    BY Doing DEF WritersAlone, Writes
  <1>4. \A b \in AllBlocks : Owners(b) = {} /\ LettingGo(b) = {}
    BY BlockNames, Doing DEF Owners, LettingGo, At
  <1>5. \A b \in AllBlocks : Holders(b) = 0
    BY <1>4, HoldersFinite
  <1>6. CountsExact
    <2>1. \A b \in Blocks : ref[b] = 0 /\ b \notin DOMAIN data
      BY BlockNames
    <2>2. ref[SharedNull] = 1 /\ data[SharedNull] = D!sharedNull
      OBVIOUS
    <2>3. QED
      BY <1>5, <2>1, <2>2 DEF CountsExact, AllBlocks
  <1>7. QED
    BY <1>1, <1>2, <1>3, <1>6 DEF QListInv

-----------------------------------------------------------------------------
(* How the counts of holders move with d and busy                          *)

States == {Idle, Copy, Write} \cup {Drop(b, then) : b \in AllBlocks, then \in Ends}

Dropping(s, b) == \E then \in Ends : s = Drop(b, then)

One(p) == IF p THEN 1 ELSE 0

(* A set that differs in one element counts one more, one less or as many. *)
LEMMA CardinalityWith ==
  ASSUME NEW S, NEW U, NEW h, IsFiniteSet(S), U \ {h} = S \ {h}
  PROVE  Cardinality(U) = Cardinality(S) + One(h \in U) - One(h \in S)
  <1>1. /\ IsFiniteSet(S \ {h}) /\ Cardinality(S) \in Nat
        /\ Cardinality(S \ {h}) = IF h \in S THEN Cardinality(S) - 1 ELSE Cardinality(S)
    BY FS_RemoveElement, FS_CardinalityType
  <1>2. CASE h \in U
    <2>1. U = (S \ {h}) \cup {h}
      BY <1>2
    <2>2. Cardinality(U) = Cardinality(S \ {h}) + 1
      BY <1>1, <2>1, FS_AddElement
    <2>3. QED
      BY <1>1, <1>2, <2>2 DEF One
  <1>3. CASE h \notin U
    <2>1. U = S \ {h}
      BY <1>3
    <2>2. QED
      BY <1>1, <1>3, <2>1 DEF One
  <1>4. QED
    BY <1>2, <1>3

(* A handle that gets another block moves the counts of owners ...         *)
LEMMA OwnersMove ==
  ASSUME QListTypeOK, NEW h \in Handles, NEW y \in AllBlocks \cup {NULL},
         d' = [d EXCEPT ![h] = y], NEW b \in AllBlocks
  PROVE  Cardinality(Owners(b)') = Cardinality(Owners(b)) + One(y = b) - One(d[h] = b)
  <1>1. d'[h] = y /\ \A g \in Handles : g # h => d'[g] = d[g]
    BY DEF QListTypeOK
  <1>2. /\ Owners(b)' \ {h} = Owners(b) \ {h}
        /\ h \in Owners(b)' <=> y = b
        /\ h \in Owners(b) <=> d[h] = b
    BY <1>1 DEF Owners
  <1>3. Cardinality(Owners(b)') = Cardinality(Owners(b)) + One(h \in Owners(b)') - One(h \in Owners(b))
    BY <1>2, HoldersFinite, CardinalityWith
  <1>4. QED
    BY <1>2, <1>3 DEF One

(* ... and only that does.                                                 *)
LEMMA OwnersStay ==
  ASSUME d' = d, NEW b
  PROVE  Cardinality(Owners(b)') = Cardinality(Owners(b))
  BY DEF Owners

(* A thread that goes on moves the counts of those who let a block go ...  *)
LEMMA LettingGoMoves ==
  ASSUME QListTypeOK, NEW h \in Handles, NEW s \in States,
         busy' = [busy EXCEPT ![h] = s], NEW b \in AllBlocks
  PROVE  Cardinality(LettingGo(b)') =
           Cardinality(LettingGo(b)) + One(Dropping(s, b)) - One(Dropping(busy[h], b))
  <1>1. busy'[h] = s /\ \A g \in Handles : g # h => busy'[g] = busy[g]
    BY DEF QListTypeOK
  <1>2. s \in {Idle, Copy, Write} \/ \E c \in AllBlocks, then \in Ends : s = Drop(c, then)
    BY DEF States
  <1>3. s.pc = "drop" /\ s.old = b <=> Dropping(s, b)
    BY <1>2, Doing DEF Dropping
  <1>4. At(h, "drop") /\ busy[h].old = b <=> Dropping(busy[h], b)
    BY LettingGoIs DEF LettingGo, Dropping
  <1>5. /\ LettingGo(b)' \ {h} = LettingGo(b) \ {h}
        /\ h \in LettingGo(b)' <=> Dropping(s, b)
        /\ h \in LettingGo(b) <=> Dropping(busy[h], b)
    BY <1>1, <1>3, <1>4 DEF LettingGo, At
  <1>6. Cardinality(LettingGo(b)') =
          Cardinality(LettingGo(b)) + One(h \in LettingGo(b)') - One(h \in LettingGo(b))
    BY <1>5, HoldersFinite, CardinalityWith
  <1>7. QED
    BY <1>5, <1>6 DEF One

(* ... and only that does.                                                 *)
LEMMA LettingGoStays ==
  ASSUME busy' = busy, NEW b
  PROVE  Cardinality(LettingGo(b)') = Cardinality(LettingGo(b))
  BY DEF LettingGo, At

(* Who is not at drop lets nothing go.                                     *)
LEMMA IdleDropsNothing ==
  ASSUME NEW s \in {Idle, Copy, Write}, NEW b
  PROVE  ~Dropping(s, b)
  BY Doing DEF Dropping

(* Who is at drop lets one block go.                                       *)
LEMMA DropsOne ==
  ASSUME NEW c, NEW then \in Ends, NEW b
  PROVE  Dropping(Drop(c, then), b) <=> b = c
  BY DropEqual DEF Dropping

(* CountsExact, if every count moves with the number of holders.           *)
LEMMA CountsMove ==
  ASSUME CountsExact, QListTypeOK, QListTypeOK',
         \A b \in AllBlocks : ref'[b] - ref[b] = Holders(b)' - Holders(b),
         \A b \in Blocks : b \in DOMAIN data' <=> ref'[b] > 0,
         data'[SharedNull] = data[SharedNull]
  PROVE  CountsExact'
  <1>1. \A b \in AllBlocks : Holders(b) \in Nat /\ Holders(b)' \in Int
    <2>1. TAKE b \in AllBlocks
    <2>2. Holders(b) \in Nat
      BY HoldersFinite
    <2>3. Holders(b)' \in Nat
      <3>1. Owners(b)' \in SUBSET Handles /\ LettingGo(b)' \in SUBSET Handles
        BY DEF Owners, LettingGo
      <3>2. Cardinality(Owners(b)') \in Nat /\ Cardinality(LettingGo(b)') \in Nat
        BY <3>1, ListAssumption, FS_Subset, FS_CardinalityType
      <3>3. QED
        BY <3>2 DEF Holders
    <2>4. QED
      BY <2>2, <2>3
  <1>2. \A b \in AllBlocks : ref[b] \in Int /\ ref'[b] \in Int
    BY DEF QListTypeOK
  <1>3. ASSUME NEW b \in Blocks
        PROVE  ref'[b] = Holders(b)' /\ (b \in DOMAIN data' <=> ref'[b] > 0)
    <2>1. b \in AllBlocks
      BY DEF AllBlocks
    <2>2. ref[b] = Holders(b)
      BY DEF CountsExact
    <2>3. ref'[b] - ref[b] = Holders(b)' - Holders(b)
      BY <2>1
    <2>4. QED
      BY <1>1, <1>2, <2>1, <2>2, <2>3
  <1>4. ref'[SharedNull] = 1 + Holders(SharedNull)' /\ data'[SharedNull] = D!sharedNull
    <2>1. SharedNull \in AllBlocks
      BY DEF AllBlocks
    <2>2. ref[SharedNull] = 1 + Holders(SharedNull) /\ data[SharedNull] = D!sharedNull
      BY DEF CountsExact
    <2>3. ref'[SharedNull] - ref[SharedNull] = Holders(SharedNull)' - Holders(SharedNull)
      BY <2>1
    <2>4. QED
      BY <1>1, <1>2, <2>1, <2>2, <2>3
  <1>5. QED
    BY <1>3, <1>4 DEF CountsExact

-----------------------------------------------------------------------------
(* What every step shares: one handle h gets the block y and goes to s, and *)
(* the counts follow.                                                       *)

Moves(h, y, s) ==
  /\ d' = [d EXCEPT ![h] = y]
  /\ busy' = [busy EXCEPT ![h] = s]

(* The number of holders moves with the block and the state of h.          *)
LEMMA HoldersMove ==
  ASSUME QListTypeOK, NEW h \in Handles, NEW y \in AllBlocks \cup {NULL}, NEW s \in States,
         Moves(h, y, s), NEW b \in AllBlocks
  PROVE  Holders(b)' - Holders(b) =
           One(y = b) - One(d[h] = b) + One(Dropping(s, b)) - One(Dropping(busy[h], b))
  <1>1. Cardinality(Owners(b)') = Cardinality(Owners(b)) + One(y = b) - One(d[h] = b)
    <2>1. d' = [d EXCEPT ![h] = y]
      BY DEF Moves
    <2>2. QED
      BY <2>1, OwnersMove DEF One
  <1>2. Cardinality(LettingGo(b)') =
          Cardinality(LettingGo(b)) + One(Dropping(s, b)) - One(Dropping(busy[h], b))
    BY LettingGoMoves DEF Moves
  <1>3. Cardinality(Owners(b)) \in Nat /\ Cardinality(LettingGo(b)) \in Nat
    BY HoldersFinite
  <1>4. /\ One(y = b) \in Int /\ One(d[h] = b) \in Int
        /\ One(Dropping(s, b)) \in Int /\ One(Dropping(busy[h], b)) \in Int
    BY DEF One
  <1>5. Holders(b)' = Cardinality(Owners(b)') + Cardinality(LettingGo(b)')
    BY DEF Holders
  <1>6. Holders(b) = Cardinality(Owners(b)) + Cardinality(LettingGo(b))
    BY DEF Holders
  <1>7. QED
    BY <1>1, <1>2, <1>3, <1>4, <1>5, <1>6

(* The counts and the heap follow the move.                                *)
Follow(h, y, s) ==
  /\ ref' \in [AllBlocks -> Nat]
  /\ \A b \in AllBlocks :
       ref'[b] - ref[b] =
         One(y = b) - One(d[h] = b) + One(Dropping(s, b)) - One(Dropping(busy[h], b))
  /\ SharedNull \in DOMAIN data' /\ DOMAIN data' \subseteq AllBlocks
  /\ \A b \in Blocks : b \in DOMAIN data' <=> ref'[b] > 0
  /\ data'[SharedNull] = data[SharedNull]

(* The move disturbs no handle that writes, and if h will write, it is     *)
(* alone with its block.                                                   *)
DisturbsNoWriter(h, y, s) ==
  /\ \A g \in Handles : g # h /\ Writes(g) =>
       y # d[g] /\ \A then \in Ends : s # Drop(d[g], then)
  /\ s = Write \/ (\E b \in AllBlocks : s = Drop(b, Write)) =>
       /\ y \in Blocks
       /\ \A g \in Handles : g # h => d[g] # y
       /\ \A g \in Handles, then \in Ends : g # h => busy[g] # Drop(y, then)
       /\ \A then \in Ends : s # Drop(y, then)

(* A move that disturbs no writer leaves every writer alone.               *)
LEMMA MoveKeepsWritersAlone ==
  ASSUME QListTypeOK, WritersAlone, NEW h \in Handles, NEW y \in AllBlocks \cup {NULL},
         NEW s \in States, Moves(h, y, s), DisturbsNoWriter(h, y, s)
  PROVE  WritersAlone'
  <1> SUFFICES ASSUME NEW w \in Handles, Writes(w)'
               PROVE  Exclusive(w)'
    BY DEF WritersAlone
  <1>1. /\ d'[h] = y /\ busy'[h] = s
        /\ \A g \in Handles : g # h => d'[g] = d[g] /\ busy'[g] = busy[g]
    BY DEF QListTypeOK, Moves
  <1>2. CASE w = h
    <2>1. s = Write \/ \E b \in AllBlocks : s = Drop(b, Write)
      BY <1>1, <1>2 DEF Writes
    <2>2. QED
      BY <1>1, <1>2, <2>1 DEF DisturbsNoWriter, Exclusive
  <1>3. CASE w # h
    <2>1. Writes(w) /\ d'[w] = d[w]
      BY <1>1, <1>3 DEF Writes
    <2>2. Exclusive(w)
      BY <2>1 DEF WritersAlone
    <2>3. y # d[w] /\ \A then \in Ends : s # Drop(d[w], then)
      BY <1>3, <2>1 DEF DisturbsNoWriter
    <2>4. QED
      BY <1>1, <2>1, <2>2, <2>3 DEF Exclusive
  <1>4. QED
    BY <1>2, <1>3

(* A move whose counts follow keeps the invariant.                         *)
LEMMA MoveKeepsInv ==
  ASSUME QListInv, NEW h \in Handles, NEW y \in AllBlocks \cup {NULL}, NEW s \in States,
         Moves(h, y, s), Follow(h, y, s), DisturbsNoWriter(h, y, s),
         s # Idle => y # NULL
  PROVE  QListInv'
  <1> USE DEF QListInv
  <1>1. QListTypeOK'
    <2>1. d' \in [Handles -> AllBlocks \cup {NULL}]
      BY DEF QListTypeOK, Moves
    <2>2. busy' \in [Handles -> States]
      BY DEF QListTypeOK, Moves, States
    <2>3. QED
      BY <2>1, <2>2 DEF QListTypeOK, Follow, States
  <1>2. BusyIsLive'
    <2>1. /\ d'[h] = y /\ busy'[h] = s
          /\ \A g \in Handles : g # h => d'[g] = d[g] /\ busy'[g] = busy[g]
      BY DEF QListTypeOK, Moves
    <2>2. QED
      BY <2>1 DEF BusyIsLive, Live
  <1>3. CountsExact'
    <2>1. \A b \in AllBlocks : ref'[b] - ref[b] = Holders(b)' - Holders(b)
      BY HoldersMove DEF Follow
    <2>2. QED
      BY <1>1, <2>1, CountsMove DEF Follow
  <1>4. WritersAlone'
    BY MoveKeepsWritersAlone
  <1>5. QED
    BY <1>1, <1>2, <1>3, <1>4

-----------------------------------------------------------------------------
(* Counting up and down *)

(* A block that a handle or a thread refers to is counted and allocated.   *)
LEMMA Held ==
  ASSUME QListInv, NEW h \in Handles, NEW b \in AllBlocks, d[h] = b \/ Dropping(busy[h], b)
  PROVE  /\ Holders(b) > 0 /\ ref[b] > 0 /\ b \in DOMAIN data
         /\ b = SharedNull => ref[b] > 1
  <1>1. h \in Owners(b) \/ h \in LettingGo(b)
    BY LettingGoIs DEF Owners, Dropping, QListInv
  <1>2. Holders(b) \in Nat /\ Holders(b) > 0
    BY <1>1, HoldersFinite
  <1>3. CASE b \in Blocks
    BY <1>2, <1>3, BlockNames DEF QListInv, CountsExact
  <1>4. CASE b = SharedNull
    BY <1>2, <1>4 DEF QListInv, CountsExact, QListTypeOK
  <1>5. QED
    BY <1>2, <1>3, <1>4 DEF AllBlocks

(* retain counts one up, ...                                               *)
LEMMA Retains ==
  ASSUME QListInv, NEW c \in AllBlocks, c = SharedNull \/ ref[c] > 0, retain(c), data' = data
  PROVE  /\ ref' \in [AllBlocks -> Nat]
         /\ \A b \in AllBlocks : ref'[b] - ref[b] = One(c = b)
         /\ SharedNull \in DOMAIN data' /\ DOMAIN data' \subseteq AllBlocks
         /\ \A b \in Blocks : b \in DOMAIN data' <=> ref'[b] > 0
         /\ data'[SharedNull] = data[SharedNull]
  <1>1. ref \in [AllBlocks -> Nat]
    BY DEF QListInv, QListTypeOK
  <1>2. /\ ref'[c] = ref[c] + 1 /\ ref' \in [AllBlocks -> Nat]
        /\ \A b \in AllBlocks : b # c => ref'[b] = ref[b]
    BY <1>1 DEF retain
  <1>3. \A b \in AllBlocks : ref'[b] - ref[b] = One(c = b)
    BY <1>1, <1>2 DEF One
  <1>4. ASSUME NEW b \in Blocks
        PROVE  b \in DOMAIN data' <=> ref'[b] > 0
    <2>1. b \in AllBlocks /\ b # SharedNull
      BY BlockNames DEF AllBlocks
    <2>2. b \in DOMAIN data <=> ref[b] > 0
      BY DEF QListInv, CountsExact
    <2>3. QED
      BY <1>1, <1>2, <2>1, <2>2
  <1>5. QED
    BY <1>2, <1>3, <1>4 DEF QListInv, QListTypeOK

(* ... release one down, and frees the block with its last reference.      *)
LEMMA Releases ==
  ASSUME QListInv, NEW c \in AllBlocks, ref[c] > 0, c = SharedNull => ref[c] > 1, release(c)
  PROVE  /\ ref' \in [AllBlocks -> Nat]
         /\ \A b \in AllBlocks : ref'[b] - ref[b] = - One(c = b)
         /\ SharedNull \in DOMAIN data' /\ DOMAIN data' \subseteq AllBlocks
         /\ \A b \in Blocks : b \in DOMAIN data' <=> ref'[b] > 0
         /\ data'[SharedNull] = data[SharedNull]
  <1>1. ref \in [AllBlocks -> Nat]
    BY DEF QListInv, QListTypeOK
  <1>2. /\ ref'[c] = ref[c] - 1 /\ ref' \in [AllBlocks -> Nat]
        /\ \A b \in AllBlocks : b # c => ref'[b] = ref[b]
    BY <1>1 DEF release
  <1>3. \A b \in AllBlocks : ref'[b] - ref[b] = - One(c = b)
    BY <1>1, <1>2 DEF One
  <1>4. data' = IF ref[c] = 1 THEN Restrict(data, DOMAIN data \ {c}) ELSE data
    BY DEF release
  <1>5. /\ DOMAIN data' = IF ref[c] = 1 THEN DOMAIN data \ {c} ELSE DOMAIN data
        /\ \A b \in DOMAIN data' : data'[b] = data[b]
    BY <1>4 DEF Restrict
  <1>6. SharedNull \in DOMAIN data'
    BY <1>1, <1>5 DEF QListInv, QListTypeOK
  <1>7. ASSUME NEW b \in Blocks
        PROVE  b \in DOMAIN data' <=> ref'[b] > 0
    <2>1. b \in AllBlocks
      BY DEF AllBlocks
    <2>2. b \in DOMAIN data <=> ref[b] > 0
      BY DEF QListInv, CountsExact
    <2>3. ref[c] \in Nat
      BY <1>1
    <2>4. QED
      BY <1>1, <1>2, <1>5, <2>1, <2>2, <2>3
  <1>8. DOMAIN data' \subseteq AllBlocks
    BY <1>5 DEF QListInv, QListTypeOK
  <1>9. QED
    BY <1>2, <1>3, <1>5, <1>6, <1>7, <1>8

(* Nothing is counted.                                                     *)
LEMMA Steady ==
  ASSUME QListInv, ref' = ref, DOMAIN data' = DOMAIN data, data'[SharedNull] = data[SharedNull]
  PROVE  /\ ref' \in [AllBlocks -> Nat]
         /\ \A b \in AllBlocks : ref'[b] - ref[b] = 0
         /\ SharedNull \in DOMAIN data' /\ DOMAIN data' \subseteq AllBlocks
         /\ \A b \in Blocks : b \in DOMAIN data' <=> ref'[b] > 0
         /\ data'[SharedNull] = data[SharedNull]
  <1>1. ref \in [AllBlocks -> Nat] /\ SharedNull \in DOMAIN data /\ DOMAIN data \subseteq AllBlocks
    BY DEF QListInv, QListTypeOK
  <1>2. \A b \in AllBlocks : ref[b] - ref[b] = 0
    BY <1>1
  <1>3. QED
    BY <1>1, <1>2 DEF QListInv, CountsExact

(* A handle that nothing else happens to                                   *)
LEMMA Same ==
  ASSUME QListTypeOK, NEW h \in Handles
  PROVE  /\ d[h] \in AllBlocks \cup {NULL} /\ busy[h] \in States
         /\ d = [d EXCEPT ![h] = d[h]] /\ busy = [busy EXCEPT ![h] = busy[h]]
  BY DEF QListTypeOK, States

-----------------------------------------------------------------------------
(* The steps *)

(* A writer has a block, and not the shared empty one.                     *)
LEMMA WriterHas ==
  ASSUME QListInv, NEW g \in Handles, Writes(g)
  PROVE  d[g] \in Blocks /\ d[g] # SharedNull /\ d[g] # NULL
  BY BlockNames DEF QListInv, WritersAlone, Exclusive, AllBlocks

(* Of the idle state                                                       *)
LEMMA IdleIs ==
  /\ Idle \in States
  /\ \A b : ~Dropping(Idle, b)
  /\ \A c, then : Idle # Drop(c, then)
  /\ Idle # Write /\ Idle # Copy
  BY Doing DEF Dropping, States

(* Each step keeps the invariant: a new variable, ...                      *)
LEMMA opCallKeeps ==
  ASSUME QListInv, NEW h \in Handles, opCall(h)
  PROVE  QListInv'
  <1>1. d[h] = NULL /\ busy[h] = Idle
    BY DEF opCall, Live, QListInv, BusyIsLive
  <1>2. SharedNull \in AllBlocks \cup {NULL} /\ Idle \in States
    BY IdleIs DEF AllBlocks
  <1>3. Moves(h, SharedNull, Idle)
    BY <1>1, Same DEF opCall, Moves, QListInv
  <1>4. Follow(h, SharedNull, Idle)
    <2>1. \A b \in AllBlocks : d[h] # b /\ ~Dropping(Idle, b) /\ ~Dropping(busy[h], b)
      BY <1>1, BlockNames, IdleIs
    <2>2. SharedNull \in AllBlocks /\ retain(SharedNull) /\ data' = data
      BY DEF opCall, AllBlocks
    <2>3. /\ ref' \in [AllBlocks -> Nat]
          /\ \A b \in AllBlocks : ref'[b] - ref[b] = One(SharedNull = b)
          /\ SharedNull \in DOMAIN data' /\ DOMAIN data' \subseteq AllBlocks
          /\ \A b \in Blocks : b \in DOMAIN data' <=> ref'[b] > 0
          /\ data'[SharedNull] = data[SharedNull]
      BY <2>2, Retains
    <2>4. QED
      BY <2>1, <2>3 DEF Follow, One
  <1>5. DisturbsNoWriter(h, SharedNull, Idle)
    BY WriterHas, IdleIs DEF DisturbsNoWriter
  <1>6. QED
    BY <1>2, <1>3, <1>4, <1>5, MoveKeepsInv

(* ... a copy of one, ...                                                  *)
LEMMA postblitKeeps ==
  ASSUME QListInv, NEW h \in Handles, NEW g \in Handles, postblit(h, g)
  PROVE  QListInv'
  <1>1. d[h] = NULL /\ busy[h] = Idle /\ d[g] # NULL /\ busy[g] = Idle
    BY DEF postblit, Ready, Live, QListInv, BusyIsLive
  <1>2. PICK y \in AllBlocks : y = d[g]
    BY <1>1 DEF QListInv, QListTypeOK
  <1>3. Idle \in States
    BY IdleIs
  <1>4. Moves(h, y, Idle)
    BY <1>1, <1>2, Same DEF postblit, Moves, QListInv
  <1>5. Follow(h, y, Idle)
    <2>1. \A b \in AllBlocks : d[h] # b /\ ~Dropping(Idle, b) /\ ~Dropping(busy[h], b)
      BY <1>1, BlockNames, IdleIs
    <2>2. retain(y) /\ data' = data
      BY <1>2 DEF postblit
    <2>3. ref[y] > 0
      BY <1>2, Held
    <2>4. QED
      BY <2>1, <2>2, <2>3, Retains DEF Follow, One
  <1>6. DisturbsNoWriter(h, y, Idle)
    <2>1. ASSUME NEW w \in Handles, Writes(w)
          PROVE  d[w] # y
      <3>1. w # g
        BY <1>1, <2>1, IdleIs DEF Writes
      <3>2. QED
        BY <1>2, <2>1, <3>1 DEF QListInv, WritersAlone, Exclusive
    <2>2. QED
      BY <2>1, IdleIs DEF DisturbsNoWriter
  <1>7. QED
    BY <1>2, <1>3, <1>4, <1>5, <1>6, MoveKeepsInv

(* ... its end, ...                                                        *)
LEMMA destructorKeeps ==
  ASSUME QListInv, NEW h \in Handles, destructor(h)
  PROVE  QListInv'
  <1>1. d[h] # NULL /\ busy[h] = Idle
    BY DEF destructor, Ready, Live
  <1>2. PICK c \in AllBlocks : c = d[h]
    BY <1>1 DEF QListInv, QListTypeOK
  <1>3. NULL \in AllBlocks \cup {NULL} /\ Idle \in States
    BY IdleIs
  <1>4. Moves(h, NULL, Idle)
    BY <1>1, Same DEF destructor, Moves, QListInv
  <1>5. Follow(h, NULL, Idle)
    <2>1. \A b \in AllBlocks : NULL # b /\ ~Dropping(Idle, b) /\ ~Dropping(busy[h], b)
      BY <1>1, BlockNames, IdleIs
    <2>2. release(c) /\ ref[c] > 0 /\ (c = SharedNull => ref[c] > 1)
      BY <1>2, Held DEF destructor
    <2>3. QED
      BY <1>2, <2>1, <2>2, Releases DEF Follow, One
  <1>6. DisturbsNoWriter(h, NULL, Idle)
    BY WriterHas, IdleIs DEF DisturbsNoWriter
  <1>7. QED
    BY <1>3, <1>4, <1>5, <1>6, IdleIs, MoveKeepsInv

(* ... assignment, ...                                                     *)
LEMMA opAssignKeeps ==
  ASSUME QListInv, NEW h \in Handles, NEW g \in Handles, opAssign(h, g)
  PROVE  QListInv'
  <1>1. d[h] # NULL /\ busy[h] = Idle /\ d[g] # NULL /\ busy[g] = Idle
    BY DEF opAssign, Ready, Live
  <1>2. PICK y \in AllBlocks : y = d[g]
    BY <1>1 DEF QListInv, QListTypeOK
  <1>3. PICK c \in AllBlocks : c = d[h]
    BY <1>1 DEF QListInv, QListTypeOK
  <1> DEFINE s == Drop(c, Idle)
  <1>4. s \in States
    BY DEF States, Ends
  <1>5. Moves(h, y, s)
    BY <1>2, <1>3 DEF opAssign, Moves
  <1>6. Follow(h, y, s)
    <2>1. \A b \in AllBlocks : (d[h] = b <=> Dropping(s, b)) /\ ~Dropping(busy[h], b)
      BY <1>1, <1>3, IdleIs, DropsOne DEF Ends
    <2>2. retain(y) /\ data' = data
      BY <1>2 DEF opAssign
    <2>3. ref[y] > 0
      BY <1>2, Held
    <2> HIDE DEF s
    <2>4. QED
      BY <2>1, <2>2, <2>3, Retains DEF Follow, One
  <1>7. DisturbsNoWriter(h, y, s)
    <2>1. ASSUME NEW w \in Handles, w # h, Writes(w)
          PROVE  y # d[w] /\ \A then \in Ends : s # Drop(d[w], then)
      <3>1. w # g
        BY <1>1, <2>1, IdleIs DEF Writes
      <3>2. d[w] # d[g] /\ d[w] # d[h]
        BY <2>1, <3>1 DEF QListInv, WritersAlone, Exclusive
      <3>3. QED
        BY <1>2, <1>3, <3>2, DropEqual
    <2>2. s # Write /\ \A b \in AllBlocks : s # Drop(b, Write)
      BY Doing, DropEqual
    <2>3. QED
      BY <2>1, <2>2 DEF DisturbsNoWriter
  <1>8. QED
    BY <1>2, <1>4, <1>5, <1>6, <1>7, BlockNames, MoveKeepsInv

(* ... the check of detach: who finds the count 1 is the only holder, ...  *)
LEMMA detachKeeps ==
  ASSUME QListInv, NEW h \in Handles, detach(h)
  PROVE  QListInv'
  <1>1. d[h] # NULL /\ busy[h] = Idle
    BY DEF detach, Ready, Live
  <1>2. PICK y \in AllBlocks : y = d[h]
    BY <1>1 DEF QListInv, QListTypeOK
  <1>3. PICK s \in {Write, Copy} : s = IF ref[y] = 1 THEN Write ELSE Copy
    OBVIOUS
  <1>4. s \in States /\ \A b : ~Dropping(s, b)
    BY IdleDropsNothing DEF States
  <1>5. Moves(h, y, s)
    BY <1>2, <1>3, Same DEF detach, Moves, QListInv
  <1>6. Follow(h, y, s)
    <2>1. \A b \in AllBlocks : (d[h] = b <=> y = b) /\ ~Dropping(s, b) /\ ~Dropping(busy[h], b)
      BY <1>1, <1>2, <1>4, IdleIs
    <2>2. ref' = ref /\ data' = data
      BY DEF detach
    <2>3. QED
      BY <2>1, <2>2, Steady DEF Follow, One
  <1>7. DisturbsNoWriter(h, y, s)
    <2>1. ASSUME NEW w \in Handles, w # h, Writes(w)
          PROVE  y # d[w] /\ \A then \in Ends : s # Drop(d[w], then)
      BY <1>2, <2>1, <1>3, Doing DEF QListInv, WritersAlone, Exclusive
    <2>2. ASSUME s = Write
          PROVE  /\ y \in Blocks
                 /\ \A g \in Handles : g # h => d[g] # y
                 /\ \A g \in Handles, then \in Ends : busy[g] # Drop(y, then)
      <3>1. ref[y] = 1
        BY <1>3, <2>2, Doing
      <3>2. y \in Blocks
        BY <1>2, <3>1, Held DEF AllBlocks
      <3>3. Holders(y) = 1
        BY <3>1, <3>2 DEF QListInv, CountsExact
      <3>4. h \in Owners(y)
        BY <1>2 DEF Owners
      <3>5. Cardinality(Owners(y)) > 0
        BY <3>4, HoldersFinite, FS_EmptySet
      <3>6. Cardinality(Owners(y)) = 1 /\ Cardinality(LettingGo(y)) = 0
        BY <3>3, <3>5, HoldersFinite DEF Holders
      <3>7. Owners(y) = {h}
        BY <3>4, <3>6, HoldersFinite, FS_Singleton
      <3>8. LettingGo(y) = {}
        BY <3>6, HoldersFinite, FS_EmptySet
      <3>9. QED
        BY <3>2, <3>7, <3>8, LettingGoIs DEF Owners, QListInv
    <2>3. \A b \in AllBlocks : s # Drop(b, Write)
      BY <1>3, Doing
    <2>4. QED
      BY <2>1, <2>2, <2>3, Doing DEF DisturbsNoWriter
  <1>8. QED
    BY <1>2, <1>4, <1>5, <1>6, <1>7, BlockNames, MoveKeepsInv

(* ... letting the old block go, ...                                       *)
LEMMA dropKeeps ==
  ASSUME QListInv, NEW h \in Handles, drop(h)
  PROVE  QListInv'
  <1>1. PICK c \in AllBlocks, s \in Ends : busy[h] = Drop(c, s)
    BY AtIs DEF drop, QListInv
  <1>2. d[h] # NULL
    BY <1>1, IdleIs DEF QListInv, BusyIsLive, Live
  <1>3. PICK y \in AllBlocks : y = d[h]
    BY <1>2 DEF QListInv, QListTypeOK
  <1>4. s \in States /\ \A b : ~Dropping(s, b)
    BY IdleDropsNothing DEF States, Ends
  <1>5. busy[h].old = c /\ busy[h].then = s
    BY <1>1, Doing
  <1>6. Moves(h, y, s)
    BY <1>3, <1>5, Same DEF drop, Moves, QListInv
  <1>7. Follow(h, y, s)
    <2>1. \A b \in AllBlocks : (d[h] = b <=> y = b) /\ ~Dropping(s, b) /\ (Dropping(busy[h], b) <=> c = b)
      BY <1>1, <1>3, <1>4, DropsOne
    <2>2. release(c) /\ ref[c] > 0 /\ (c = SharedNull => ref[c] > 1)
      BY <1>5, <2>1, Held DEF drop
    <2>3. QED
      BY <2>1, <2>2, Releases DEF Follow, One
  <1>8. DisturbsNoWriter(h, y, s)
    <2>1. ASSUME NEW w \in Handles, w # h, Writes(w)
          PROVE  y # d[w] /\ \A then \in Ends : s # Drop(d[w], then)
      BY <1>3, <2>1, Doing DEF QListInv, WritersAlone, Exclusive, Ends
    <2>2. ASSUME s = Write
          PROVE  /\ y \in Blocks
                 /\ \A g \in Handles : g # h => d[g] # y
                 /\ \A g \in Handles, then \in Ends : busy[g] # Drop(y, then)
      <3>1. Writes(h)
        BY <1>1, <2>2 DEF Writes
      <3>2. QED
        BY <1>3, <3>1 DEF QListInv, WritersAlone, Exclusive
    <2>3. \A b : s # Drop(b, Write)
      BY Doing DEF Ends
    <2>4. \A then : s # Drop(y, then)
      BY Doing DEF Ends
    <2>5. QED
      BY <2>1, <2>2, <2>3, <2>4 DEF DisturbsNoWriter
  <1>9. QED
    BY <1>3, <1>4, <1>6, <1>7, <1>8, BlockNames, MoveKeepsInv

(* A writing step: only the block of h changes, and what h is in the middle *)
(* of ends.                                                                 *)
LEMMA WritingKeeps ==
  ASSUME QListInv, NEW h \in Handles, At(h, "write"), ref' = ref, d' = d,
         busy' = [busy EXCEPT ![h] = Idle],
         DOMAIN data' = DOMAIN data, \A b \in DOMAIN data : b # d[h] => data'[b] = data[b]
  PROVE  QListInv'
  <1>1. busy[h] = Write
    BY AtIs DEF QListInv
  <1>2. d[h] \in Blocks /\ d[h] # SharedNull
    BY <1>1, WriterHas DEF Writes
  <1>3. PICK y \in AllBlocks : y = d[h]
    BY <1>2 DEF AllBlocks
  <1>4. Moves(h, y, Idle)
    BY <1>3, Same DEF Moves, QListInv
  <1>5. Follow(h, y, Idle)
    <2>1. \A b \in AllBlocks : (d[h] = b <=> y = b) /\ ~Dropping(Idle, b) /\ ~Dropping(busy[h], b)
      BY <1>1, <1>3, IdleIs, IdleDropsNothing
    <2>2. data'[SharedNull] = data[SharedNull]
      BY <1>2 DEF QListInv, QListTypeOK
    <2>3. QED
      BY <2>1, <2>2, Steady DEF Follow, One
  <1>6. DisturbsNoWriter(h, y, Idle)
    BY <1>3, IdleIs DEF DisturbsNoWriter, QListInv, WritersAlone, Exclusive
  <1>7. QED
    BY <1>3, <1>4, <1>5, <1>6, IdleIs, MoveKeepsInv

(* ... the operations that write ...                                       *)
LEMMA BecomeKeeps ==
  ASSUME QListInv, NEW h \in Handles, At(h, "write"), NEW array, Become(h, array)
  PROVE  QListInv'
  <1>1. /\ DOMAIN data' = DOMAIN data
        /\ \A b \in DOMAIN data : b # d[h] => data'[b] = data[b]
    BY DEF Become
  <1>2. QED
    BY <1>1, WritingKeeps DEF Become

(* A handle that copies finds a block to copy to: as many are in use as    *)
(* there are handles that own one or let one go, and it lets none go.      *)
LEMMA FreeBlockExists ==
  ASSUME QListInv, NEW h \in Handles, At(h, "copy")
  PROVE  FreeBlock \in Blocks /\ FreeBlock \notin DOMAIN data
  <1> SUFFICES ASSUME \A b \in Blocks : b \in DOMAIN data
               PROVE  FALSE
    BY DEF FreeBlock
  <1> DEFINE Roles == (Handles \X {1, 2}) \ {<<h, 2>>}
             N     == Cardinality(Handles)
             Has(r, b) == IF r[2] = 1 THEN d[r[1]] = b ELSE Dropping(busy[r[1]], b)
  <1>1. N \in Nat /\ N > 0
    BY ListAssumption, FS_CardinalityType, FS_EmptySet
  <1>2. IsFiniteSet(Roles) /\ Cardinality(Roles) = 2 * N - 1
    <2>1. IsFiniteSet({1, 2}) /\ Cardinality({1, 2}) = 2
      <3>1. IsFiniteSet({1}) /\ Cardinality({1}) = 1
        BY FS_Singleton
      <3>2. {1, 2} = {1} \cup {2}
        OBVIOUS
      <3>3. QED
        BY <3>1, <3>2, FS_AddElement
    <2>2. IsFiniteSet(Handles \X {1, 2}) /\ Cardinality(Handles \X {1, 2}) = N * 2
      BY <2>1, ListAssumption, FS_Product
    <2>3. <<h, 2>> \in Handles \X {1, 2}
      OBVIOUS
    <2>4. Cardinality(Roles) = Cardinality(Handles \X {1, 2}) - 1 /\ IsFiniteSet(Roles)
      <3> DEFINE All == Handles \X {1, 2}
                 one == <<h, 2>>
      <3>1. Roles = All \ {one} /\ IsFiniteSet(All) /\ one \in All
        BY <2>2, <2>3
      <3> HIDE DEF All, one, Roles
      <3>2. /\ IsFiniteSet(All \ {one})
            /\ Cardinality(All \ {one}) = Cardinality(All) - 1
        BY <3>1, FS_RemoveElement
      <3>3. IsFiniteSet(Roles) /\ Cardinality(Roles) = Cardinality(All) - 1
        BY <3>1, <3>2
      <3>4. QED
        BY <3>3 DEF All
    <2> HIDE DEF N, Roles
    <2>5. QED
      BY <1>1, <2>2, <2>4
  <1>3. IsFiniteSet(Blocks) /\ Cardinality(Blocks) = 2 * N
    <2>1. Blocks = 1 .. 2 * N
      BY DEF Blocks
    <2> HIDE DEF N
    <2>2. PICK m \in Nat : m = 2 * N /\ m > 0
      BY <1>1
    <2>3. IsFiniteSet(1 .. m) /\ Cardinality(1 .. m) = m
      <3>1. /\ IsFiniteSet(1 .. m)
            /\ Cardinality(1 .. m) = IF 1 > m THEN 0 ELSE m - 1 + 1
        BY <2>2, FS_Interval
      <3>2. QED
        BY <2>2, <3>1
    <2>4. QED
      BY <2>1, <2>2, <2>3
  <1>4. ~\E b \in AllBlocks : Dropping(busy[h], b)
    BY AtIs, IdleDropsNothing DEF QListInv
  <1>5. ASSUME NEW b \in Blocks
        PROVE  \E r \in Roles : Has(r, b)
    <2>1. b \in AllBlocks
      BY DEF AllBlocks
    <2>2. ref[b] > 0
      BY DEF QListInv, CountsExact
    <2>3. Holders(b) # 0
      BY <2>2 DEF QListInv, CountsExact
    <2>4. CASE Owners(b) # {}
      <3>1. PICK g \in Handles : d[g] = b
        BY <2>4 DEF Owners
      <3>2. <<g, 1>> \in Roles /\ Has(<<g, 1>>, b)
        BY <3>1
      <3>3. QED
        BY <3>2
    <2>5. CASE LettingGo(b) # {}
      <3>1. PICK g \in Handles : Dropping(busy[g], b)
        BY <2>1, <2>5, LettingGoIs DEF Dropping, QListInv
      <3>2. g # h
        BY <1>4, <2>1, <3>1
      <3>3. <<g, 2>> \in Roles /\ Has(<<g, 2>>, b)
        BY <3>1, <3>2
      <3>4. QED
        BY <3>3
    <2>6. QED
      BY <2>3, <2>4, <2>5, HoldersFinite
  <1> DEFINE role == [b \in Blocks |-> CHOOSE r \in Roles : Has(r, b)]
  <1>6. ASSUME NEW b \in Blocks
        PROVE  role[b] \in Roles /\ Has(role[b], b)
    <2>1. PICK r \in Roles : Has(r, b)
      BY <1>5
    <2>2. QED
      BY <2>1
  <1>7. \A r, b, c : Has(r, b) /\ Has(r, c) => b = c
    BY DropEqual DEF Dropping
  <1> HIDE DEF Has
  <1>8. role \in [Blocks -> Roles]
    BY <1>6
  <1> HIDE DEF role, Roles
  <1>9. Cardinality(Roles) < Cardinality(Blocks)
    BY <1>1, <1>2, <1>3
  <1>10. PICK b, c \in Blocks : b # c /\ role[b] = role[c]
    BY <1>2, <1>3, <1>8, <1>9, FS_PigeonHole
  <1>11. QED
    BY <1>6, <1>7, <1>10

(* ... and the copy of the shared block.                                   *)
LEMMA copyKeeps ==
  ASSUME QListInv, NEW h \in Handles, copy(h)
  PROVE  QListInv'
  <1>1. busy[h] = Copy
    BY AtIs DEF copy, QListInv
  <1>2. d[h] # NULL
    BY <1>1, Doing DEF QListInv, BusyIsLive, Live
  <1>3. PICK c \in AllBlocks : c = d[h]
    BY <1>2 DEF QListInv, QListTypeOK
  <1>4. PICK y \in Blocks : y = FreeBlock /\ y \notin DOMAIN data
    BY FreeBlockExists DEF copy
  <1>5. y \in AllBlocks /\ y # SharedNull /\ y # NULL
    BY BlockNames DEF AllBlocks
  <1> DEFINE s == Drop(c, Write)
  <1>6. s \in States
    BY DEF States, Ends
  <1>7. Moves(h, y, s)
    BY <1>3, <1>4 DEF copy, Moves
  <1>8. ref[y] = 0 /\ Owners(y) = {} /\ LettingGo(y) = {}
    <2>1. ref[y] \in Nat /\ ~(ref[y] > 0) /\ ref[y] = Holders(y)
      BY <1>4, <1>5 DEF QListInv, QListTypeOK, CountsExact
    <2>2. QED
      BY <2>1, HoldersFinite
  <1>9. \A g \in Handles : d[g] # y /\ ~Dropping(busy[g], y)
    BY <1>5, <1>8, LettingGoIs DEF Owners, Dropping, QListInv
  <1>10. Follow(h, y, s)
    <2>1. \A b \in AllBlocks : (d[h] = b <=> Dropping(s, b)) /\ ~Dropping(busy[h], b)
      BY <1>1, <1>3, IdleDropsNothing, DropsOne DEF Ends
    <2>2. ref' = [ref EXCEPT ![y] = 1] /\ ref \in [AllBlocks -> Nat]
      BY <1>4 DEF copy, QListInv, QListTypeOK
    <2>3. /\ ref' \in [AllBlocks -> Nat] /\ ref'[y] = 1
          /\ \A b \in AllBlocks : b # y => ref'[b] = ref[b] /\ ref[b] - ref[b] = 0
      BY <1>5, <2>2
    <2>4. /\ DOMAIN data' = DOMAIN data \cup {y}
          /\ \A b \in DOMAIN data : data'[b] = data[b]
      BY <1>4 DEF copy
    <2>5. ASSUME NEW b \in Blocks
          PROVE  b \in DOMAIN data' <=> ref'[b] > 0
      <3>1. b \in AllBlocks /\ (b \in DOMAIN data <=> ref[b] > 0)
        BY DEF AllBlocks, QListInv, CountsExact
      <3>2. QED
        BY <2>3, <2>4, <3>1
    <2>6. /\ SharedNull \in DOMAIN data' /\ DOMAIN data' \subseteq AllBlocks
          /\ data'[SharedNull] = data[SharedNull]
      BY <1>5, <2>4 DEF QListInv, QListTypeOK
    <2> HIDE DEF s
    <2>7. \A b \in AllBlocks : ref'[b] - ref[b] = One(y = b)
      BY <1>8, <2>3 DEF One
    <2>8. QED
      BY <2>1, <2>3, <2>5, <2>6, <2>7 DEF Follow, One
  <1>11. DisturbsNoWriter(h, y, s)
    <2>1. ASSUME NEW w \in Handles, w # h, Writes(w)
          PROVE  y # d[w] /\ \A then \in Ends : s # Drop(d[w], then)
      BY <1>3, <1>9, <2>1, DropEqual DEF QListInv, WritersAlone, Exclusive
    <2>2. \A g \in Handles, then \in Ends : busy[g] # Drop(y, then)
      BY <1>9 DEF Dropping
    <2>3. \A then \in Ends : s # Drop(y, then)
      BY <1>3, <1>9, DropEqual
    <2> HIDE DEF s
    <2>4. QED
      BY <1>9, <2>1, <2>2, <2>3 DEF DisturbsNoWriter
  <1> HIDE DEF s
  <1>12. QED
    BY <1>5, <1>6, <1>7, <1>10, <1>11, MoveKeepsInv

(* So every step does ...                                                  *)
LEMMA NextKeepsQListInv == QListInv /\ [Next]_vars => QListInv'
  <1> SUFFICES ASSUME QListInv, [Next]_vars
               PROVE  QListInv'
    OBVIOUS
  <1>1. CASE Next
    <2>1. PICK h \in Handles :
            \/ opCall(h) \/ destructor(h)
            \/ \E g \in Handles : postblit(h, g) \/ opAssign(h, g) \/ appendList(h, g)
            \/ detach(h) \/ copy(h) \/ drop(h) \/ detached(h)
            \/ \E v \in Values : append(h, v) \/ \E i \in Places : insert(h, i, v)
            \/ \E i, j \in Places : remove(h, i) \/ removeMany(h, i, j) \/ move(h, i, j)
      BY <1>1 DEF Next
    <2>2. CASE opCall(h)
      BY <2>2, opCallKeeps
    <2>3. CASE destructor(h)
      BY <2>3, destructorKeeps
    <2>4. ASSUME NEW g \in Handles, postblit(h, g)
          PROVE  QListInv'
      BY <2>4, postblitKeeps
    <2>5. ASSUME NEW g \in Handles, opAssign(h, g)
          PROVE  QListInv'
      BY <2>5, opAssignKeeps
    <2>6. ASSUME NEW g \in Handles, appendList(h, g)
          PROVE  QListInv'
      BY <2>6, BecomeKeeps DEF appendList
    <2>7. CASE detach(h)
      BY <2>7, detachKeeps
    <2>8. CASE copy(h)
      BY <2>8, copyKeeps
    <2>9. CASE drop(h)
      BY <2>9, dropKeeps
    <2>10. CASE detached(h)
      BY <2>10, WritingKeeps DEF detached
    <2>11. ASSUME NEW v \in Values, append(h, v)
           PROVE  QListInv'
      BY <2>11, BecomeKeeps DEF append
    <2>12. ASSUME NEW v \in Values, NEW i \in Places, insert(h, i, v)
           PROVE  QListInv'
      BY <2>12, BecomeKeeps DEF insert
    <2>13. ASSUME NEW i \in Places, NEW j \in Places,
                  remove(h, i) \/ removeMany(h, i, j) \/ move(h, i, j)
           PROVE  QListInv'
      BY <2>13, BecomeKeeps DEF remove, removeMany, move
    <2>14. QED
      BY <2>1, <2>2, <2>3, <2>4, <2>5, <2>6, <2>7, <2>8, <2>9, <2>10, <2>11, <2>12, <2>13
  <1>2. CASE UNCHANGED vars
    BY <1>2 DEF vars, QListInv, QListTypeOK, BusyIsLive, Live, CountsExact, Holders, Owners,
                LettingGo, At, WritersAlone, Writes, Exclusive
  <1>3. QED
    BY <1>1, <1>2

(* ... and the invariant holds.                                            *)
LEMMA QListInvHolds == Spec => []QListInv
  <1>1. QED
    BY InitEstablishesQListInv, NextKeepsQListInv, PTL DEF Spec

-----------------------------------------------------------------------------
(* A block lives exactly as long as a handle or a thread about to let it   *)
(* go refers to it, and ref_ says how many do: CountsExact, for any number *)
(* of handles and lists of any size.                                       *)
THEOREM CountsAreExact == Spec => []CountsExact
  <1>1. QListInv => CountsExact
    BY DEF QListInv
  <1>2. QED
    BY <1>1, QListInvHolds, PTL

(* No thread writes to a block that another handle refers to, although     *)
(* detach looks at the count several steps before: WriterIsAlone.          *)
THEOREM WritersWriteAlone == Spec => []WriterIsAlone
  <1>1. QListInv => WriterIsAlone
    <2> SUFFICES ASSUME QListInv, NEW h \in Handles, At(h, "write")
                 PROVE  Holders(d[h]) = 1
      BY DEF WriterIsAlone
    <2>1. busy[h] = Write
      BY AtIs DEF QListInv
    <2>2. Exclusive(h)
      BY <2>1 DEF QListInv, WritersAlone, Writes
    <2>3. PICK b \in AllBlocks : b = d[h]
      BY <2>2 DEF Exclusive, AllBlocks
    <2>4. Owners(b) = {h}
      BY <2>2, <2>3 DEF Owners, Exclusive
    <2>5. LettingGo(b) = {}
      BY <2>2, <2>3, LettingGoIs DEF Exclusive, QListInv
    <2>6. Holders(b) = 1
      <3>1. Cardinality(Owners(b)) = 1
        BY <2>4, FS_Singleton
      <3>2. Cardinality(LettingGo(b)) = 0
        BY <2>5, FS_EmptySet
      <3>3. QED
        BY <3>1, <3>2 DEF Holders
    <2>7. QED
      BY <2>3, <2>6
  <1>2. QED
    BY <1>1, QListInvHolds, PTL

-----------------------------------------------------------------------------
(* The heap: every block fits, and its cells are the copies of elements    *)

HeapFits == \A b \in DOMAIN data : Fitting(data[b])

HeapInv == HeapFits /\ CopiesMatchCells

ListInv == QListInv /\ HeapInv

(* Cells and sizes of the blocks of a heap m                               *)
CellsOf(m, c) == IF c \in DOMAIN m THEN {c} \X (m[c].begin .. m[c].end - 1) ELSE {}
CellsIn(m)    == UNION {{b} \X (m[b].begin .. m[b].end - 1) : b \in DOMAIN m}
SizeIn(m, c)  == IF c \in DOMAIN m THEN D!size(m[c]) ELSE 0

IsHeap(m) == DOMAIN m \subseteq AllBlocks /\ \A b \in DOMAIN m : Fitting(m[b])

(* There are finitely many blocks, ...                                     *)
LEMMA BlocksFinite == IsFiniteSet(AllBlocks)
  <1>1. PICK n \in Nat : n = 2 * Cardinality(Handles)
    BY BlockNames
  <1>2. IsFiniteSet(1 .. n)
    BY <1>1, FS_Interval
  <1>3. IsFiniteSet(Blocks)
    BY <1>1, <1>2 DEF Blocks
  <1>4. IsFiniteSet(Blocks \cup {SharedNull})
    BY <1>3, FS_AddElement
  <1>5. QED
    BY <1>4 DEF AllBlocks

(* ... so finitely many cells, ...                                         *)
LEMMA CellsFinite ==
  ASSUME NEW m, IsHeap(m)
  PROVE  IsFiniteSet(CellsIn(m)) /\ Cardinality(CellsIn(m)) \in Nat
  <1>1. PICK n \in Nat : n = MaxAlloc
    BY SizeAssumption
  <1>2. IsFiniteSet(0 .. n)
    BY <1>1, FS_Interval
  <1>3. IsFiniteSet(AllBlocks \X (0 .. n))
    BY <1>2, BlocksFinite, FS_Product
  <1>4. CellsIn(m) \subseteq AllBlocks \X (0 .. n)
    <2>1. ASSUME NEW b \in DOMAIN m, NEW i \in m[b].begin .. m[b].end - 1
          PROVE  b \in AllBlocks /\ i \in 0 .. n
      BY <1>1 DEF IsHeap, Fitting, IsArray
    <2>2. QED
      BY <2>1 DEF CellsIn
  <1>5. IsFiniteSet(CellsIn(m))
    BY <1>3, <1>4, FS_Subset
  <1>6. QED
    BY <1>5, FS_CardinalityType

(* ... and a block has as many as its list has elements.                   *)
LEMMA CellsOfCount ==
  ASSUME NEW m, IsHeap(m), NEW c
  PROVE  /\ IsFiniteSet(CellsOf(m, c)) /\ Cardinality(CellsOf(m, c)) = SizeIn(m, c)
         /\ CellsOf(m, c) \subseteq CellsIn(m) /\ SizeIn(m, c) \in Nat
  <1>1. CASE c \in DOMAIN m
    <2>1. PICK o \in Nat, n \in Nat : o = m[c].begin /\ n = D!size(m[c]) /\ m[c].end - 1 = o + n - 1
      BY <1>1, SizeIs DEF IsHeap, Fitting, IsArray
    <2>2. PICK I : I = o .. o + n - 1
      OBVIOUS
    <2>3. IsFiniteSet(I) /\ Cardinality(I) = n
      <3>1. o \in Int /\ o + n - 1 \in Int
        OBVIOUS
      <3>2. /\ IsFiniteSet(I)
            /\ Cardinality(I) = IF o > o + n - 1 THEN 0 ELSE (o + n - 1) - o + 1
        BY ONLY <2>2, <3>1, FS_Interval
      <3>3. QED
        BY <3>2
    <2>4. PICK C : C = {c}
      OBVIOUS
    <2>5. IsFiniteSet(C) /\ Cardinality(C) = 1
      BY <2>4, FS_Singleton
    <2>6. IsFiniteSet(C \X I) /\ Cardinality(C \X I) = 1 * n
      BY <2>3, <2>5, FS_Product
    <2>7. CellsOf(m, c) = C \X I
      BY <1>1, <2>1, <2>2, <2>4 DEF CellsOf
    <2>8. CellsOf(m, c) \subseteq CellsIn(m)
      BY <1>1 DEF CellsOf, CellsIn
    <2>9. QED
      BY <1>1, <2>1, <2>6, <2>7, <2>8 DEF SizeIn
  <1>2. CASE c \notin DOMAIN m
    BY <1>2, FS_EmptySet DEF CellsOf, SizeIn
  <1>3. QED
    BY <1>1, <1>2

(* Only the block c changes, appears or goes: so do its cells.             *)
LEMMA CellsMove ==
  ASSUME NEW m, IsHeap(m), NEW n, IsHeap(n), NEW c, DOMAIN m \ {c} = DOMAIN n \ {c},
         \A b \in DOMAIN m : b # c => n[b] = m[b]
  PROVE  Cardinality(CellsIn(n)) = Cardinality(CellsIn(m)) + SizeIn(n, c) - SizeIn(m, c)
  <1>1. CellsIn(n) \ CellsOf(n, c) = CellsIn(m) \ CellsOf(m, c)
    <2>1. ASSUME NEW x \in CellsIn(m), x \notin CellsOf(m, c)
          PROVE  x \in CellsIn(n) /\ x \notin CellsOf(n, c)
      <3>1. PICK b \in DOMAIN m : x \in {b} \X (m[b].begin .. m[b].end - 1)
        BY DEF CellsIn
      <3>2. b # c
        BY <2>1, <3>1 DEF CellsOf
      <3>3. b \in DOMAIN n /\ n[b] = m[b]
        BY <3>2
      <3>4. x[1] = b
        BY <3>1
      <3>5. x \in CellsIn(n)
        BY <3>1, <3>3 DEF CellsIn
      <3>6. x \notin CellsOf(n, c)
        BY <3>2, <3>4 DEF CellsOf
      <3>7. QED
        BY <3>5, <3>6
    <2>2. ASSUME NEW x \in CellsIn(n), x \notin CellsOf(n, c)
          PROVE  x \in CellsIn(m) /\ x \notin CellsOf(m, c)
      <3>1. PICK b \in DOMAIN n : x \in {b} \X (n[b].begin .. n[b].end - 1)
        BY DEF CellsIn
      <3>2. b # c
        BY <2>2, <3>1 DEF CellsOf
      <3>3. b \in DOMAIN m /\ n[b] = m[b]
        BY <3>2
      <3>4. x[1] = b
        BY <3>1
      <3>5. x \in CellsIn(m)
        BY <3>1, <3>3 DEF CellsIn
      <3>6. x \notin CellsOf(m, c)
        BY <3>2, <3>4 DEF CellsOf
      <3>7. QED
        BY <3>5, <3>6
    <2>3. QED
      BY <2>1, <2>2
  <1>2. ASSUME NEW h, IsHeap(h)
        PROVE  Cardinality(CellsIn(h) \ CellsOf(h, c)) = Cardinality(CellsIn(h)) - SizeIn(h, c)
    <2>1. CellsIn(h) \cap CellsOf(h, c) = CellsOf(h, c)
      BY <1>2, CellsOfCount
    <2>2. PICK C : C = CellsIn(h) /\ IsFiniteSet(C)
      BY <1>2, CellsFinite
    <2>3. PICK O : O = CellsOf(h, c) /\ Cardinality(O) = SizeIn(h, c)
      BY <1>2, CellsOfCount
    <2>4. C \cap O = O
      BY <2>1, <2>2, <2>3
    <2>5. Cardinality(C \ O) = Cardinality(C) - Cardinality(C \cap O)
      BY <2>2, FS_Difference
    <2>6. QED
      BY <2>2, <2>3, <2>4, <2>5
  <1>3. /\ Cardinality(CellsIn(m)) \in Nat /\ Cardinality(CellsIn(n)) \in Nat
        /\ SizeIn(m, c) \in Nat /\ SizeIn(n, c) \in Nat
    BY CellsFinite, CellsOfCount
  <1>4. Cardinality(CellsIn(n)) - SizeIn(n, c) = Cardinality(CellsIn(m)) - SizeIn(m, c)
    BY <1>1, <1>2
  <1>5. QED
    BY <1>3, <1>4

(* The invariant as a statement about the heap                             *)
LEMMA HeapIs ==
  ASSUME ListInv
  PROVE  IsHeap(data) /\ Cells = CellsIn(data) /\ copies \in Nat
  <1>1. IsHeap(data) /\ Cells = CellsIn(data)
    BY DEF ListInv, HeapInv, HeapFits, IsHeap, QListInv, QListTypeOK, Cells, CellsIn
  <1>2. QED
    BY <1>1, CellsFinite DEF ListInv, HeapInv, CopiesMatchCells

(* Copies are counted with the cells of the one block that changes.        *)
LEMMA HeapMoves ==
  ASSUME ListInv, NEW c, IsHeap(data'), DOMAIN data \ {c} = DOMAIN data' \ {c},
         \A b \in DOMAIN data : b # c => data'[b] = data[b],
         copies' = copies + SizeIn(data', c) - SizeIn(data, c)
  PROVE  HeapInv'
  <1>1. Cells' = CellsIn(data')
    BY DEF Cells, CellsIn
  <1>2. Cardinality(CellsIn(data')) = Cardinality(CellsIn(data)) + SizeIn(data', c) - SizeIn(data, c)
    BY HeapIs, CellsMove
  <1>3. copies = Cardinality(CellsIn(data))
    BY HeapIs DEF ListInv, HeapInv, CopiesMatchCells
  <1>4. QED
    BY <1>1, <1>2, <1>3 DEF HeapInv, HeapFits, CopiesMatchCells, IsHeap

(* A step that leaves the heap alone                                       *)
LEMMA HeapStays ==
  ASSUME ListInv, data' = data, copies' = copies
  PROVE  HeapInv'
  BY DEF ListInv, HeapInv, HeapFits, CopiesMatchCells, Cells

(* A release frees the copies of the elements with the block.              *)
LEMMA HeapReleases ==
  ASSUME ListInv, NEW c \in AllBlocks, c \in DOMAIN data, release(c)
  PROVE  HeapInv'
  <1>1. CASE ref[c] = 1
    <2>1. data' = Restrict(data, DOMAIN data \ {c}) /\ copies' = copies - Count(c)
      BY <1>1 DEF release
    <2>2. DOMAIN data' = DOMAIN data \ {c} /\ \A b \in DOMAIN data' : data'[b] = data[b]
      BY <2>1 DEF Restrict
    <2>3. IsHeap(data')
      BY <2>2, HeapIs DEF IsHeap
    <2>4. SizeIn(data', c) = 0 /\ SizeIn(data, c) = Count(c)
      BY <2>2 DEF SizeIn, Count
    <2>5. copies' = copies + SizeIn(data', c) - SizeIn(data, c)
      <3>1. Count(c) \in Nat
        BY HeapIs, SizeIs DEF IsHeap, Fitting, Count
      <3>2. QED
        BY <2>1, <2>4, <3>1, HeapIs
    <2>6. QED
      BY <2>2, <2>3, <2>5, HeapMoves
  <1>2. CASE ref[c] # 1
    BY <1>2, HeapStays DEF release
  <1>3. QED
    BY <1>1, <1>2

(* detach_helper makes a copy of every element.                            *)
LEMMA HeapCopies ==
  ASSUME ListInv, QListInv', NEW h \in Handles, copy(h)
  PROVE  HeapInv'
  <1>1. PICK y \in Blocks : y = FreeBlock /\ y \notin DOMAIN data
    BY FreeBlockExists DEF copy, ListInv
  <1>2. busy[h] = Copy
    BY AtIs DEF copy, ListInv, QListInv
  <1>3. PICK c \in AllBlocks : c = d[h] /\ c \in DOMAIN data
    <2>1. d[h] # NULL
      BY <1>2, Doing DEF ListInv, QListInv, BusyIsLive, Live
    <2>2. d[h] \in AllBlocks
      BY <2>1 DEF ListInv, QListInv, QListTypeOK
    <2>3. QED
      BY <2>2, Held DEF ListInv
  <1>4. /\ data' = [x \in DOMAIN data \cup {y} |-> IF x = y THEN D!detach2(data[c]) ELSE data[x]]
        /\ copies' = copies + Count(c)
    BY <1>1, <1>3 DEF copy
  <1>5. /\ DOMAIN data' = DOMAIN data \cup {y} /\ data'[y] = D!detach2(data[c])
        /\ \A b \in DOMAIN data : data'[b] = data[b]
    BY <1>1, <1>4
  <1>6. Fitting(data[c])
    BY <1>3, HeapIs DEF IsHeap
  <1>7. Fitting(data'[y]) /\ D!size(data'[y]) = Count(c)
    BY <1>5, <1>6, detach2Is DEF Count
  <1>8. IsHeap(data')
    BY <1>1, <1>5, <1>7, HeapIs DEF IsHeap, AllBlocks
  <1>9. SizeIn(data', y) = Count(c) /\ SizeIn(data, y) = 0
    BY <1>1, <1>5, <1>7 DEF SizeIn
  <1>10. Count(c) \in Nat
    BY <1>6, SizeIs DEF Count, Fitting
  <1>11. copies' = copies + SizeIn(data', y) - SizeIn(data, y)
    BY <1>4, <1>9, <1>10, HeapIs
  <1>12. DOMAIN data \ {y} = DOMAIN data' \ {y}
    BY <1>5
  <1>13. QED
    BY <1>5, <1>8, <1>11, <1>12, HeapMoves

(* The block of a handle that writes *)
LEMMA WriterFits ==
  ASSUME ListInv, NEW h \in Handles, At(h, "write")
  PROVE  /\ d[h] \in Blocks /\ d[h] \in DOMAIN data /\ Fitting(Mine(h)) /\ IsArray(Mine(h))
         /\ D!size(Mine(h)) = Count(d[h]) /\ busy[h] = Write
  <1>1. busy[h] = Write
    BY AtIs DEF ListInv, QListInv
  <1>2. PICK c \in Blocks : c = d[h]
    BY <1>1, WriterHas DEF ListInv, Writes
  <1>3. c \in DOMAIN data
    BY <1>2, Held DEF ListInv, AllBlocks
  <1>4. QED
    BY <1>1, <1>2, <1>3, HeapIs DEF IsHeap, Fitting, Mine, Count

(* A writing step makes as many copies as it has cells more.               *)
LEMMA HeapWritten ==
  ASSUME ListInv, NEW h \in Handles, At(h, "write"), NEW array, IsArray(array), Become(h, array)
  PROVE  HeapInv'
  <1>1. PICK c \in Blocks : c = d[h] /\ c \in DOMAIN data
    BY WriterFits
  <1>2. /\ data' = [data EXCEPT ![c] = array] /\ array.alloc <= MaxAlloc
        /\ copies' = copies + D!size(array) - Count(c)
    BY <1>1 DEF Become
  <1>3. /\ DOMAIN data' = DOMAIN data /\ data'[c] = array
        /\ \A b \in DOMAIN data : b # c => data'[b] = data[b]
    BY <1>1, <1>2
  <1>4. Fitting(array)
    BY <1>2 DEF Fitting
  <1>5. IsHeap(data')
    BY <1>3, <1>4, HeapIs DEF IsHeap
  <1>6. copies' = copies + SizeIn(data', c) - SizeIn(data, c)
    BY <1>1, <1>2, <1>3 DEF SizeIn, Count
  <1>7. QED
    BY <1>3, <1>5, <1>6, HeapMoves

-----------------------------------------------------------------------------
(* The lists that the handles stand for                                    *)

List(h) == IF d[h] = NULL THEN NULL ELSE D!Contents(data[d[h]])

(* The lists, by handle                                                    *)
LEMMA ListsAre == Lists = [h \in Handles |-> List(h)]
  BY DEF Lists, List

(* A live handle has a list: the elements of an allocated block.           *)
LEMMA ListOf ==
  ASSUME ListInv, NEW h \in Handles, Live(h)
  PROVE  /\ d[h] \in AllBlocks /\ d[h] \in DOMAIN data /\ Fitting(Mine(h)) /\ IsArray(Mine(h))
         /\ List(h) = D!Contents(Mine(h)) /\ List(h) \in Seq(Values)
         /\ Len(List(h)) = Count(d[h]) /\ Count(d[h]) \in Nat /\ Count(d[h]) = D!size(Mine(h))
         /\ Count(d[h]) <= MaxAlloc
         /\ Lists[h] = List(h) /\ List(h) # NULL
  <1>1. PICK c \in AllBlocks : c = d[h] /\ c \in DOMAIN data
    <2>1. d[h] \in AllBlocks
      BY DEF ListInv, QListInv, QListTypeOK, Live
    <2>2. QED
      BY <2>1, Held DEF ListInv
  <1>2. Fitting(Mine(h)) /\ IsArray(Mine(h))
    BY <1>1, HeapIs DEF IsHeap, Fitting, Mine
  <1>3. List(h) = D!Contents(Mine(h)) /\ Count(d[h]) = D!size(Mine(h))
    BY DEF List, Mine, Live, Count
  <1>4. List(h) \in Seq(Values) /\ Len(List(h)) = Count(d[h])
    BY <1>2, <1>3, ContentsIs
  <1>5. List(h) # NULL
    BY <1>4, ListAssumption
  <1>6. Count(d[h]) \in Nat /\ Count(d[h]) <= MaxAlloc
    <2>1. PICK a : a = Mine(h) /\ IsArray(a) /\ a.alloc <= MaxAlloc
      BY <1>2 DEF Fitting
    <2>2. PICK n \in Nat, l \in Nat : n = D!size(a) /\ l = a.alloc /\ n <= l
      BY <2>1, SizeIs DEF IsArray
    <2>3. n <= MaxAlloc
      BY <2>1, <2>2, SizeAssumption
    <2>4. QED
      BY <1>3, <2>1, <2>2, <2>3
  <1>7. Lists[h] = List(h)
    BY ListsAre
  <1>8. QED
    BY <1>1, <1>2, <1>3, <1>4, <1>5, <1>6, <1>7

(* After a step, too, a live handle has its block.                         *)
LEMMA HeldAfter ==
  ASSUME QListInv', NEW h \in Handles, d'[h] # NULL
  PROVE  d'[h] \in DOMAIN data'
  <1>1. PICK b \in AllBlocks : b = d'[h]
    BY DEF QListInv, QListTypeOK
  <1>2. Owners(b)' \in SUBSET Handles /\ LettingGo(b)' \in SUBSET Handles /\ h \in Owners(b)'
    BY <1>1 DEF Owners, LettingGo
  <1>3. /\ IsFiniteSet(Owners(b)') /\ IsFiniteSet(LettingGo(b)')
        /\ Cardinality(Owners(b)') \in Nat /\ Cardinality(LettingGo(b)') \in Nat
    BY <1>2, ListAssumption, FS_Subset, FS_CardinalityType
  <1>4. Cardinality(Owners(b)') # 0
    BY <1>2, <1>3, FS_EmptySet
  <1>5. Holders(b)' \in Nat /\ Holders(b)' > 0
    BY <1>3, <1>4 DEF Holders
  <1>6. CASE b \in Blocks
    BY <1>1, <1>5, <1>6 DEF QListInv, CountsExact
  <1>7. CASE b = SharedNull
    BY <1>1, <1>7 DEF QListInv, QListTypeOK
  <1>8. QED
    BY <1>6, <1>7 DEF AllBlocks

(* A step that leaves the other handles and their blocks alone changes at  *)
(* most the list of h.                                                     *)
LEMMA OthersStay ==
  ASSUME ListInv, QListInv', NEW h \in Handles,
         \A g \in Handles : g # h =>
           /\ d'[g] = d[g]
           /\ d[g] \in DOMAIN data /\ d[g] \in DOMAIN data' => data'[d[g]] = data[d[g]]
  PROVE  Lists' = [Lists EXCEPT ![h] = List(h)']
  <1>1. ASSUME NEW g \in Handles, g # h
        PROVE  List(g)' = List(g)
    <2>1. CASE d[g] = NULL
      BY <1>1, <2>1 DEF List
    <2>2. CASE d[g] # NULL
      <3>1. d[g] \in DOMAIN data
        BY <2>2, ListOf DEF Live
      <3>2. d[g] \in DOMAIN data'
        BY <1>1, <2>2, HeldAfter
      <3>3. QED
        BY <1>1, <2>2, <3>1, <3>2 DEF List
    <2>3. QED
      BY <2>1, <2>2
  <1>2. /\ Lists' = [g \in Handles |-> List(g)']
        /\ Lists = [g \in Handles |-> List(g)]
    BY DEF Lists, List
  <1>3. QED
    BY <1>1, <1>2

(* A step that leaves the list of h alone, too, is a stutter.              *)
LEMMA ListStays ==
  ASSUME NEW h \in Handles, Lists' = [Lists EXCEPT ![h] = List(h)'], List(h)' = List(h)
  PROVE  Lists' = Lists
  <1>1. Lists = [g \in Handles |-> List(g)]
    BY ListsAre
  <1>2. QED
    BY <1>1

(* So is one that changes neither handles nor blocks.                      *)
LEMMA AllStays ==
  ASSUME d' = d, data' = data
  PROVE  Lists' = Lists
  BY DEF Lists, List

(* What the lists become, in the words of ListValues                       *)
LEMMA Becomes ==
  ASSUME NEW h \in Handles, NEW list, Lists' = [Lists EXCEPT ![h] = list]
  PROVE  Abstract!Become(h, list)
  BY DEF Abstract!Become

(* So are the live handles.                                                *)
LEMMA AbstractLive ==
  ASSUME NEW h \in Handles
  PROVE  h \in Abstract!Live <=> List(h) # NULL
  BY DEF Abstract!Live, Lists, List

(* Each step on the lists: a new variable has an empty one, ...            *)
LEMMA opCallMeans ==
  ASSUME ListInv, QListInv', NEW h \in Handles, opCall(h)
  PROVE  Abstract!New(h)
  <1>1. d[h] = NULL /\ d' = [d EXCEPT ![h] = SharedNull] /\ data' = data /\ h \in DOMAIN d
    BY DEF opCall, Live, ListInv, QListInv, QListTypeOK
  <1>2. List(h)' = <<>>
    <2>1. d'[h] = SharedNull /\ SharedNull # NULL
      BY <1>1, BlockNames DEF AllBlocks
    <2>2. data'[SharedNull] = D!sharedNull
      BY <1>1 DEF ListInv, QListInv, CountsExact
    <2>3. QED
      BY <2>1, <2>2, sharedNullIs DEF List
  <1>3. Lists' = [Lists EXCEPT ![h] = <<>>]
    BY <1>1, <1>2, OthersStay
  <1>4. Abstract!Become(h, <<>>)
    BY <1>3, Becomes
  <1>5. QED
    BY <1>1, <1>4 DEF Abstract!New, Lists

(* ... a copy has that of its original, ...                                *)
LEMMA postblitMeans ==
  ASSUME ListInv, QListInv', NEW h \in Handles, NEW g \in Handles, postblit(h, g)
  PROVE  Abstract!Copy(h, g)
  <1>1. /\ d[h] = NULL /\ Live(g) /\ d[g] # NULL /\ d' = [d EXCEPT ![h] = d[g]] /\ data' = data
        /\ h \in DOMAIN d
    BY DEF postblit, Ready, Live, ListInv, QListInv, QListTypeOK
  <1>2. PICK l : l = List(g) /\ l = Lists[g]
    BY <1>1, ListOf
  <1>3. List(h)' = l
    BY <1>1, <1>2 DEF List
  <1>4. Lists' = [Lists EXCEPT ![h] = l]
    BY <1>1, <1>3, OthersStay
  <1>5. g \in Abstract!Live
    BY <1>1, ListOf, AbstractLive
  <1>6. Lists[h] = NULL
    BY <1>1 DEF Lists, List
  <1>7. QED
    BY <1>2, <1>4, <1>5, <1>6 DEF Abstract!Copy, Abstract!Become

(* ... assignment takes over that of g, ...                                *)
LEMMA opAssignMeans ==
  ASSUME ListInv, QListInv', NEW h \in Handles, NEW g \in Handles, opAssign(h, g)
  PROVE  Abstract!Assign(h, g)
  <1>1. /\ Live(h) /\ Live(g) /\ d[g] # NULL /\ d' = [d EXCEPT ![h] = d[g]] /\ data' = data
        /\ h \in DOMAIN d
    BY DEF opAssign, Ready, Live, ListInv, QListInv, QListTypeOK
  <1>2. PICK l : l = List(g) /\ l = Lists[g]
    BY <1>1, ListOf
  <1>3. List(h)' = l
    BY <1>1, <1>2 DEF List
  <1>4. Lists' = [Lists EXCEPT ![h] = l]
    BY <1>1, <1>3, OthersStay
  <1>5. g \in Abstract!Live /\ h \in Abstract!Live
    BY <1>1, ListOf, AbstractLive
  <1>6. QED
    BY <1>2, <1>4, <1>5 DEF Abstract!Assign, Abstract!Become

(* What is let go is no longer a handle's, or is still there.              *)
LEMMA ReleaseIs ==
  ASSUME NEW c, release(c)
  PROVE  \A b \in DOMAIN data' : data'[b] = data[b]
  BY DEF release, Restrict

(* ... a dead variable has none; ...                                       *)
LEMMA destructorMeans ==
  ASSUME ListInv, QListInv', NEW h \in Handles, destructor(h)
  PROVE  Abstract!Destroy(h)
  <1>1. Live(h) /\ d' = [d EXCEPT ![h] = NULL] /\ h \in DOMAIN d
    BY DEF destructor, Ready, ListInv, QListInv, QListTypeOK
  <1>2. \A b \in DOMAIN data' : data'[b] = data[b]
    BY ReleaseIs DEF destructor
  <1>3. List(h)' = NULL
    BY <1>1 DEF List
  <1>4. Lists' = [Lists EXCEPT ![h] = NULL]
    BY <1>1, <1>2, <1>3, OthersStay
  <1>5. Abstract!Become(h, NULL)
    BY <1>4, Becomes
  <1>6. h \in Abstract!Live
    BY <1>1, ListOf, AbstractLive
  <1>7. QED
    BY <1>5, <1>6 DEF Abstract!Destroy

(* ... letting a block go is not seen, ...                                 *)
LEMMA dropMeans ==
  ASSUME ListInv, QListInv', NEW h \in Handles, drop(h)
  PROVE  Lists' = Lists
  <1>1. d' = d /\ \A b \in DOMAIN data' : data'[b] = data[b]
    BY ReleaseIs DEF drop
  <1>2. Live(h)
    <2>1. PICK c \in AllBlocks, s \in Ends : busy[h] = Drop(c, s)
      BY AtIs DEF drop, ListInv, QListInv
    <2>2. QED
      BY <2>1, IdleIs DEF ListInv, QListInv, BusyIsLive
  <1>3. d[h] \in DOMAIN data'
    BY <1>1, <1>2, HeldAfter DEF Live
  <1>4. List(h)' = List(h)
    BY <1>1, <1>3 DEF List
  <1>5. Lists' = [Lists EXCEPT ![h] = List(h)']
    BY <1>1, OthersStay
  <1>6. QED
    BY <1>4, <1>5, ListStays

(* ... nor is copying the one shared.                                      *)
LEMMA copyMeans ==
  ASSUME ListInv, QListInv', NEW h \in Handles, copy(h)
  PROVE  Lists' = Lists
  <1>1. PICK y \in Blocks : y = FreeBlock /\ y \notin DOMAIN data
    BY FreeBlockExists DEF copy, ListInv
  <1>2. Live(h) /\ h \in DOMAIN d
    <2>1. busy[h] = Copy
      BY AtIs DEF copy, ListInv, QListInv
    <2>2. QED
      BY <2>1, Doing DEF ListInv, QListInv, BusyIsLive, QListTypeOK
  <1>3. /\ d' = [d EXCEPT ![h] = y]
        /\ data' = [x \in DOMAIN data \cup {y} |-> IF x = y THEN D!detach2(data[d[h]]) ELSE data[x]]
    BY <1>1 DEF copy
  <1>4. /\ data'[y] = D!detach2(Mine(h))
        /\ \A b \in DOMAIN data : data'[b] = data[b]
    BY <1>1, <1>3 DEF Mine
  <1>5. List(h)' = List(h)
    <2>1. d'[h] = y /\ y # NULL
      BY <1>2, <1>3, BlockNames DEF AllBlocks
    <2>2. List(h)' = D!Contents(data'[y])
      BY <2>1 DEF List
    <2>3. D!Contents(data'[y]) = D!Contents(Mine(h))
      BY <1>2, <1>4, ListOf, detach2Is
    <2>4. QED
      BY <1>2, <2>2, <2>3, ListOf
  <1>6. Lists' = [Lists EXCEPT ![h] = List(h)']
    BY <1>2, <1>3, <1>4, OthersStay
  <1>7. QED
    BY <1>5, <1>6, ListStays

(* A writing step makes of the list of h what it makes of its array.       *)
LEMMA BecomeMeans ==
  ASSUME ListInv, QListInv', NEW h \in Handles, At(h, "write"), NEW array, Become(h, array)
  PROVE  Lists' = [Lists EXCEPT ![h] = D!Contents(array)]
  <1>1. PICK c \in Blocks : c = d[h] /\ c \in DOMAIN data /\ busy[h] = Write
    BY WriterFits
  <1>2. /\ data' = [data EXCEPT ![c] = array] /\ d' = d
    BY <1>1 DEF Become
  <1>3. /\ data'[c] = array
        /\ \A b \in DOMAIN data : b # c => data'[b] = data[b]
    BY <1>1, <1>2
  <1>4. c # NULL
    BY <1>1, BlockNames DEF AllBlocks
  <1>5. List(h)' = D!Contents(array)
    BY <1>1, <1>2, <1>3, <1>4 DEF List
  <1>6. \A g \in Handles : g # h => d[g] # c
    BY <1>1 DEF ListInv, QListInv, WritersAlone, Writes, Exclusive
  <1>7. Lists' = [Lists EXCEPT ![h] = List(h)']
    BY <1>2, <1>3, <1>6, OthersStay
  <1>8. QED
    BY <1>5, <1>7

(* An insertion in the list of h is one of ListValues, ...                 *)
LEMMA InsertMeans ==
  ASSUME ListInv, NEW h \in Handles, Live(h), NEW i \in 0 .. Count(d[h]), NEW v \in Values,
         NEW l, l = With(List(h), i, v), Lists' = [Lists EXCEPT ![h] = l]
  PROVE  Abstract!Insert(h, i, v)
  <1>1. PICK s \in Seq(Values) : s = List(h) /\ s = Lists[h] /\ Len(s) = Count(d[h])
    BY ListOf
  <1>2. i \in 0 .. Len(s) /\ i + 1 - 1 = i
    BY <1>1
  <1>3. l = Abstract!InsertAt(s, i + 1, v)
    BY <1>1, <1>2 DEF With, Cat, Abstract!InsertAt
  <1>4. h \in Abstract!Live
    BY ListOf, AbstractLive
  <1>5. QED
    BY <1>1, <1>2, <1>3, <1>4 DEF Abstract!Insert, Abstract!Become

(* ... so is a removal, ...                                                *)
LEMMA RemoveMeans ==
  ASSUME ListInv, NEW h \in Handles, Live(h), NEW i \in Nat, NEW n \in Nat, i + n <= Count(d[h]),
         NEW l, l = Without(List(h), i, n), Lists' = [Lists EXCEPT ![h] = l]
  PROVE  Abstract!RemoveRange(h, i, n)
  <1>1. PICK s \in Seq(Values) : s = List(h) /\ s = Lists[h] /\ Len(s) = Count(d[h])
    BY ListOf
  <1>2. l = SubSeq(s, 1, i) \o SubSeq(s, i + n + 1, Len(s))
    BY <1>1 DEF Without, Cat
  <1>3. h \in Abstract!Live
    BY ListOf, AbstractLive
  <1>4. QED
    BY <1>1, <1>2, <1>3 DEF Abstract!RemoveRange, Abstract!Become

(* ... with the operators of ListValues ...                                *)
LEMMA RemoveAtIs ==
  ASSUME NEW s, NEW k \in Nat
  PROVE  Abstract!RemoveAt(s, k + 1) = Without(s, k, 1)
  <1>1. PICK m : m = (k + 1) - 1 /\ m = k
    OBVIOUS
  <1>2. SubSeq(s, 1, m) = SubSeq(s, 1, k)
    BY <1>1
  <1>3. QED
    BY ONLY <1>1, <1>2 DEF Without, Cat, Abstract!RemoveAt

(* ... in their own form, ...                                              *)
LEMMA InsertAtIs ==
  ASSUME NEW s, NEW k \in Nat, NEW x
  PROVE  Abstract!InsertAt(s, k + 1, x) = With(s, k, x)
  <1>1. PICK m : m = (k + 1) - 1 /\ m = k
    OBVIOUS
  <1>2. SubSeq(s, 1, m) = SubSeq(s, 1, k)
    BY <1>1
  <1>3. QED
    BY ONLY <1>1, <1>2 DEF With, Cat, Abstract!InsertAt

(* ... so is a move, ...                                                   *)
LEMMA MoveMeans ==
  ASSUME ListInv, NEW h \in Handles, Live(h),
         NEW i \in 0 .. Count(d[h]) - 1, NEW j \in 0 .. Count(d[h]) - 1,
         NEW l, l = With(Without(List(h), i, 1), j, List(h)[i + 1]),
         Lists' = [Lists EXCEPT ![h] = l]
  PROVE  Abstract!Move(h, i, j)
  <1>1. PICK s \in Seq(Values) : s = List(h) /\ s = Lists[h] /\ Len(s) = Count(d[h])
    BY ListOf
  <1>2. PICK k \in Nat, u \in Nat :
           /\ k = i /\ u = j /\ {i, j} \subseteq 0 .. Len(s) - 1
           /\ i + 1 = k + 1 /\ j + 1 = u + 1 /\ k + 1 - 1 = k /\ u + 1 - 1 = u
    BY <1>1, ListOf
  <1>3. PICK r : r = Without(s, k, 1)
    OBVIOUS
  <1>4. r = Abstract!RemoveAt(s, k + 1)
    BY <1>3, RemoveAtIs
  <1>5. PICK x : x = s[k + 1]
    OBVIOUS
  <1>6. With(r, u, x) = Abstract!InsertAt(r, u + 1, x)
    BY InsertAtIs
  <1>7. l = With(r, u, x)
    BY <1>1, <1>2, <1>3, <1>5
  <1>8. h \in Abstract!Live
    BY ListOf, AbstractLive
  <1>9. l = Abstract!InsertAt(Abstract!RemoveAt(s, i + 1), j + 1, s[i + 1])
    BY <1>2, <1>4, <1>5, <1>6, <1>7
  <1>10. QED
    BY <1>1, <1>2, <1>8, <1>9 DEF Abstract!Move, Abstract!Become

(* ... and so is a concatenation.                                          *)
LEMMA ExtendMeans ==
  ASSUME ListInv, NEW h \in Handles, Live(h), NEW g \in Handles, Live(g),
         NEW l, l = List(h) \o List(g), Lists' = [Lists EXCEPT ![h] = l]
  PROVE  Abstract!Extend(h, g)
  <1>1. PICK s \in Seq(Values), r \in Seq(Values) :
           s = List(h) /\ s = Lists[h] /\ r = List(g) /\ r = Lists[g]
    BY ListOf
  <1>2. h \in Abstract!Live /\ g \in Abstract!Live
    BY ListOf, AbstractLive
  <1>3. QED
    BY <1>1, <1>2 DEF Abstract!Extend, Abstract!Become

(* Who writes is alive.                                                    *)
LEMMA WriterLives ==
  ASSUME ListInv, NEW h \in Handles, At(h, "write")
  PROVE  Live(h)
  BY WriterFits, BlockNames DEF Live, AllBlocks

(* Each operation that writes keeps the heap and does what ListValues      *)
(* says: append, ...                                                       *)
LEMMA appendMeans ==
  ASSUME ListInv, QListInv', NEW h \in Handles, NEW v \in Values, append(h, v)
  PROVE  HeapInv' /\ Abstract!Insert(h, Count(d[h]), v)
  <1>1. PICK a : a = Mine(h)
    OBVIOUS
  <1>2. PICK b : b = D!append(a, v) /\ At(h, "write") /\ Become(h, b)
    BY <1>1 DEF append
  <1>3. Live(h) /\ Fitting(a) /\ List(h) = D!Contents(a) /\ Count(d[h]) = D!size(a)
    BY <1>1, <1>2, WriterLives, ListOf
  <1>4. IsArray(b) /\ D!Contents(b) = With(List(h), Count(d[h]), v)
    BY <1>2, <1>3, appendIs
  <1>5. Lists' = [Lists EXCEPT ![h] = D!Contents(b)]
    BY <1>2, <1>4, BecomeMeans
  <1>6. PICK n \in Nat : n = Count(d[h])
    BY <1>3, ListOf
  <1>7. n \in 0 .. Count(d[h]) /\ D!Contents(b) = With(List(h), n, v)
    BY <1>4, <1>6
  <1>8. Abstract!Insert(h, n, v)
    BY <1>3, <1>5, <1>7, InsertMeans
  <1>9. QED
    BY <1>2, <1>4, <1>6, <1>8, HeapWritten

(* ... insert, ...                                                         *)
LEMMA insertMeans ==
  ASSUME ListInv, QListInv', NEW h \in Handles, NEW i \in Places, NEW v \in Values, insert(h, i, v)
  PROVE  HeapInv' /\ Abstract!Insert(h, i, v)
  <1>1. PICK a : a = Mine(h)
    OBVIOUS
  <1>2. PICK b : b = D!insert(a, i, v) /\ At(h, "write") /\ Become(h, b)
    BY <1>1 DEF insert
  <1>3. Live(h) /\ Fitting(a) /\ List(h) = D!Contents(a) /\ Count(d[h]) = D!size(a)
    BY <1>1, <1>2, WriterLives, ListOf
  <1>4. i \in 0 .. Count(d[h]) /\ i \in 0 .. D!size(a)
    BY <1>3, ListOf DEF insert, Places
  <1>5. IsArray(b) /\ D!Contents(b) = With(List(h), i, v)
    BY <1>2, <1>3, <1>4, insertIs
  <1>6. Lists' = [Lists EXCEPT ![h] = D!Contents(b)]
    BY <1>2, <1>5, BecomeMeans
  <1>7. Abstract!Insert(h, i, v)
    BY <1>3, <1>4, <1>5, <1>6, InsertMeans
  <1>8. QED
    BY <1>2, <1>5, <1>7, HeapWritten

(* ... append of a list, ...                                               *)
LEMMA appendListMeans ==
  ASSUME ListInv, QListInv', NEW h \in Handles, NEW g \in Handles, appendList(h, g)
  PROVE  HeapInv' /\ Abstract!Extend(h, g)
  <1>1. PICK a : a = Mine(h)
    OBVIOUS
  <1>2. Live(g)
    BY DEF appendList, Ready
  <1>3. PICK xs \in Seq(Values) : xs = D!Contents(Mine(g)) /\ xs = List(g) /\ Len(xs) <= MaxAlloc
    BY <1>2, ListOf
  <1>4. PICK b : b = D!appendList(a, xs) /\ At(h, "write") /\ Become(h, b)
    BY <1>1, <1>3 DEF appendList
  <1>5. Live(h) /\ Fitting(a) /\ List(h) = D!Contents(a)
    BY <1>1, <1>4, WriterLives, ListOf
  <1>6. IsArray(b) /\ D!Contents(b) = List(h) \o List(g)
    BY <1>3, <1>4, <1>5, appendListIs
  <1>7. Lists' = [Lists EXCEPT ![h] = D!Contents(b)]
    BY <1>4, <1>6, BecomeMeans
  <1>8. Abstract!Extend(h, g)
    BY <1>2, <1>5, <1>6, <1>7, ExtendMeans
  <1>9. QED
    BY <1>4, <1>6, <1>8, HeapWritten

(* ... remove of one element ...                                           *)
LEMMA removeMeans ==
  ASSUME ListInv, QListInv', NEW h \in Handles, NEW i \in Places, remove(h, i)
  PROVE  HeapInv' /\ Abstract!RemoveRange(h, i, 1)
  <1>1. PICK a : a = Mine(h)
    OBVIOUS
  <1>2. PICK b : b = D!removeOne(a, i) /\ At(h, "write") /\ Become(h, b)
    BY <1>1 DEF remove
  <1>3. Live(h) /\ IsArray(a) /\ List(h) = D!Contents(a) /\ Count(d[h]) = D!size(a)
    BY <1>1, <1>2, WriterLives, ListOf
  <1>4. i \in Nat /\ 1 \in Nat /\ i + 1 <= Count(d[h]) /\ i \in 0 .. D!size(a) - 1
    BY <1>3, ListOf DEF remove, Places
  <1>5. IsArray(b) /\ D!Contents(b) = Without(List(h), i, 1)
    BY <1>2, <1>3, <1>4, removeOneIs
  <1>6. Lists' = [Lists EXCEPT ![h] = D!Contents(b)]
    BY <1>2, <1>5, BecomeMeans
  <1>7. Abstract!RemoveRange(h, i, 1)
    BY <1>3, <1>4, <1>5, <1>6, RemoveMeans
  <1>8. QED
    BY <1>2, <1>5, <1>7, HeapWritten

(* ... and of several, where none is a stutter, ...                        *)
LEMMA removeManyMeans ==
  ASSUME ListInv, QListInv', NEW h \in Handles, NEW i \in Places, NEW j \in Places,
         removeMany(h, i, j)
  PROVE  /\ HeapInv' /\ Abstract!RemoveRange(h, i, j)
         /\ Live(h) /\ i + j <= Count(d[h])
         /\ j = 0 => Lists' = Lists
  <1>1. PICK a : a = Mine(h)
    OBVIOUS
  <1>2. PICK b : b = D!removeMany(a, i, j) /\ At(h, "write") /\ Become(h, b)
    BY <1>1 DEF removeMany
  <1>3. Live(h) /\ IsArray(a) /\ List(h) = D!Contents(a) /\ Count(d[h]) = D!size(a)
    BY <1>1, <1>2, WriterLives, ListOf
  <1>4. i \in Nat /\ j \in Nat /\ i + j <= Count(d[h]) /\ i + j <= D!size(a)
    BY <1>3, ListOf DEF removeMany, Places
  <1>5. IsArray(b) /\ D!Contents(b) = Without(List(h), i, j)
    BY <1>2, <1>3, <1>4, removeManyIs
  <1>6. Lists' = [Lists EXCEPT ![h] = D!Contents(b)]
    BY <1>2, <1>5, BecomeMeans
  <1>7. Abstract!RemoveRange(h, i, j)
    BY <1>3, <1>4, <1>5, <1>6, RemoveMeans
  <1>8. ASSUME j = 0
        PROVE  Lists' = Lists
    <2>1. PICK s \in Seq(Values) : s = List(h) /\ Len(s) = Count(d[h]) /\ s = Lists[h]
      BY <1>3, ListOf
    <2>2. i <= Len(s)
      BY <1>4, <1>8, <2>1
    <2>3. Without(s, i, 0) = s
      BY <1>4, <2>2, NothingRemoved
    <2>4. D!Contents(b) = s
      BY <1>5, <1>8, <2>1, <2>3
    <2>5. Lists = [g \in Handles |-> List(g)]
      BY ListsAre
    <2>6. QED
      BY <1>6, <2>1, <2>4, <2>5
  <1>9. QED
    BY <1>2, <1>3, <1>4, <1>5, <1>7, <1>8, HeapWritten

(* ... and move.                                                           *)
LEMMA moveMeans ==
  ASSUME ListInv, QListInv', NEW h \in Handles, NEW i \in Places, NEW j \in Places, move(h, i, j)
  PROVE  HeapInv' /\ Abstract!Move(h, i, j)
  <1>1. PICK a : a = Mine(h)
    OBVIOUS
  <1>2. PICK b : b = D!move(a, i, j) /\ At(h, "write") /\ Become(h, b)
    BY <1>1 DEF move
  <1>3. Live(h) /\ IsArray(a) /\ List(h) = D!Contents(a) /\ Count(d[h]) = D!size(a)
    BY <1>1, <1>2, WriterLives, ListOf
  <1>4. /\ i \in 0 .. Count(d[h]) - 1 /\ j \in 0 .. Count(d[h]) - 1
        /\ i \in 0 .. D!size(a) - 1 /\ j \in 0 .. D!size(a) - 1
    BY <1>3 DEF move
  <1>5. IsArray(b) /\ D!Contents(b) = With(Without(List(h), i, 1), j, List(h)[i + 1])
    BY <1>2, <1>3, <1>4, moveIs
  <1>6. Lists' = [Lists EXCEPT ![h] = D!Contents(b)]
    BY <1>2, <1>5, BecomeMeans
  <1>7. Abstract!Move(h, i, j)
    BY <1>3, <1>4, <1>5, <1>6, MoveMeans
  <1>8. QED
    BY <1>2, <1>5, <1>7, HeapWritten

(* They are steps of ListValues: an insertion, ...                         *)
LEMMA InsertIsNext ==
  ASSUME NEW h \in Handles, NEW i, NEW v \in Values, Abstract!Insert(h, i, v)
  PROVE  Abstract!Next
  BY DEF Abstract!Insert, Abstract!Next

(* ... a removal of something ...                                          *)
LEMMA RemoveIsNext ==
  ASSUME ListInv, NEW h \in Handles, Live(h), NEW i \in Nat, NEW n \in Nat, n # 0,
         i + n <= Count(d[h]), Abstract!RemoveRange(h, i, n)
  PROVE  Abstract!Next
  <1>1. Len(Lists[h]) = Count(d[h]) /\ Count(d[h]) \in Nat
    BY ListOf
  <1>2. i \in 0 .. Len(Lists[h]) /\ n \in 1 .. Len(Lists[h]) - i
    BY <1>1
  <1>3. h \in Abstract!Live
    BY DEF Abstract!RemoveRange
  <1>4. QED
    BY <1>2, <1>3 DEF Abstract!Next

(* ... and a move.                                                         *)
LEMMA MoveIsNext ==
  ASSUME ListInv, NEW h \in Handles, Live(h), NEW i, NEW j, Abstract!Move(h, i, j)
  PROVE  Abstract!Next
  <1>1. Len(Lists[h]) \in Nat
    BY ListOf
  <1>2. /\ i \in 0 .. Len(Lists[h]) - 1 /\ j \in 0 .. Len(Lists[h]) - 1
        /\ h \in Abstract!Live
    BY DEF Abstract!Move
  <1>3. i \in 0 .. Len(Lists[h])
    BY <1>1, <1>2
  <1>4. QED
    BY <1>2, <1>3 DEF Abstract!Next

(* Before the first step there are no lists and no copies.                 *)
LEMMA InitEstablishesListInv == Init => ListInv /\ Abstract!Init
  <1> SUFFICES ASSUME Init PROVE ListInv /\ Abstract!Init
    OBVIOUS
  <1>1. QListInv
    BY InitEstablishesQListInv
  <1>2. DOMAIN data = {SharedNull} /\ data[SharedNull] = D!sharedNull /\ copies = 0
    BY DEF Init
  <1>3. HeapFits
    BY <1>2, sharedNullIs DEF HeapFits
  <1>4. Cells = {}
    <2>1. PICK a : a = D!sharedNull /\ IsArray(a) /\ D!size(a) = 0
      BY sharedNullIs DEF Fitting
    <2>2. a.begin .. a.end - 1 = {}
      BY <2>1, SizeIs DEF IsArray
    <2>3. QED
      BY <1>2, <2>1, <2>2 DEF Cells
  <1>5. CopiesMatchCells
    BY <1>2, <1>4, FS_EmptySet DEF CopiesMatchCells
  <1>6. Abstract!Init
    BY DEF Init, Abstract!Init, Lists
  <1>7. QED
    BY <1>1, <1>3, <1>5, <1>6 DEF ListInv, HeapInv

(* Every step keeps the invariant and is one of ListValues or a stutter.   *)
LEMMA StepMeans ==
  ASSUME ListInv, [Next]_vars
  PROVE  ListInv' /\ [Abstract!Next]_Lists
  <1>1. QListInv'
    BY NextKeepsQListInv DEF ListInv
  <1> SUFFICES HeapInv' /\ [Abstract!Next]_Lists
    BY <1>1 DEF ListInv
  <1>2. CASE Next
    <2>1. PICK h \in Handles :
            \/ opCall(h) \/ destructor(h)
            \/ \E g \in Handles : postblit(h, g) \/ opAssign(h, g) \/ appendList(h, g)
            \/ detach(h) \/ copy(h) \/ drop(h) \/ detached(h)
            \/ \E v \in Values : append(h, v) \/ \E i \in Places : insert(h, i, v)
            \/ \E i, j \in Places : remove(h, i) \/ removeMany(h, i, j) \/ move(h, i, j)
      BY <1>2 DEF Next
    <2>2. CASE opCall(h)
      <3>1. HeapInv'
        BY <2>2, HeapStays DEF opCall
      <3>2. QED
        BY <1>1, <2>2, <3>1, opCallMeans DEF Abstract!Next
    <2>3. CASE destructor(h)
      <3>1. PICK c \in AllBlocks : c = d[h] /\ c \in DOMAIN data
        BY <2>3, ListOf DEF destructor, Ready
      <3>2. release(c)
        BY <2>3, <3>1 DEF destructor
      <3>3. HeapInv'
        BY <3>1, <3>2, HeapReleases
      <3>4. QED
        BY <1>1, <2>3, <3>3, destructorMeans DEF Abstract!Next
    <2>4. ASSUME NEW g \in Handles, postblit(h, g)
          PROVE  HeapInv' /\ [Abstract!Next]_Lists
      <3>1. HeapInv'
        BY <2>4, HeapStays DEF postblit
      <3>2. QED
        BY <1>1, <2>4, <3>1, postblitMeans DEF Abstract!Next
    <2>5. ASSUME NEW g \in Handles, opAssign(h, g)
          PROVE  HeapInv' /\ [Abstract!Next]_Lists
      <3>1. HeapInv'
        BY <2>5, HeapStays DEF opAssign
      <3>2. QED
        BY <1>1, <2>5, <3>1, opAssignMeans DEF Abstract!Next
    <2>6. ASSUME NEW g \in Handles, appendList(h, g)
          PROVE  HeapInv' /\ [Abstract!Next]_Lists
      BY <1>1, <2>6, appendListMeans DEF Abstract!Next
    <2>7. CASE detach(h)
      BY <2>7, HeapStays, AllStays DEF detach
    <2>8. CASE copy(h)
      BY <1>1, <2>8, HeapCopies, copyMeans
    <2>9. CASE drop(h)
      <3>1. PICK c \in AllBlocks, s \in Ends : busy[h] = Drop(c, s)
        BY <2>9, AtIs DEF drop, ListInv, QListInv
      <3>2. busy[h].old = c /\ Dropping(busy[h], c)
        BY <3>1, Doing DEF Dropping
      <3>3. c \in DOMAIN data
        BY <3>2, Held DEF ListInv
      <3>4. release(c)
        BY <2>9, <3>2 DEF drop
      <3>5. QED
        BY <1>1, <2>9, <3>3, <3>4, HeapReleases, dropMeans
    <2>10. CASE detached(h)
      BY <2>10, HeapStays, AllStays DEF detached
    <2>11. ASSUME NEW v \in Values, append(h, v)
           PROVE  HeapInv' /\ [Abstract!Next]_Lists
      BY <1>1, <2>11, appendMeans, InsertIsNext
    <2>12. ASSUME NEW v \in Values, NEW i \in Places, insert(h, i, v)
           PROVE  HeapInv' /\ [Abstract!Next]_Lists
      BY <1>1, <2>12, insertMeans, InsertIsNext
    <2>13. ASSUME NEW i \in Places, remove(h, i)
           PROVE  HeapInv' /\ [Abstract!Next]_Lists
      <3>1. HeapInv' /\ Abstract!RemoveRange(h, i, 1)
        BY <1>1, <2>13, removeMeans
      <3>2. Live(h)
        BY <2>13, WriterLives DEF remove
      <3>3. i \in Nat /\ 1 \in Nat /\ 1 # 0 /\ i + 1 <= Count(d[h])
        BY <2>13, <3>2, ListOf DEF remove, Places
      <3>4. QED
        BY <3>1, <3>2, <3>3, RemoveIsNext
    <2>14. ASSUME NEW i \in Places, NEW j \in Places, removeMany(h, i, j)
           PROVE  HeapInv' /\ [Abstract!Next]_Lists
      <3>1. /\ HeapInv' /\ Abstract!RemoveRange(h, i, j)
            /\ Live(h) /\ i + j <= Count(d[h])
            /\ j = 0 => Lists' = Lists
        BY <1>1, <2>14, removeManyMeans
      <3>2. i \in Nat /\ j \in Nat
        BY DEF Places
      <3>3. CASE j = 0
        BY <3>1, <3>3
      <3>4. CASE j # 0
        BY <3>1, <3>2, <3>4, RemoveIsNext
      <3>5. QED
        BY <3>3, <3>4
    <2>15. ASSUME NEW i \in Places, NEW j \in Places, move(h, i, j)
           PROVE  HeapInv' /\ [Abstract!Next]_Lists
      <3>1. Live(h)
        BY <2>15, WriterLives DEF move
      <3>2. QED
        BY <1>1, <2>15, <3>1, moveMeans, MoveIsNext
    <2>16. QED
      BY <2>1, <2>2, <2>3, <2>4, <2>5, <2>6, <2>7, <2>8, <2>9, <2>10, <2>11, <2>12, <2>13, <2>14, <2>15
  <1>3. CASE UNCHANGED vars
    <2>1. d' = d /\ data' = data /\ copies' = copies
      BY <1>3 DEF vars
    <2>2. QED
      BY <2>1, HeapStays, AllStays
  <1>4. QED
    BY <1>2, <1>3

(* The operations, as the property states them                             *)
LEMMA OperationsMean ==
  ASSUME ListInv, QListInv', NEW h \in Handles
  PROVE  Means(h)
  BY appendMeans, insertMeans, appendListMeans, removeMeans, removeManyMeans, moveMeans DEF Means

(* The whole invariant holds.                                              *)
LEMMA ListInvHolds == Spec => []ListInv
  <1>1. Init => ListInv
    BY InitEstablishesListInv
  <1>2. ListInv /\ [Next]_vars => ListInv'
    BY StepMeans
  <1>3. QED
    BY <1>1, <1>2, PTL DEF Spec

-----------------------------------------------------------------------------
(* Counts, blocks and busy threads are as declared, a block's elements lie *)
(* within its allocated cells, and each is a value, not what a removed     *)
(* element or a move left behind: TypeOK, for lists of any size up to      *)
(* SizeAssumption.                                                         *)
THEOREM Typed == Spec => []TypeOK
  <1>1. ListInv => TypeOK
    <2> SUFFICES ASSUME ListInv PROVE TypeOK
      OBVIOUS
    <2>1. /\ d \in [Handles -> Blocks \cup {SharedNull, NULL}]
          /\ ref \in [Blocks \cup {SharedNull} -> Nat]
      <3>1. AllBlocks \cup {NULL} = Blocks \cup {SharedNull, NULL}
        BY DEF AllBlocks
      <3>2. QED
        BY <3>1 DEF ListInv, QListInv, QListTypeOK, AllBlocks
    <2>2. ASSUME NEW b \in DOMAIN data
          PROVE  /\ 0 <= data[b].begin /\ data[b].begin <= data[b].end
                 /\ data[b].end <= data[b].alloc
                 /\ Range(D!Contents(data[b])) \subseteq Values
      <3>1. PICK a : a = data[b] /\ IsArray(a)
        BY HeapIs DEF IsHeap, Fitting
      <3>2. PICK s \in Seq(Values) : s = D!Contents(a)
        BY <3>1, ContentsIs
      <3>3. Range(s) \subseteq Values
        BY DEF Range
      <3>4. QED
        BY <3>1, <3>2, <3>3 DEF IsArray
    <2>3. copies \in Nat
      BY HeapIs
    <2>4. \A h \in Handles : busy[h] \in {Idle, Copy, Write}
                \cup {Drop(b, then) : b \in Blocks \cup {SharedNull}, then \in {Idle, Write}}
      BY DEF ListInv, QListInv, QListTypeOK, AllBlocks, Ends
    <2>5. QED
      BY <2>1, <2>2, <2>3, <2>4 DEF TypeOK
  <1>2. QED
    BY <1>1, ListInvHolds, PTL

(* Every cell of every block owns one copy of an element on the heap, and  *)
(* no other copy is there: node_construct, node_copy and node_destruct     *)
(* balance through every sharing, detaching and release: CopiesMatchCells. *)
THEOREM NothingLeaks == Spec => []CopiesMatchCells
  <1>1. ListInv => CopiesMatchCells
    BY DEF ListInv, HeapInv
  <1>2. QED
    BY <1>1, ListInvHolds, PTL

(* Sharing cannot be seen: each variable behaves as a list of its own, and *)
(* append, insert, remove and move do to it what they promise, whichever   *)
(* cells they move and whenever they grow the array: ImplementsValues.     *)
THEOREM ListsAreValues == Spec => ImplementsValues
  <1>1. Init => Abstract!Init
    BY InitEstablishesListInv
  <1>2. ListInv /\ [Next]_vars => [Abstract!Next]_Lists
    BY StepMeans
  <1>3. ListInv /\ ListInv' => \A h \in Handles : Means(h)
    BY OperationsMean DEF ListInv
  <1>4. ListInv /\ ListInv' /\ [Next]_vars => [\A h \in Handles : Means(h)]_vars
    BY <1>3
  <1>5. QED
    BY ListInvHolds, <1>1, <1>2, <1>4, PTL DEF Spec, ImplementsValues, Abstract!Spec
=============================================================================
