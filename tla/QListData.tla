----------------------------- MODULE QListData -----------------------------
(***************************************************************************)
(* The array under a list (struct QListData, d2/qt/core/QList.d): its      *)
(* elements are the cells begin .. end - 1 of alloc cells, and an          *)
(* operation moves the smaller part of them, or grows the array.  Cells    *)
(* outside of that range hold whatever was there before; no operation may  *)
(* depend on it, so they are all Junk here.                                *)
(***************************************************************************)
EXTENDS Integers, Sequences, FiniteSetsExt

CONSTANT Junk

Cell(d, i) == IF i \in d.begin .. d.end - 1 THEN d.array[i] ELSE Junk

Data(alloc, begin, end, At(_)) ==
  [alloc |-> alloc, begin |-> begin, end |-> end,
   array |-> [i \in 0 .. alloc - 1 |-> IF begin <= i /\ i < end THEN At(i) ELSE Junk]]

sharedNull == Data(0, 0, 0, LAMBDA i : Junk)

size(d) == d.end - d.begin

Contents(d) == [i \in 1 .. size(d) |-> d.array[d.begin + i - 1]]

-----------------------------------------------------------------------------
(* Growing *)

PointerSize    == 8
DataHeaderSize == 24
Page           == 4096

MaxDoublings == 17
Powers == {2 ^ k : k \in 0 .. MaxDoublings}

Doubled(from, least) == from * Min({p \in Powers : least <= from * p})

(* How many more bytes to allocate, for blocks too small to overflow an int *)
(* (up to 2^29 bytes).                                                      *)
qAllocMore(alloc, extra) ==
  LET all == alloc + extra
  IN  IF all = 0 THEN 0
      ELSE (IF all < 64 THEN 8 + 8 * (all \div 8)
            ELSE Doubled(IF all < Page THEN 8 ELSE Page, all)) - extra

grow(n) == qAllocMore(n * PointerSize, DataHeaderSize) \div PointerSize

realloc(d, alloc) ==
  Data(alloc, IF alloc = 0 THEN 0 ELSE d.begin, IF alloc = 0 THEN 0 ELSE d.end,
       LAMBDA i : Cell(d, i))

(* detach2: the same array in another block *)
detach2(d) == realloc(d, d.alloc)

-----------------------------------------------------------------------------
(* Each of these returns the array with the new cell filled with x. *)

append_NoBegin(d, x) ==
  LET n == size(d)
      m == IF d.end # d.alloc THEN d
           ELSE IF d.begin > (2 * d.alloc) \div 3
                THEN Data(d.alloc, d.begin, n * 2, LAMBDA i : Cell(d, d.begin + i - n))
                ELSE realloc(d, grow(d.alloc + 1))
  IN  Data(m.alloc, m.begin, m.end + 1, LAMBDA i : IF i = m.end THEN x ELSE Cell(m, i))

append(d, x) ==
  LET n == size(d)
      m == IF d.end # d.alloc THEN d
           ELSE IF d.begin > (2 * d.alloc) \div 3
                THEN Data(d.alloc, n, n * 2, LAMBDA i : Cell(d, d.begin + i - n))
                ELSE realloc(d, grow(d.alloc + 1))
  IN  Data(m.alloc, m.begin, m.end + 1, LAMBDA i : IF i = m.end THEN x ELSE Cell(m, i))

(* append(l), where xs are the elements of l *)
appendList(d, xs) ==
  LET n == Len(xs)
      m == IF d.end + n > d.alloc THEN realloc(d, grow(d.end + n)) ELSE d
  IN  IF n = 0 THEN d
      ELSE Data(m.alloc, m.begin, m.end + n,
                LAMBDA i : IF i >= m.end THEN xs[i - m.end + 1] ELSE Cell(m, i))

prepend(d, x) ==
  LET g == IF d.end >= d.alloc \div 3 THEN realloc(d, grow(d.alloc + 1)) ELSE d
      b == IF g.end < g.alloc \div 3 THEN g.alloc - 2 * g.end ELSE g.alloc - g.end
      m == IF d.begin # 0 THEN d ELSE Data(g.alloc, b, g.end + b, LAMBDA i : Cell(g, i - b))
  IN  Data(m.alloc, m.begin - 1, m.end, LAMBDA i : IF i = m.begin - 1 THEN x ELSE Cell(m, i))

(* Which part moves: the left one if only there is room, or if it is shorter. *)
Leftward(d, i) == d.begin # 0 /\ (d.end = d.alloc \/ i < size(d) - i)

insert(d, k, x) ==
  LET left == Leftward(d, k)
      m == IF d.begin = 0 /\ d.end = d.alloc THEN realloc(d, grow(d.alloc + 1)) ELSE d
      b == IF left THEN m.begin - 1 ELSE m.begin
      At(i) == IF i < b + k THEN Cell(m, IF left THEN i + 1 ELSE i)
               ELSE IF i = b + k THEN x
               ELSE Cell(m, IF left THEN i ELSE i - 1)
  IN  CASE k <= 0 -> prepend(d, x)
        [] k > 0 /\ k >= size(d) -> append(d, x)
        [] OTHER -> Data(m.alloc, b, b + size(m) + 1, At)

(* remove(i) and remove(i, n) choose the side to close the gap from alike. *)
removeOne(d, k) ==
  LET j == d.begin + k
  IN  IF k < d.end - j
      THEN Data(d.alloc, d.begin + 1, d.end, LAMBDA i : Cell(d, IF i <= j THEN i - 1 ELSE i))
      ELSE Data(d.alloc, d.begin, d.end - 1, LAMBDA i : Cell(d, IF i < j THEN i ELSE i + 1))

removeMany_WrongSide(d, k, n) ==
  LET j == d.begin + k
      middle == j + n \div 2
  IN  IF middle - d.begin < d.end - middle
      THEN Data(d.alloc, d.begin + n, d.end,
                LAMBDA i : Cell(d, IF i < j THEN i - n ELSE i))
      ELSE Data(d.alloc, d.begin, d.end - n, LAMBDA i : Cell(d, IF i < j THEN i ELSE i + n))

removeMany(d, k, n) ==
  LET j == d.begin + k
      middle == j + n \div 2
  IN  IF middle - d.begin < d.end - middle
      THEN Data(d.alloc, d.begin + n, d.end,
                LAMBDA i : Cell(d, IF i < j + n THEN i - n ELSE i))
      ELSE Data(d.alloc, d.begin, d.end - n, LAMBDA i : Cell(d, IF i < j THEN i ELSE i + n))

(* Shift what lies between, or, where that is longer, what lies around. *)
move(d, source, target) ==
  LET from == d.begin + source
      to   == d.begin + target
      t    == d.array[from]
      forth == from < to
      shift == IF forth THEN d.end = d.alloc \/ 3 * (to - from) < 2 * size(d)
                        ELSE d.begin = 0 \/ 3 * (from - to) < 2 * size(d)
      Between(i) == IF i = to THEN t
                    ELSE IF forth /\ from <= i /\ i < to THEN Cell(d, i + 1)
                    ELSE IF ~forth /\ to < i /\ i <= from THEN Cell(d, i - 1)
                    ELSE Cell(d, i)
      AroundForth(i) == IF i = to + 1 THEN t
                        ELSE IF i <= from \/ i > to + 1 THEN Cell(d, i - 1)
                        ELSE Cell(d, i)
      AroundBack(i) == IF i = to - 1 THEN t
                       ELSE IF i < to - 1 \/ i >= from THEN Cell(d, i + 1)
                       ELSE Cell(d, i)
  IN  CASE source = target -> d
        [] source # target /\ shift -> Data(d.alloc, d.begin, d.end, Between)
        [] forth /\ ~shift -> Data(d.alloc, d.begin + 1, d.end + 1, AroundForth)
        [] OTHER -> Data(d.alloc, d.begin - 1, d.end - 1, AroundBack)
=============================================================================
