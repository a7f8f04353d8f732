------------------------- MODULE SignalHandlerProofs -------------------------
(***************************************************************************)
(* Proofs about SignalHandler for any number of signals, receivers,        *)
(* objects and slots, emissions nested to any depth, and queues of delayed *)
(* disconnections of any length.                                           *)
(***************************************************************************)
EXTENDS SignalHandler, SequenceTheorems, DataInduction

(* The state that a disconnection changes, for one signal. *)
State == [lists : [Lists -> Seq(Slot)], refs : [Objects -> Int], listening : BOOLEAN]

ScanState == [st : State, i : Nat \ {0},
              todo : {<<"Func">>, <<"Weak", "Strong">>, <<"Strong">>, <<>>}]

(* The slots of a list are of its kind; a slot is only disposed of where   *)
(* slots may leave.                                                        *)
Fits(s, l, list) ==
  /\ Len(list) <= MaxSlots[s][l]
  /\ \A i \in DOMAIN list : /\ list[i].r \in Functions <=> l = "Func"
                            /\ list[i].disposed => MaxSlots[s][l] <= 1

SlotsFit == \A s \in Signals, l \in Lists : Fits(s, l, slots[s][l])

DelayedFit ==
  \A s \in Signals, k \in {"fn", "dg"} : \A i \in DOMAIN delayed[s][k] :
    /\ delayed[s][k][i] \in Functions <=> k = "fn"
    /\ MayRemove(s, delayed[s][k][i])

CountsFinite == \A o \in Objects : IsFiniteSet(SlotsTo(slots, o))

HandlerInv == TypeOK /\ SlotsFit /\ DelayedFit /\ CountsFinite /\ TablesMatchSlots

(* What HandlerInv says of one signal, if its part of the state were st    *)
Consistent(s, st) ==
  /\ st \in State
  /\ \A l \in Lists : Fits(s, l, st.lists[l])
  /\ \A o \in Objects :
       /\ IsFiniteSet(SlotsTo([slots EXCEPT ![s] = st.lists], o))
       /\ st.refs[o] = Cardinality(SlotsTo([slots EXCEPT ![s] = st.lists], o))
       /\ o \notin alive => st.refs[o] = 0
  /\ st.listening <=> slotCount(st.lists) > 0

-----------------------------------------------------------------------------
(* The three lists, in the order in which emit walks them                  *)
LEMMA ListNames ==
  /\ Lists = {"Func", "Weak", "Strong"}
  /\ Len(ListOrder) = 3
  /\ ListOrder[1] = "Func" /\ ListOrder[2] = "Weak" /\ ListOrder[3] = "Strong"
  /\ \A i \in 1 .. 3 : ListOrder[i] \in Lists
  BY DEF Lists, ListOrder, ToSet

(* A function on 1 .. n is a sequence of length n.                         *)
LEMMA FunctionIsSeq ==
  ASSUME NEW S, NEW n \in Nat, NEW f \in [1 .. n -> S]
  PROVE  f \in Seq(S) /\ Len(f) = n /\ DOMAIN f = 1 .. n
  <1>1. f \in Seq(S)
    BY SeqDef
  <1>2. DOMAIN f = 1 .. Len(f) /\ Len(f) \in Nat
    BY <1>1, LenProperties
  <1>3. QED
    BY <1>1, <1>2

(* listRemove drops one slot, but not always the right one. *)
LEMMA Removed ==
  ASSUME NEW list \in Seq(Slot), NEW i \in 1 .. Len(list)
  PROVE  /\ listRemove(list, i) \in Seq(Slot)
         /\ Len(listRemove(list, i)) = Len(list) - 1
  <1>1. Len(list) - 1 \in Nat
    OBVIOUS
  <1>2. listRemove(list, i) \in [1 .. Len(list) - 1 -> Slot]
    BY <1>1 DEF listRemove
  <1>3. QED
    BY <1>1, <1>2, FunctionIsSeq

(* slotCount counts the slots of a signal.                                 *)
LEMMA Counted ==
  ASSUME NEW lists \in [Lists -> Seq(Slot)]
  PROVE  /\ slotCount(lists) \in Nat
         /\ slotCount(lists) = 0 <=> \A l \in Lists : lists[l] = <<>>
         /\ \A l \in Lists : Len(lists[l]) <= slotCount(lists)
  <1>1. \A l \in Lists : lists[l] \in Seq(Slot) /\ Len(lists[l]) \in Nat
                         /\ (Len(lists[l]) = 0 <=> lists[l] = <<>>)
    <2>1. \A l \in Lists : lists[l] \in Seq(Slot)
      OBVIOUS
    <2>2. QED
      BY <2>1, EmptySeq
  <1>2. {"Func", "Weak", "Strong"} = Lists
    BY ListNames
  <1>3. /\ Len(lists["Func"]) \in Nat /\ Len(lists["Weak"]) \in Nat
        /\ Len(lists["Strong"]) \in Nat
    BY <1>1, <1>2
  <1> DEFINE a == Len(lists["Func"])
             b == Len(lists["Weak"])
             c == Len(lists["Strong"])
  <1>4. slotCount(lists) = a + b + c
    BY DEF slotCount
  <1>5. \A l \in Lists : Len(lists[l]) \in {a, b, c}
    BY <1>2
  <1>6. (\A l \in Lists : Len(lists[l]) = 0) <=> a = 0 /\ b = 0 /\ c = 0
    BY <1>2
  <1>7. a \in Nat /\ b \in Nat /\ c \in Nat
    BY <1>3
  <1> HIDE DEF a, b, c
  <1>8. /\ slotCount(lists) \in Nat
        /\ slotCount(lists) = 0 <=> a = 0 /\ b = 0 /\ c = 0
        /\ \A n \in {a, b, c} : n <= slotCount(lists)
    BY <1>4, <1>7
  <1>9. QED
    BY <1>1, <1>5, <1>6, <1>8

(* removeSlot changes the lists, the table of receivers and whether Qt is  *)
(* told to forward, and keeps their types.                                 *)
LEMMA RemoveSlotType ==
  ASSUME NEW st \in State, NEW l \in Lists, NEW i \in 1 .. Len(st.lists[l])
  PROVE  removeSlot(st, l, i) \in State
  <1>1. st.lists \in [Lists -> Seq(Slot)] /\ st.refs \in [Objects -> Int] /\ st.listening \in BOOLEAN
    BY DEF State
  <1> DEFINE after == [st.lists EXCEPT ![l] = listRemove(@, i)]
  <1>2. after \in [Lists -> Seq(Slot)]
    BY <1>1, Removed
  <1>3. slotCount(after) \in Nat
    BY <1>2, Counted
  <1>4. QED
    BY <1>1, <1>2, <1>3 DEF removeSlot, State

(* The loop of disconnect begins with the lists its receiver can be in.    *)
LEMMA ScanStart ==
  ASSUME NEW st \in State, NEW r
  PROVE  Scanning(st, 1, IF r \in Functions THEN <<"Func">> ELSE <<"Weak", "Strong">>) \in ScanState
  BY DEF ScanState, Scanning

(* One round of the loop keeps its variables in their types.               *)
LEMMA ScanStepType ==
  ASSUME NEW scan \in ScanState, NEW r
  PROVE  ScanStep(scan, r) \in ScanState
  <1>1. scan.st \in State /\ scan.i \in Nat \ {0}
        /\ scan.todo \in {<<"Func">>, <<"Weak", "Strong">>, <<"Strong">>, <<>>}
    BY DEF ScanState
  <1>2. CASE scan.todo = <<>>
    BY <1>2 DEF ScanStep
  <1>3. CASE scan.todo # <<>>
    <2> DEFINE l == Head(scan.todo)
               s == scan.st.lists[l][scan.i]
    <2>1. l \in Lists /\ Tail(scan.todo) \in {<<"Strong">>, <<>>}
      <3>1. CASE scan.todo = <<"Func">>
        BY <3>1, ListNames
      <3>2. CASE scan.todo = <<"Weak", "Strong">>
        BY <3>2, ListNames
      <3>3. CASE scan.todo = <<"Strong">>
        BY <3>3, ListNames
      <3>4. QED
        BY <1>1, <1>3, <3>1, <3>2, <3>3
    <2>2. scan.st.lists[l] \in Seq(Slot)
      BY <1>1, <2>1 DEF State
    <2>3. CASE scan.i > Len(scan.st.lists[l])
      <3>1. ScanStep(scan, r) = Scanning(scan.st, 1, Tail(scan.todo))
        BY <1>3, <2>3 DEF ScanStep
      <3>2. QED
        BY <1>1, <3>1, <2>1 DEF ScanState, Scanning
    <2>4. CASE ~(scan.i > Len(scan.st.lists[l]))
      <3>1. scan.i \in 1 .. Len(scan.st.lists[l])
        BY <1>1, <2>2, <2>4
      <3> DEFINE without == removeSlot(scan.st, l, scan.i)
      <3>2. without \in State
        BY <1>1, <2>1, <3>1, RemoveSlotType
      <3>3. ScanStep(scan, r) \in {Scanning(without, scan.i, scan.todo),
                                   Scanning(without, scan.i, <<>>),
                                   Scanning(scan.st, scan.i + 1, scan.todo)}
        BY <1>3, <2>4 DEF ScanStep
      <3> HIDE DEF without
      <3>4. QED
        BY <1>1, <3>2, <3>3 DEF ScanState, Scanning
    <2>5. QED
      BY <1>1, <2>2, <2>3, <2>4
  <1>4. QED
    BY <1>2, <1>3

(* The loop of disconnect, round by round *)
LEMMA ScanIs ==
  ASSUME NEW st \in State, NEW r
  PROVE  /\ Scan(st, r) \in [Nat -> ScanState]
         /\ Scan(st, r)[0] = Scanning(st, 1, IF r \in Functions THEN <<"Func">> ELSE <<"Weak", "Strong">>)
         /\ \A k \in Nat : Scan(st, r)[k + 1] = ScanStep(Scan(st, r)[k], r)
  <1> DEFINE start == Scanning(st, 1, IF r \in Functions THEN <<"Func">> ELSE <<"Weak", "Strong">>)
             step == [p \in Nat \X ScanState |-> ScanStep(p[2], r)]
             Def(f) == [k \in Nat |-> IF k = 0 THEN start ELSE ScanStep(f[k - 1], r)]
  <1>1. start \in ScanState
    BY ScanStart
  <1>2. step \in [Nat \X ScanState -> ScanState]
    BY ScanStepType
  <1>3. PICK f \in [Nat -> ScanState] : f[0] = start /\ \A k \in Nat : f[k + 1] = step[<<k, f[k]>>]
    <2> HIDE DEF start, step
    <2>1. PICK f : IsLoop(f, ScanState, start, step)
      BY <1>1, <1>2, Recursion
    <2>2. QED
      BY <2>1 DEF IsLoop
  <1>4. \A k \in Nat : f[k + 1] = ScanStep(f[k], r)
    <2> HIDE DEF start
    <2>1. SUFFICES ASSUME NEW k \in Nat
                   PROVE  f[k + 1] = ScanStep(f[k], r)
      OBVIOUS
    <2>2. <<k, f[k]>> \in Nat \X ScanState
      BY <1>3
    <2>3. step[<<k, f[k]>>] = ScanStep(f[k], r)
      BY <2>2
    <2>4. QED
      BY <1>3, <2>3
  <1>5. f = Def(f)
    <2> HIDE DEF start, step
    <2>1. ASSUME NEW k \in Nat
          PROVE  f[k] = IF k = 0 THEN start ELSE ScanStep(f[k - 1], r)
      <3>1. CASE k = 0
        BY <1>3, <3>1
      <3>2. CASE k # 0
        <4>1. k - 1 \in Nat /\ (k - 1) + 1 = k
          BY <3>2
        <4>2. QED
          BY <1>4, <4>1, <3>2
      <3>3. QED
        BY <3>1, <3>2
    <2>2. QED
      BY <1>3, <2>1
  <1>6. Scan(st, r) = CHOOSE g : g = Def(g)
    BY DEF Scan
  <1>7. Scan(st, r) = Def(Scan(st, r))
    <2> HIDE DEF Def
    <2> QED
      BY <1>5, <1>6
  <1>8. Scan(st, r)[0] = start
    <2> HIDE DEF start
    <2> QED BY <1>7
  <1>9. \A k \in Nat : Scan(st, r)[k + 1] = ScanStep(Scan(st, r)[k], r)
    <2> HIDE DEF start
    <2>1. SUFFICES ASSUME NEW k \in Nat
                   PROVE  Scan(st, r)[k + 1] = ScanStep(Scan(st, r)[k], r)
      OBVIOUS
    <2>2. k + 1 \in Nat /\ k + 1 # 0 /\ (k + 1) - 1 = k
      OBVIOUS
    <2>3. QED
      BY <1>7, <2>2
  <1>10. \A k \in Nat : Scan(st, r)[k] \in ScanState
    <2> DEFINE S == {k \in Nat : Scan(st, r)[k] \in ScanState}
    <2>1. 0 \in S
      BY <1>1, <1>8
    <2>2. \A k \in Nat : k \in S => k + 1 \in S
      BY <1>9, ScanStepType
    <2>3. Nat \subseteq S
      <3> HIDE DEF S
      <3> QED
        BY <2>1, <2>2, NatSetInduction
    <2>4. QED
      BY <2>3
  <1>11. Scan(st, r) \in [Nat -> ScanState]
    <2> HIDE DEF start
    <2> QED BY <1>7, <1>10
  <1>12. QED
    BY <1>8, <1>9, <1>11
-----------------------------------------------------------------------------
(* A list of at most one slot: the first slot is dropped if it is disposed *)
(* of or the receiver's, and the latter ends the disconnection.            *)
Gone(list, r)  == list # <<>> /\ (list[1].disposed \/ list[1].r = r)
Stops(list, r) == list # <<>> /\ ~list[1].disposed /\ list[1].r = r

Walked(st, l, r) == IF Gone(st.lists[l], r) THEN removeSlot(st, l, 1) ELSE st

(* A loop that has ended stays as it is.                                   *)
LEMMA ScanEnded ==
  ASSUME NEW r, NEW F, \A k \in Nat : F[k + 1] = ScanStep(F[k], r),
         NEW k \in Nat, F[k].todo = <<>>, NEW n \in Nat, k <= n
  PROVE  F[n] = F[k]
  <1> DEFINE S == {j \in Nat : F[k + j] = F[k]}
  <1>1. 0 \in S
    OBVIOUS
  <1>2. ASSUME NEW j \in Nat, j \in S
        PROVE  j + 1 \in S
    <2>1. F[(k + j) + 1] = ScanStep(F[k + j], r) /\ F[k + j] = F[k]
      BY <1>2
    <2>2. ScanStep(F[k], r) = F[k]
      BY DEF ScanStep
    <2>3. QED
      BY <2>1, <2>2
  <1>3. Nat \subseteq S
    <2> HIDE DEF S
    <2> QED
      BY <1>1, <1>2, NatSetInduction
  <1>4. n - k \in Nat /\ k + (n - k) = n
    OBVIOUS
  <1>5. n - k \in S
    <2> HIDE DEF S
    <2> QED
      BY <1>3, <1>4
  <1>6. QED
    BY <1>4, <1>5

Past(st, l, i)       == i > Len(st.lists[l])
DisposedAt(st, l, i) == st.lists[l][i].disposed
IsAt(st, l, i, r)    == st.lists[l][i].r = r

(* One round of the loop of disconnect: past the end of a list, at a       *)
(* disposed slot, at the receiver's slot, at another slot                  *)
LEMMA RoundEnd ==
  ASSUME NEW st, NEW i, NEW todo, NEW r, NEW scan, scan = Scanning(st, i, todo),
         todo # <<>>, NEW l, Head(todo) = l, Past(st, l, i)
  PROVE  ScanStep(scan, r) = Scanning(st, 1, Tail(todo))
  <1>1. scan.st = st /\ scan.i = i /\ scan.todo = todo
    BY DEF Scanning
  <1>2. QED
    BY <1>1 DEF ScanStep, Past, DisposedAt, IsAt

(* ... at a slot of a receiver that is gone,                               *)
LEMMA RoundDisposed ==
  ASSUME NEW st, NEW i, NEW todo, NEW r, NEW scan, scan = Scanning(st, i, todo),
         todo # <<>>, NEW l, Head(todo) = l, ~Past(st, l, i), DisposedAt(st, l, i)
  PROVE  ScanStep(scan, r) = Scanning(removeSlot(st, l, i), i, todo)
  <1>1. scan.st = st /\ scan.i = i /\ scan.todo = todo
    BY DEF Scanning
  <1>2. QED
    BY <1>1 DEF ScanStep, Past, DisposedAt, IsAt

(* ... at a slot of the receiver,                                          *)
LEMMA RoundFound ==
  ASSUME NEW st, NEW i, NEW todo, NEW r, NEW scan, scan = Scanning(st, i, todo),
         todo # <<>>, NEW l, Head(todo) = l, ~Past(st, l, i), ~DisposedAt(st, l, i),
         IsAt(st, l, i, r)
  PROVE  ScanStep(scan, r) = Scanning(removeSlot(st, l, i), i, <<>>)
  <1>1. scan.st = st /\ scan.i = i /\ scan.todo = todo
    BY DEF Scanning
  <1>2. QED
    BY <1>1 DEF ScanStep, Past, DisposedAt, IsAt

(* ... at the slot of another receiver                                     *)
LEMMA RoundOther ==
  ASSUME NEW st, NEW i, NEW todo, NEW r, NEW scan, scan = Scanning(st, i, todo),
         todo # <<>>, NEW l, Head(todo) = l, ~Past(st, l, i), ~DisposedAt(st, l, i),
         ~IsAt(st, l, i, r)
  PROVE  ScanStep(scan, r) = Scanning(st, i + 1, todo)
  <1>1. scan.st = st /\ scan.i = i /\ scan.todo = todo
    BY DEF Scanning
  <1>2. QED
    BY <1>1 DEF ScanStep, Past, DisposedAt, IsAt

(* F, a run of that loop, is done with list l at n, having begun at k. *)
WalksTo(F, n, k, st, l, todo, r) ==
  /\ n \in Nat
  /\ n <= k + 1 + Len(st.lists[l])
  /\ F[n] = Scanning(Walked(st, l, r), 1, IF Stops(st.lists[l], r) THEN <<>> ELSE Tail(todo))

(* What the loop of disconnect does to a list of one slot at most: it      *)
(* leaves the list as Walked says, in as many rounds as the list has       *)
(* slots, and one.                                                         *)
LEMMA WalkList ==
  ASSUME NEW r, NEW F, \A k \in Nat : F[k + 1] = ScanStep(F[k], r),
         NEW k \in Nat, NEW st \in State, NEW l \in Lists, Len(st.lists[l]) <= 1,
         NEW todo, todo # <<>>, Head(todo) = l, F[k] = Scanning(st, 1, todo)
  PROVE  \E n : WalksTo(F, n, k, st, l, todo, r)
  <1>1. PICK list : list = st.lists[l]
    OBVIOUS
  <1>2. list \in Seq(Slot) /\ Len(list) \in Nat /\ Len(list) <= 1
    BY <1>1 DEF State
  <1>3. F[k + 1] = ScanStep(F[k], r) /\ k + 1 \in Nat
    OBVIOUS
  <1>4. F[k + 2] = ScanStep(F[k + 1], r) /\ k + 2 \in Nat
    <2>1. (k + 1) + 1 = k + 2 /\ k + 2 \in Nat
      OBVIOUS
    <2>2. QED
      BY <1>3, <2>1
  <1>5. PICK scan : scan = F[k] /\ scan = Scanning(st, 1, todo) /\ todo # <<>> /\ Head(todo) = l
    OBVIOUS
  <1>6. CASE list = <<>>
    <2>1. Len(list) = 0
      BY <1>6
    <2>2. Past(st, l, 1)
      BY <1>1, <2>1 DEF Past
    <2>3. F[k + 1] = Scanning(st, 1, Tail(todo))
      BY <1>3, <2>2, RoundEnd
    <2>4. ~Gone(list, r) /\ ~Stops(list, r)
      BY <1>6 DEF Gone, Stops
    <2>5. k + 1 <= k + 1 + Len(list)
      BY <2>1
    <2>6. QED
      BY <1>1, <1>3, <2>3, <2>4, <2>5 DEF Walked, WalksTo
  <1>7. CASE list # <<>>
    <2>1. Len(list) = 1
      <3>1. Len(list) # 0
        BY <1>2, <1>7, EmptySeq
      <3>2. PICK n : n = Len(list)
        OBVIOUS
      <3>3. n \in Nat /\ n <= 1 /\ n # 0
        BY <1>2, <3>1, <3>2
      <3>4. n = 1
        BY <3>3
      <3>5. QED
        BY <3>2, <3>4
    <2>2. k + 1 <= k + 1 + Len(list) /\ k + 2 <= k + 1 + Len(list)
      BY <2>1
    <2>3. ~Past(st, l, 1)
      BY <1>1, <2>1 DEF Past
    <2>4. CASE list[1].disposed
      <3>1. PICK without : without = removeSlot(st, l, 1)
        OBVIOUS
      <3>2. DisposedAt(st, l, 1)
        BY <1>1, <2>4 DEF DisposedAt
      <3>3. F[k + 1] = Scanning(without, 1, todo)
        <4>1. ScanStep(scan, r) = Scanning(removeSlot(st, l, 1), 1, todo)
          BY ONLY <2>3, <3>2, <1>5, RoundDisposed, SMT
        <4>2. QED
          BY <1>3, <1>5, <3>1, <4>1
      <3>4. Past(without, l, 1)
        <4>1. 1 \in 1 .. Len(list)
          BY <2>1
        <4>2. Len(listRemove(list, 1)) = Len(list) - 1
          BY <1>2, <4>1, Removed
        <4>3. without.lists[l] = listRemove(list, 1)
          BY <1>1, <3>1 DEF State, removeSlot
        <4>4. QED
          BY <4>2, <4>3, <2>1 DEF Past
      <3>5. F[k + 2] = Scanning(without, 1, Tail(todo))
        BY <1>4, <3>3, <3>4, RoundEnd
      <3>6. Gone(list, r) /\ ~Stops(list, r)
        BY <1>7, <2>4 DEF Gone, Stops
      <3>7. QED
        BY <1>1, <1>4, <2>2, <3>1, <3>5, <3>6 DEF Walked, WalksTo
    <2>5. CASE ~list[1].disposed /\ list[1].r = r
      <3>1. ~DisposedAt(st, l, 1) /\ IsAt(st, l, 1, r)
        BY <1>1, <2>5 DEF DisposedAt, IsAt
      <3>2. F[k + 1] = Scanning(removeSlot(st, l, 1), 1, <<>>)
        <4>1. ScanStep(scan, r) = Scanning(removeSlot(st, l, 1), 1, <<>>)
          BY ONLY <2>3, <3>1, <1>5, RoundFound, Zenon
        <4>2. QED
          BY <1>3, <1>5, <4>1
      <3>3. Gone(list, r) /\ Stops(list, r)
        BY <1>7, <2>5 DEF Gone, Stops
      <3>4. QED
        BY <1>1, <1>3, <2>2, <3>2, <3>3 DEF Walked, WalksTo
    <2>6. CASE ~list[1].disposed /\ list[1].r # r
      <3> DEFINE two == 2
      <3>1. two = 1 + 1 /\ two \in Nat
        OBVIOUS
      <3>2. Past(st, l, two)
        BY <1>1, <2>1 DEF Past
      <3> HIDE DEF two
      <3>3. ~DisposedAt(st, l, 1) /\ ~IsAt(st, l, 1, r)
        BY <1>1, <2>6 DEF DisposedAt, IsAt
      <3>4. F[k + 1] = Scanning(st, two, todo)
        <4>1. ScanStep(scan, r) = Scanning(st, 1 + 1, todo)
          BY ONLY <2>3, <3>3, <1>5, RoundOther, Zenon
        <4>2. QED
          BY <1>3, <1>5, <3>1, <4>1
      <3>5. F[k + 2] = Scanning(st, 1, Tail(todo))
        BY <1>4, <3>1, <3>4, <3>2, RoundEnd
      <3>6. ~Gone(list, r) /\ ~Stops(list, r)
        BY <1>7, <2>6 DEF Gone, Stops
      <3>7. QED
        BY <1>1, <1>4, <2>2, <3>5, <3>6 DEF Walked, WalksTo
    <2>7. QED
      BY <2>4, <2>5, <2>6
  <1>8. QED
    BY <1>6, <1>7

(* A list that is walked keeps its type, and the others are not touched.   *)
LEMMA WalkedType ==
  ASSUME NEW st \in State, NEW l \in Lists, NEW r
  PROVE  /\ Walked(st, l, r) \in State
         /\ \A k \in Lists \ {l} : Walked(st, l, r).lists[k] = st.lists[k]
  <1>1. st.lists \in [Lists -> Seq(Slot)]
    BY DEF State
  <1>2. CASE Gone(st.lists[l], r)
    <2>1. st.lists[l] \in Seq(Slot) /\ st.lists[l] # <<>>
      BY <1>1, <1>2 DEF Gone
    <2>2. 1 \in 1 .. Len(st.lists[l])
      BY <2>1
    <2>3. removeSlot(st, l, 1) \in State
      BY <2>2, RemoveSlotType
    <2>4. \A k \in Lists \ {l} : removeSlot(st, l, 1).lists[k] = st.lists[k]
      BY <1>1 DEF removeSlot
    <2>5. QED
      BY <1>2, <2>3, <2>4 DEF Walked
  <1>3. CASE ~Gone(st.lists[l], r)
    BY <1>3 DEF Walked
  <1>4. QED
    BY <1>2, <1>3

(* Where lists hold one slot at most, disconnect does what it should. *)
LEMMA DisconnectNowIs ==
  ASSUME NEW st \in State, NEW r, \A l \in ListsFor(r) : Len(st.lists[l]) <= 1
  PROVE  disconnectNow(st, r) =
           IF r \in Functions THEN Walked(st, "Func", r)
           ELSE IF Stops(st.lists["Weak"], r) THEN Walked(st, "Weak", r)
           ELSE Walked(Walked(st, "Weak", r), "Strong", r)
  <1>1. PICK F : F = Scan(st, r)
    OBVIOUS
  <1>2. PICK N : N = slotCount(st.lists) + 2
    OBVIOUS
  <1>3. /\ \A k \in Nat : F[k + 1] = ScanStep(F[k], r)
        /\ F[0] = Scanning(st, 1, IF r \in Functions THEN <<"Func">> ELSE <<"Weak", "Strong">>)
    BY <1>1, ScanIs
  <1>4. \A l \in Lists : st.lists[l] \in Seq(Slot) /\ Len(st.lists[l]) \in Nat
    BY DEF State
  <1>5. /\ N \in Nat
        /\ \A l \in Lists : Len(st.lists[l]) + 1 <= N
        /\ Len(st.lists["Weak"]) + Len(st.lists["Strong"]) + 2 <= N
    <2>1. st.lists \in [Lists -> Seq(Slot)]
      BY DEF State
    <2>2. PICK c : c = slotCount(st.lists)
      OBVIOUS
    <2>3. c \in Nat /\ \A l \in Lists : Len(st.lists[l]) <= c
      BY <2>1, <2>2, Counted
    <2>4. /\ Len(st.lists["Func"]) \in Nat /\ Len(st.lists["Weak"]) \in Nat
          /\ Len(st.lists["Strong"]) \in Nat
      BY <1>4, ListNames
    <2>5. PICK a, b, d : a = Len(st.lists["Func"]) /\ b = Len(st.lists["Weak"]) /\ d = Len(st.lists["Strong"])
      OBVIOUS
    <2>6. a \in Nat /\ b \in Nat /\ d \in Nat /\ c = a + b + d
      BY <2>2, <2>4, <2>5 DEF slotCount
    <2>7. b + d + 2 <= N /\ N \in Nat /\ N = c + 2
      BY <1>2, <2>2, <2>6
    <2>8. ASSUME NEW l \in Lists
          PROVE  Len(st.lists[l]) + 1 <= N
      <3>1. PICK e : e = Len(st.lists[l])
        OBVIOUS
      <3>2. e \in Nat /\ e <= c
        BY <1>4, <2>3, <3>1
      <3>3. QED
        BY <2>3, <2>7, <3>1, <3>2
    <2>9. QED
      BY <2>5, <2>7, <2>8
  <1>6. disconnectNow(st, r) = F[N].st
    BY <1>1, <1>2 DEF disconnectNow
  <1>7. ASSUME NEW n \in Nat, n <= N, NEW s, F[n] = Scanning(s, 1, <<>>)
        PROVE  disconnectNow(st, r) = s
    <2>1. F[n].todo = <<>> /\ F[n].st = s
      BY <1>7 DEF Scanning
    <2>2. F[N] = F[n]
      BY <1>3, <1>5, <1>7, <2>1, ScanEnded
    <2>3. QED
      BY <1>6, <2>1, <2>2
  <1>8. \A l \in ListsFor(r) : l \in Lists /\ Len(st.lists[l]) <= 1
    BY ListNames DEF ListsFor
  <1>9. CASE r \in Functions
    <2>1. Len(st.lists["Func"]) <= 1 /\ "Func" \in Lists
      BY <1>8, <1>9 DEF ListsFor
    <2>2. PICK todo : todo = <<"Func">>
      OBVIOUS
    <2>3. todo # <<>> /\ Head(todo) = "Func" /\ Tail(todo) = <<>>
      BY <2>2
    <2>4. F[0] = Scanning(st, 1, todo)
      BY <1>3, <1>9, <2>2
    <2>5. PICK n : WalksTo(F, n, 0, st, "Func", todo, r)
      BY <1>3, <2>1, <2>3, <2>4, WalkList
    <2>6. n \in Nat /\ n <= 0 + 1 + Len(st.lists["Func"])
          /\ F[n] = Scanning(Walked(st, "Func", r), 1, <<>>)
      BY <2>3, <2>5 DEF WalksTo
    <2>7. n <= N
      <3>1. PICK a : a = Len(st.lists["Func"])
        OBVIOUS
      <3>2. a \in Nat /\ a + 1 <= N /\ n <= 0 + 1 + a
        BY <1>4, <1>5, <2>1, <2>6, <3>1
      <3>3. QED
        BY <1>5, <2>6, <3>2
    <2>8. QED
      BY <1>7, <1>9, <2>6, <2>7
  <1>10. CASE r \notin Functions
    <2>1. /\ Len(st.lists["Weak"]) <= 1 /\ "Weak" \in Lists
          /\ Len(st.lists["Strong"]) <= 1 /\ "Strong" \in Lists
      BY <1>8, <1>10 DEF ListsFor
    <2>2. PICK a : a = Len(st.lists["Weak"])
      OBVIOUS
    <2>3. PICK b : b = Len(st.lists["Strong"])
      OBVIOUS
    <2>4. a \in Nat /\ b \in Nat /\ a + b + 2 <= N
      BY <1>4, <1>5, <2>1, <2>2, <2>3
    <2>5. PICK todo : todo = <<"Weak", "Strong">>
      OBVIOUS
    <2>6. todo # <<>> /\ Head(todo) = "Weak" /\ Tail(todo) = <<"Strong">>
      BY <2>5
    <2>7. F[0] = Scanning(st, 1, todo)
      BY <1>3, <1>10, <2>5
    <2>8. PICK weak : weak = Walked(st, "Weak", r)
      OBVIOUS
    <2>9. PICK n : WalksTo(F, n, 0, st, "Weak", todo, r)
      BY <1>3, <2>1, <2>6, <2>7, WalkList
    <2>10. n \in Nat /\ n <= 0 + 1 + a
          /\ F[n] = Scanning(weak, 1, IF Stops(st.lists["Weak"], r) THEN <<>> ELSE Tail(todo))
      BY <2>8, <2>9, <2>2 DEF WalksTo
    <2>11. n <= N
      BY <1>5, <2>10, <2>4
    <2>12. CASE Stops(st.lists["Weak"], r)
      <3>1. F[n] = Scanning(weak, 1, <<>>)
        BY <2>10, <2>12
      <3>2. QED
        BY <1>7, <1>10, <2>8, <2>10, <2>11, <2>12, <3>1
    <2>13. CASE ~Stops(st.lists["Weak"], r)
      <3>1. F[n] = Scanning(weak, 1, <<"Strong">>)
        BY <2>6, <2>10, <2>13
      <3>2. weak \in State /\ weak.lists["Strong"] = st.lists["Strong"]
        BY <2>1, <2>8, WalkedType
      <3>3. PICK rest : rest = <<"Strong">>
        OBVIOUS
      <3>4. rest # <<>> /\ Head(rest) = "Strong" /\ Tail(rest) = <<>>
        BY <3>3
      <3>5. Len(weak.lists["Strong"]) <= 1 /\ F[n] = Scanning(weak, 1, rest)
        BY <2>1, <3>1, <3>2, <3>3
      <3>6. PICK j : WalksTo(F, j, n, weak, "Strong", rest, r)
        BY <1>3, <2>1, <2>10, <3>2, <3>4, <3>5, WalkList
      <3>7. j \in Nat /\ j <= n + 1 + b /\ F[j] = Scanning(Walked(weak, "Strong", r), 1, <<>>)
        BY <2>3, <3>2, <3>4, <3>6 DEF WalksTo
      <3>8. j <= N
        BY <1>5, <2>10, <2>4, <3>7
      <3>9. QED
        BY <1>7, <1>10, <2>8, <2>13, <3>7, <3>8
    <2>14. QED
      BY <2>12, <2>13
  <1>11. QED
    BY <1>9, <1>10
-----------------------------------------------------------------------------
(* Which slots SlotsTo and SlotsOf count *)
AllSlots == [Signals -> [Lists -> Seq(Slot)]]

(* What is in the set of the slots that refer to an object ...             *)
LEMMA InSlotsTo ==
  ASSUME NEW all, NEW o
  PROVE  /\ \A p \in SlotsTo(all, o) :
              \E s \in Signals, l \in Lists : \E i \in DOMAIN all[s][l] : p = <<s, l, i>>
         /\ \A s, l, i : <<s, l, i>> \in SlotsTo(all, o)
              <=> /\ s \in Signals /\ l \in Lists /\ i \in DOMAIN all[s][l]
                  /\ getObject(all[s][l][i]) = o
  <1> DEFINE U == UNION {UNION {{<<s, l, i>> : i \in DOMAIN all[s][l]} : l \in Lists} : s \in Signals}
  <1>1. \A p : p \in U <=> \E s \in Signals, l \in Lists : \E i \in DOMAIN all[s][l] : p = <<s, l, i>>
    OBVIOUS
  <1>2. SlotsTo(all, o) = {p \in U : getObject(all[p[1]][p[2]][p[3]]) = o}
    BY DEF SlotsTo
  <1> HIDE DEF U
  <1>3. \A s, l, i : <<s, l, i>> \in U <=> s \in Signals /\ l \in Lists /\ i \in DOMAIN all[s][l]
    BY <1>1
  <1>4. \A s, l, i : <<s, l, i>>[1] = s /\ <<s, l, i>>[2] = l /\ <<s, l, i>>[3] = i
    OBVIOUS
  <1>5. \A s, l, i : <<s, l, i>> \in SlotsTo(all, o)
                       <=> <<s, l, i>> \in U /\ getObject(all[s][l][i]) = o
    BY <1>2, <1>4
  <1>6. QED
    BY <1>1, <1>2, <1>3, <1>5

(* ... and in the set of the slots that call a receiver                    *)
LEMMA InSlotsOf ==
  ASSUME NEW lists, NEW r
  PROVE  /\ \A p \in SlotsOf(lists, r) :
              \E l \in Lists : \E i \in DOMAIN lists[l] : p = <<l, i>>
         /\ \A l, i : <<l, i>> \in SlotsOf(lists, r)
              <=> /\ l \in Lists /\ i \in DOMAIN lists[l]
                  /\ lists[l][i].r = r /\ ~lists[l][i].disposed
  <1> DEFINE U == UNION {{<<l, i>> : i \in DOMAIN lists[l]} : l \in Lists}
  <1>1. \A p : p \in U <=> \E l \in Lists : \E i \in DOMAIN lists[l] : p = <<l, i>>
    OBVIOUS
  <1>2. SlotsOf(lists, r) = {p \in U : lists[p[1]][p[2]].r = r /\ ~lists[p[1]][p[2]].disposed}
    BY DEF SlotsOf
  <1> HIDE DEF U
  <1>3. \A l, i : <<l, i>> \in U <=> l \in Lists /\ i \in DOMAIN lists[l]
    BY <1>1
  <1>4. \A l, i : <<l, i>>[1] = l /\ <<l, i>>[2] = i
    OBVIOUS
  <1>5. \A l, i : <<l, i>> \in SlotsOf(lists, r)
                    <=> <<l, i>> \in U /\ lists[l][i].r = r /\ ~lists[l][i].disposed
    BY <1>2, <1>4
  <1>6. QED
    BY <1>1, <1>2, <1>3, <1>5

(* A receiver has finitely many slots.                                     *)
LEMMA SlotsOfFinite ==
  ASSUME NEW lists \in [Lists -> Seq(Slot)], NEW r
  PROVE  IsFiniteSet(SlotsOf(lists, r)) /\ Cardinality(SlotsOf(lists, r)) \in Nat
  <1>1. PICK N : N = slotCount(lists)
    OBVIOUS
  <1>2. N \in Nat /\ \A l \in Lists : Len(lists[l]) <= N
    BY <1>1, Counted
  <1>3. IsFiniteSet(Lists) /\ IsFiniteSet(1 .. N)
    <2>1. Lists = ({"Func"} \cup {"Weak"}) \cup {"Strong"}
      BY ListNames
    <2>2. IsFiniteSet({"Func"}) /\ IsFiniteSet({"Weak"}) /\ IsFiniteSet({"Strong"})
      BY FS_Singleton
    <2>3. IsFiniteSet({"Func"} \cup {"Weak"})
      BY <2>2, FS_Union
    <2>4. IsFiniteSet(({"Func"} \cup {"Weak"}) \cup {"Strong"})
      BY <2>2, <2>3, FS_Union
    <2>5. 1 \in Int /\ N \in Int
      BY <1>2
    <2>6. IsFiniteSet(1 .. N)
      BY <2>5, FS_Interval
    <2>7. QED
      BY <2>1, <2>4, <2>6
  <1>4. IsFiniteSet(Lists \X (1 .. N))
    BY <1>3, FS_Product
  <1>5. SlotsOf(lists, r) \subseteq Lists \X (1 .. N)
    <2>1. ASSUME NEW p \in SlotsOf(lists, r)
          PROVE  p \in Lists \X (1 .. N)
      <3>1. PICK l, i : l \in Lists /\ i \in DOMAIN lists[l] /\ p = <<l, i>>
        BY InSlotsOf
      <3>2. lists[l] \in Seq(Slot)
        BY <3>1
      <3>3. i \in 1 .. Len(lists[l]) /\ Len(lists[l]) \in Nat
        BY <3>1, <3>2, LenProperties
      <3>4. PICK n : n = Len(lists[l])
        OBVIOUS
      <3>5. n \in Nat /\ n <= N /\ i \in 1 .. n
        BY <1>2, <3>1, <3>3, <3>4
      <3>6. i \in 1 .. N
        BY <1>2, <3>5
      <3>7. QED
        BY <3>1, <3>6
    <2>2. QED
      BY <2>1
  <1>6. QED
    BY <1>4, <1>5, FS_Subset, FS_CardinalityType

(* The same slots, whatever the marks of the properties say *)
SameSlots(a, b) ==
  \A l \in Lists : /\ Len(a[l]) = Len(b[l])
                   /\ \A i \in 1 .. Len(a[l]) : /\ a[l][i].r = b[l][i].r
                                                /\ a[l][i].disposed = b[l][i].disposed

(* Lists that differ in the marks of their slots only agree in all that    *)
(* the tables count ...                                                    *)
LEMMA Same ==
  ASSUME NEW a \in [Lists -> Seq(Slot)], NEW b \in [Lists -> Seq(Slot)], SameSlots(a, b)
  PROVE  /\ slotCount(a) = slotCount(b)
         /\ \A r : SlotsOf(a, r) = SlotsOf(b, r)
         /\ \A s \in Signals, l \in Lists : Fits(s, l, a[l]) => Fits(s, l, b[l])
         /\ \A l \in Lists : \A i \in DOMAIN a[l] : getObject(a[l][i]) = getObject(b[l][i])
         /\ \A l \in Lists : DOMAIN a[l] = DOMAIN b[l]
  <1>1. \A l \in Lists : /\ a[l] \in Seq(Slot) /\ b[l] \in Seq(Slot)
    OBVIOUS
  <1>2. \A l \in Lists : /\ DOMAIN a[l] = 1 .. Len(a[l])
                         /\ DOMAIN b[l] = 1 .. Len(a[l])
                         /\ Len(a[l]) = Len(b[l])
    BY <1>1, LenProperties DEF SameSlots
  <1>3. slotCount(a) = slotCount(b)
    BY <1>2, ListNames DEF slotCount
  <1>4. \A l \in Lists : \A i \in DOMAIN a[l] : /\ a[l][i].r = b[l][i].r
                                                /\ a[l][i].disposed = b[l][i].disposed
    BY <1>2 DEF SameSlots
  <1>5. ASSUME NEW r
        PROVE  SlotsOf(a, r) = SlotsOf(b, r)
    <2>1. ASSUME NEW l, NEW i
          PROVE  <<l, i>> \in SlotsOf(a, r) <=> <<l, i>> \in SlotsOf(b, r)
      <3>1. <<l, i>> \in SlotsOf(a, r)
              <=> l \in Lists /\ i \in DOMAIN a[l] /\ a[l][i].r = r /\ ~a[l][i].disposed
        BY InSlotsOf
      <3>2. <<l, i>> \in SlotsOf(b, r)
              <=> l \in Lists /\ i \in DOMAIN b[l] /\ b[l][i].r = r /\ ~b[l][i].disposed
        BY InSlotsOf
      <3>3. CASE l \in Lists /\ i \in DOMAIN a[l]
        <4>1. i \in DOMAIN b[l] /\ a[l][i].r = b[l][i].r /\ a[l][i].disposed = b[l][i].disposed
          BY <1>2, <1>4, <3>3
        <4>2. QED
          BY <3>1, <3>2, <3>3, <4>1
      <3>4. CASE ~(l \in Lists /\ i \in DOMAIN a[l])
        <4>1. ~(l \in Lists /\ i \in DOMAIN b[l])
          BY <1>2, <3>4
        <4>2. QED
          BY <3>1, <3>2, <3>4, <4>1
      <3>5. QED
        BY <3>3, <3>4
    <2>2. ASSUME NEW p \in SlotsOf(a, r)
          PROVE  p \in SlotsOf(b, r)
      <3>1. PICK l, i : p = <<l, i>>
        BY InSlotsOf
      <3>2. QED
        BY <2>1, <3>1
    <2>3. ASSUME NEW p \in SlotsOf(b, r)
          PROVE  p \in SlotsOf(a, r)
      <3>1. PICK l, i : p = <<l, i>>
        BY InSlotsOf
      <3>2. QED
        BY <2>1, <3>1
    <2>4. QED
      BY <2>2, <2>3
  <1>6. ASSUME NEW s \in Signals, NEW l \in Lists, Fits(s, l, a[l])
        PROVE  Fits(s, l, b[l])
    BY <1>2, <1>4, <1>6 DEF Fits
  <1>7. \A l \in Lists : \A i \in DOMAIN a[l] : getObject(a[l][i]) = getObject(b[l][i])
    BY <1>4 DEF getObject
  <1>8. QED
    BY <1>2, <1>3, <1>5, <1>6, <1>7

(* ... and so do the slots of all signals.                                 *)
LEMMA SameTo ==
  ASSUME NEW a \in AllSlots, NEW b \in AllSlots, \A s \in Signals : SameSlots(a[s], b[s]), NEW o
  PROVE  SlotsTo(a, o) = SlotsTo(b, o)
  <1>1. ASSUME NEW s \in Signals
        PROVE  /\ \A l \in Lists : \A i \in DOMAIN a[s][l] : getObject(a[s][l][i]) = getObject(b[s][l][i])
               /\ \A l \in Lists : DOMAIN a[s][l] = DOMAIN b[s][l]
    <2>1. a[s] \in [Lists -> Seq(Slot)] /\ b[s] \in [Lists -> Seq(Slot)]
      BY DEF AllSlots
    <2>2. QED
      BY <2>1, Same
  <1>2. ASSUME NEW s, NEW l, NEW i
        PROVE  <<s, l, i>> \in SlotsTo(a, o) <=> <<s, l, i>> \in SlotsTo(b, o)
    <2>1. /\ <<s, l, i>> \in SlotsTo(a, o)
               <=> /\ s \in Signals /\ l \in Lists /\ i \in DOMAIN a[s][l]
                   /\ getObject(a[s][l][i]) = o
          /\ <<s, l, i>> \in SlotsTo(b, o)
               <=> /\ s \in Signals /\ l \in Lists /\ i \in DOMAIN b[s][l]
                   /\ getObject(b[s][l][i]) = o
      BY InSlotsTo
    <2>2. CASE s \in Signals /\ l \in Lists
      <3>1. DOMAIN a[s][l] = DOMAIN b[s][l]
            /\ \A j \in DOMAIN a[s][l] : getObject(a[s][l][j]) = getObject(b[s][l][j])
        BY <1>1, <2>2
      <3>2. QED
        BY <2>1, <3>1
    <2>3. QED
      BY <2>1, <2>2
  <1>3. ASSUME NEW p \in SlotsTo(a, o)
        PROVE  p \in SlotsTo(b, o)
    <2>1. PICK s, l, i : p = <<s, l, i>>
      BY InSlotsTo
    <2>2. QED
      BY <1>2, <2>1
  <1>4. ASSUME NEW p \in SlotsTo(b, o)
        PROVE  p \in SlotsTo(a, o)
    <2>1. PICK s, l, i : p = <<s, l, i>>
      BY InSlotsTo
    <2>2. QED
      BY <1>2, <2>1
  <1>5. QED
    BY <1>3, <1>4
-----------------------------------------------------------------------------
(* What SlotsTo and SlotsOf count when a list of one slot is emptied, and  *)
(* when a slot is appended                                                 *)
LEMMA DropTo ==
  ASSUME NEW a \in AllSlots, NEW b \in AllSlots, NEW s \in Signals, NEW l \in Lists,
         Len(a[s][l]) = 1, Len(b[s][l]) = 0,
         \A s1 \in Signals, l1 \in Lists : s1 # s \/ l1 # l => b[s1][l1] = a[s1][l1], NEW o
  PROVE  /\ SlotsTo(b, o) = SlotsTo(a, o) \ {<<s, l, 1>>}
         /\ <<s, l, 1>> \in SlotsTo(a, o) <=> getObject(a[s][l][1]) = o
  <1>1. a[s][l] \in Seq(Slot) /\ b[s][l] \in Seq(Slot)
    BY DEF AllSlots
  <1>2. DOMAIN a[s][l] = {1} /\ DOMAIN b[s][l] = {}
    <2>1. DOMAIN a[s][l] = 1 .. 1 /\ DOMAIN b[s][l] = 1 .. 0
      BY <1>1, LenProperties
    <2>2. 1 .. 1 = {1} /\ 1 .. 0 = {}
      OBVIOUS
    <2>3. QED
      BY <2>1, <2>2
  <1>3. ASSUME NEW s1, NEW l1, NEW i
        PROVE  <<s1, l1, i>> \in SlotsTo(b, o)
                 <=> <<s1, l1, i>> \in SlotsTo(a, o) /\ <<s1, l1, i>> # <<s, l, 1>>
    <2>1. /\ <<s1, l1, i>> \in SlotsTo(a, o)
               <=> /\ s1 \in Signals /\ l1 \in Lists /\ i \in DOMAIN a[s1][l1]
                   /\ getObject(a[s1][l1][i]) = o
          /\ <<s1, l1, i>> \in SlotsTo(b, o)
               <=> /\ s1 \in Signals /\ l1 \in Lists /\ i \in DOMAIN b[s1][l1]
                   /\ getObject(b[s1][l1][i]) = o
      BY InSlotsTo
    <2>2. <<s1, l1, i>> # <<s, l, 1>> <=> s1 # s \/ l1 # l \/ i # 1
      OBVIOUS
    <2>3. CASE s1 = s /\ l1 = l
      BY <1>2, <2>1, <2>2, <2>3
    <2>4. CASE s1 # s \/ l1 # l
      <3>1. s1 \in Signals /\ l1 \in Lists => b[s1][l1] = a[s1][l1]
        BY <2>4
      <3>2. QED
        BY <2>1, <2>2, <2>4, <3>1
    <2>5. QED
      BY <2>3, <2>4
  <1>4. ASSUME NEW p \in SlotsTo(b, o)
        PROVE  p \in SlotsTo(a, o) \ {<<s, l, 1>>}
    <2>1. PICK s1, l1, i : p = <<s1, l1, i>>
      BY InSlotsTo
    <2>2. QED
      BY <1>3, <2>1
  <1>5. ASSUME NEW p \in SlotsTo(a, o) \ {<<s, l, 1>>}
        PROVE  p \in SlotsTo(b, o)
    <2>1. PICK s1, l1, i : p = <<s1, l1, i>>
      BY InSlotsTo
    <2>2. QED
      BY <1>3, <2>1
  <1>6. <<s, l, 1>> \in SlotsTo(a, o) <=> getObject(a[s][l][1]) = o
    <2>1. <<s, l, 1>> \in SlotsTo(a, o)
            <=> /\ s \in Signals /\ l \in Lists /\ 1 \in DOMAIN a[s][l]
                /\ getObject(a[s][l][1]) = o
      BY InSlotsTo
    <2>2. QED
      BY <1>2, <2>1
  <1>7. QED
    BY <1>4, <1>5, <1>6

(* b is a without the slot of list l: its slots that call r. *)
IsWithout(a, b, l, r) ==
  /\ SlotsOf(b, r) = SlotsOf(a, r) \ {<<l, 1>>}
  /\ <<l, 1>> \in SlotsOf(a, r) <=> a[l][1].r = r /\ ~a[l][1].disposed

(* A list that loses its only slot takes it from the slots of its          *)
(* receiver.                                                               *)
LEMMA DropOf ==
  ASSUME NEW a \in [Lists -> Seq(Slot)], NEW b \in [Lists -> Seq(Slot)], NEW l \in Lists,
         Len(a[l]) = 1, Len(b[l]) = 0, \A l1 \in Lists : l1 # l => b[l1] = a[l1], NEW r
  PROVE  IsWithout(a, b, l, r)
  <1>1. a[l] \in Seq(Slot) /\ b[l] \in Seq(Slot)
    OBVIOUS
  <1>2. DOMAIN a[l] = {1} /\ DOMAIN b[l] = {}
    <2>1. DOMAIN a[l] = 1 .. 1 /\ DOMAIN b[l] = 1 .. 0
      BY <1>1, LenProperties
    <2>2. 1 .. 1 = {1} /\ 1 .. 0 = {}
      OBVIOUS
    <2>3. QED
      BY <2>1, <2>2
  <1>3. ASSUME NEW l1, NEW i
        PROVE  <<l1, i>> \in SlotsOf(b, r) <=> <<l1, i>> \in SlotsOf(a, r) /\ <<l1, i>> # <<l, 1>>
    <2>1. /\ <<l1, i>> \in SlotsOf(a, r)
               <=> l1 \in Lists /\ i \in DOMAIN a[l1] /\ a[l1][i].r = r /\ ~a[l1][i].disposed
          /\ <<l1, i>> \in SlotsOf(b, r)
               <=> l1 \in Lists /\ i \in DOMAIN b[l1] /\ b[l1][i].r = r /\ ~b[l1][i].disposed
      BY InSlotsOf
    <2>2. <<l1, i>> # <<l, 1>> <=> l1 # l \/ i # 1
      OBVIOUS
    <2>3. CASE l1 = l
      BY <1>2, <2>1, <2>2, <2>3
    <2>4. CASE l1 # l
      <3>1. l1 \in Lists => b[l1] = a[l1]
        BY <2>4
      <3>2. QED
        BY <2>1, <2>2, <2>4, <3>1
    <2>5. QED
      BY <2>3, <2>4
  <1>4. ASSUME NEW p \in SlotsOf(b, r)
        PROVE  p \in SlotsOf(a, r) \ {<<l, 1>>}
    <2>1. PICK l1, i : p = <<l1, i>>
      BY InSlotsOf
    <2>2. QED
      BY <1>3, <2>1
  <1>5. ASSUME NEW p \in SlotsOf(a, r) \ {<<l, 1>>}
        PROVE  p \in SlotsOf(b, r)
    <2>1. PICK l1, i : p = <<l1, i>>
      BY InSlotsOf
    <2>2. QED
      BY <1>3, <2>1
  <1>6. <<l, 1>> \in SlotsOf(a, r) <=> a[l][1].r = r /\ ~a[l][1].disposed
    <2>1. <<l, 1>> \in SlotsOf(a, r)
            <=> l \in Lists /\ 1 \in DOMAIN a[l] /\ a[l][1].r = r /\ ~a[l][1].disposed
      BY InSlotsOf
    <2>2. QED
      BY <1>2, <2>1
  <1>7. QED
    BY <1>4, <1>5, <1>6 DEF IsWithout

(* A list that a slot is appended to                                       *)
LEMMA Appended ==
  ASSUME NEW a \in Seq(Slot), NEW slot \in Slot
  PROVE  /\ Append(a, slot) \in Seq(Slot)
         /\ DOMAIN a = 1 .. Len(a)
         /\ Len(a) \in Nat /\ Len(Append(a, slot)) = Len(a) + 1
         /\ DOMAIN Append(a, slot) = DOMAIN a \cup {Len(a) + 1}
         /\ Len(a) + 1 \notin DOMAIN a
         /\ \A i \in DOMAIN a : Append(a, slot)[i] = a[i]
         /\ Append(a, slot)[Len(a) + 1] = slot
  <1>1. PICK n : n = Len(a)
    OBVIOUS
  <1>2. n \in Nat /\ DOMAIN a = 1 .. n
    BY <1>1, LenProperties
  <1>3. /\ Append(a, slot) \in Seq(Slot)
        /\ Len(Append(a, slot)) = n + 1
        /\ \A i \in 1 .. n : Append(a, slot)[i] = a[i]
        /\ Append(a, slot)[n + 1] = slot
    BY <1>1, AppendProperties
  <1>4. DOMAIN Append(a, slot) = 1 .. (n + 1)
    BY <1>3, LenProperties
  <1>5. 1 .. (n + 1) = (1 .. n) \cup {n + 1} /\ n + 1 \notin 1 .. n
    BY <1>2
  <1>6. QED
    BY <1>1, <1>2, <1>3, <1>4, <1>5

Grown(A, B) == \E x : x \notin A /\ B = A \cup {x}

(* A slot that is appended counts for the object it refers to.             *)
LEMMA AddTo ==
  ASSUME NEW a \in AllSlots, NEW b \in AllSlots, NEW s \in Signals, NEW l \in Lists,
         NEW slot \in Slot, b[s][l] = Append(a[s][l], slot),
         \A s1 \in Signals, l1 \in Lists : s1 # s \/ l1 # l => b[s1][l1] = a[s1][l1], NEW o
  PROVE  /\ getObject(slot) = o => Grown(SlotsTo(a, o), SlotsTo(b, o))
         /\ getObject(slot) # o => SlotsTo(a, o) = SlotsTo(b, o)
  <1>1. PICK n : n = Len(a[s][l]) + 1
    OBVIOUS
  <1>2. /\ DOMAIN b[s][l] = DOMAIN a[s][l] \cup {n}
        /\ n \notin DOMAIN a[s][l]
        /\ \A i \in DOMAIN a[s][l] : b[s][l][i] = a[s][l][i]
        /\ b[s][l][n] = slot
    <2>1. a[s][l] \in Seq(Slot)
      BY DEF AllSlots
    <2>2. QED
      BY <1>1, <2>1, Appended
  <1>3. ASSUME NEW s1, NEW l1, NEW i
        PROVE  <<s1, l1, i>> \in SlotsTo(b, o)
                 <=> \/ <<s1, l1, i>> \in SlotsTo(a, o)
                     \/ getObject(slot) = o /\ <<s1, l1, i>> = <<s, l, n>>
    <2>1. /\ <<s1, l1, i>> \in SlotsTo(a, o)
               <=> /\ s1 \in Signals /\ l1 \in Lists /\ i \in DOMAIN a[s1][l1]
                   /\ getObject(a[s1][l1][i]) = o
          /\ <<s1, l1, i>> \in SlotsTo(b, o)
               <=> /\ s1 \in Signals /\ l1 \in Lists /\ i \in DOMAIN b[s1][l1]
                   /\ getObject(b[s1][l1][i]) = o
      BY InSlotsTo
    <2>2. <<s1, l1, i>> = <<s, l, n>> <=> s1 = s /\ l1 = l /\ i = n
      OBVIOUS
    <2>3. CASE s1 = s /\ l1 = l
      <3>1. CASE i = n
        BY <1>2, <2>1, <2>2, <2>3, <3>1
      <3>2. CASE i # n
        <4>1. i \in DOMAIN b[s][l] <=> i \in DOMAIN a[s][l]
          BY <1>2, <3>2
        <4>2. i \in DOMAIN a[s][l] => b[s][l][i] = a[s][l][i]
          BY <1>2
        <4>3. QED
          BY <2>1, <2>2, <2>3, <3>2, <4>1, <4>2
      <3>3. QED
        BY <3>1, <3>2
    <2>4. CASE s1 # s \/ l1 # l
      <3>1. s1 \in Signals /\ l1 \in Lists => b[s1][l1] = a[s1][l1]
        BY <2>4
      <3>2. QED
        BY <2>1, <2>2, <2>4, <3>1
    <2>5. QED
      BY <2>3, <2>4
  <1>4. <<s, l, n>> \notin SlotsTo(a, o)
    <2>1. <<s, l, n>> \in SlotsTo(a, o) => n \in DOMAIN a[s][l]
      BY InSlotsTo
    <2>2. QED
      BY <1>2, <2>1
  <1>5. ASSUME NEW p \in SlotsTo(b, o)
        PROVE  p \in SlotsTo(a, o) \/ (getObject(slot) = o /\ p = <<s, l, n>>)
    <2>1. PICK s1, l1, i : p = <<s1, l1, i>>
      BY InSlotsTo
    <2>2. QED
      BY <1>3, <2>1
  <1>6. ASSUME NEW p, p \in SlotsTo(a, o) \/ (getObject(slot) = o /\ p = <<s, l, n>>)
        PROVE  p \in SlotsTo(b, o)
    <2>1. PICK s1, l1, i : p = <<s1, l1, i>>
      BY <1>6, InSlotsTo
    <2>2. QED
      BY <1>3, <1>6, <2>1
  <1>7. SlotsTo(b, o) = IF getObject(slot) = o THEN SlotsTo(a, o) \cup {<<s, l, n>>} ELSE SlotsTo(a, o)
    BY <1>5, <1>6
  <1>8. QED
    BY <1>4, <1>7 DEF Grown
-----------------------------------------------------------------------------
(* Disconnections keep HandlerInv where lists hold one slot at most. *)
LEMMA Singleton ==
  ASSUME NEW st \in State, NEW l \in Lists, NEW s \in Signals, Fits(s, l, st.lists[l]),
         MaxSlots[s][l] <= 1, st.lists[l] # <<>>
  PROVE  /\ Len(st.lists[l]) = 1 /\ st.lists[l][1] \in Slot
         /\ 1 \in 1 .. Len(st.lists[l])
         /\ listRemove(st.lists[l], 1) \in Seq(Slot)
         /\ Len(listRemove(st.lists[l], 1)) = 0
  <1>1. PICK list : list = st.lists[l]
    OBVIOUS
  <1>2. list \in Seq(Slot) /\ list # <<>> /\ Len(list) \in Nat /\ Len(list) # 0
    <2>1. list \in Seq(Slot)
      BY <1>1 DEF State
    <2>2. QED
      BY <1>1, <2>1, EmptySeq
  <1>3. Len(list) = 1
    <2>1. PICK n, m : n = Len(list) /\ m = MaxSlots[s][l]
      OBVIOUS
    <2>2. n \in Nat /\ n # 0 /\ n <= m /\ m \in Nat /\ m <= 1
      BY <1>1, <1>2, <2>1, SignalAssumption DEF Fits
    <2>3. n = 1
      BY <2>2
    <2>4. QED
      BY <2>1, <2>3
  <1>4. 1 \in 1 .. Len(list)
    BY <1>3
  <1>5. list[1] \in Slot
    BY <1>2, <1>4, ElementOfSeq
  <1>6. /\ listRemove(list, 1) \in Seq(Slot)
        /\ Len(listRemove(list, 1)) = Len(list) - 1
    BY <1>2, <1>4, Removed
  <1>7. QED
    BY <1>1, <1>3, <1>4, <1>5, <1>6

(* removeSlot, on a list of one slot, keeps the tables in step with the    *)
(* slots;                                                                  *)
LEMMA ConsistentRemove ==
  ASSUME slots \in AllSlots, NEW s \in Signals, NEW st, Consistent(s, st), NEW l \in Lists,
         MaxSlots[s][l] <= 1, st.lists[l] # <<>>
  PROVE  Consistent(s, removeSlot(st, l, 1))
  <1>1. st \in State /\ Fits(s, l, st.lists[l]) /\ st.lists \in [Lists -> Seq(Slot)]
    BY DEF Consistent, State
  <1>2. PICK first : first = st.lists[l][1]
    OBVIOUS
  <1>3. PICK rest : rest = listRemove(st.lists[l], 1)
    OBVIOUS
  <1>4. /\ Len(st.lists[l]) = 1 /\ 1 \in 1 .. Len(st.lists[l]) /\ first \in Slot
        /\ rest \in Seq(Slot) /\ Len(rest) = 0
    BY <1>1, <1>2, <1>3, Singleton
  <1>5. PICK st2 : st2 = removeSlot(st, l, 1)
    OBVIOUS
  <1>6. st2 \in State
    BY <1>1, <1>4, <1>5, RemoveSlotType
  <1>7. /\ st2.lists = [st.lists EXCEPT ![l] = rest]
        /\ st2.refs = [o \in Objects |-> IF o = getObject(first) THEN st.refs[o] - 1 ELSE st.refs[o]]
        /\ st2.listening = (st.listening /\ slotCount(st2.lists) # 0)
    BY <1>1, <1>2, <1>3, <1>5 DEF removeSlot
  <1>8. st2.lists \in [Lists -> Seq(Slot)] /\ st2.lists[l] = rest
        /\ \A l1 \in Lists : l1 # l => st2.lists[l1] = st.lists[l1]
    BY <1>1, <1>4, <1>7
  <1>9. \A l1 \in Lists : Fits(s, l1, st2.lists[l1])
    <2>1. Fits(s, l, rest)
      <3>1. DOMAIN rest = 1 .. 0 /\ MaxSlots[s][l] \in Nat
        BY <1>4, LenProperties, SignalAssumption
      <3>2. DOMAIN rest = {}
        BY <3>1
      <3>3. QED
        BY <1>4, <3>1, <3>2 DEF Fits
    <2>2. QED
      BY <1>8, <2>1 DEF Consistent
  <1>10. st2.listening <=> slotCount(st2.lists) > 0
    <2>1. PICK m, n : m = slotCount(st.lists) /\ n = slotCount(st2.lists)
      OBVIOUS
    <2>2. /\ n \in Nat /\ (n = 0 <=> \A l1 \in Lists : st2.lists[l1] = <<>>)
      BY <1>8, <2>1, Counted
    <2>3. /\ m \in Nat /\ (m = 0 <=> \A l1 \in Lists : st.lists[l1] = <<>>)
      BY <1>1, <2>1, Counted
    <2>4. m # 0
      BY <2>3
    <2>5. st.listening <=> m > 0
      BY <2>1 DEF Consistent
    <2>6. st2.listening <=> st.listening /\ n # 0
      BY <1>7, <2>1
    <2>7. QED
      BY <2>1, <2>2, <2>3, <2>4, <2>5, <2>6
  <1>11. ASSUME NEW o \in Objects
         PROVE  /\ IsFiniteSet(SlotsTo([slots EXCEPT ![s] = st2.lists], o))
                /\ st2.refs[o] = Cardinality(SlotsTo([slots EXCEPT ![s] = st2.lists], o))
                /\ o \notin alive => st2.refs[o] = 0
    <2>1. PICK a, b : a = [slots EXCEPT ![s] = st.lists] /\ b = [slots EXCEPT ![s] = st2.lists]
      OBVIOUS
    <2>2. /\ a \in AllSlots /\ b \in AllSlots /\ a[s] = st.lists /\ b[s] = st2.lists
          /\ \A s1 \in Signals : s1 # s => b[s1] = a[s1]
      BY <1>1, <1>8, <2>1 DEF AllSlots
    <2>3. /\ Len(a[s][l]) = 1 /\ Len(b[s][l]) = 0 /\ a[s][l][1] = first
          /\ \A s1 \in Signals, l1 \in Lists : s1 # s \/ l1 # l => b[s1][l1] = a[s1][l1]
      BY <1>2, <1>4, <1>8, <2>2
    <2>4. /\ SlotsTo(b, o) = SlotsTo(a, o) \ {<<s, l, 1>>}
          /\ <<s, l, 1>> \in SlotsTo(a, o) <=> getObject(first) = o
      BY <2>2, <2>3, DropTo
    <2>5. PICK A, B, x : A = SlotsTo(a, o) /\ B = SlotsTo(b, o) /\ x = <<s, l, 1>>
      OBVIOUS
    <2>6. B = A \ {x} /\ (x \in A <=> getObject(first) = o)
      BY <2>4, <2>5
    <2>7. IsFiniteSet(A) /\ st.refs[o] = Cardinality(A) /\ (o \notin alive => st.refs[o] = 0)
      BY <2>1, <2>5 DEF Consistent
    <2>8. /\ Cardinality(A) \in Nat
          /\ IsFiniteSet(B) /\ Cardinality(B) \in Nat
          /\ Cardinality(B) = IF x \in A THEN Cardinality(A) - 1 ELSE Cardinality(A)
      BY <2>6, <2>7, FS_RemoveElement, FS_CardinalityType
    <2>9. st2.refs[o] = IF x \in A THEN st.refs[o] - 1 ELSE st.refs[o]
      BY <1>7, <2>6
    <2>10. st2.refs[o] = Cardinality(B)
      BY <2>7, <2>8, <2>9
    <2>11. o \notin alive => st2.refs[o] = 0
      BY <2>7, <2>8, <2>10
    <2>12. QED
      BY <2>1, <2>5, <2>8, <2>10, <2>11
  <1>12. Consistent(s, st2)
    BY <1>6, <1>9, <1>10, <1>11 DEF Consistent
  <1>13. QED
    BY <1>5, <1>12

(* so does walking such a list,                                            *)
LEMMA ConsistentWalk ==
  ASSUME slots \in AllSlots, NEW s \in Signals, NEW st, Consistent(s, st), NEW l \in Lists,
         MaxSlots[s][l] <= 1, NEW r
  PROVE  Consistent(s, Walked(st, l, r))
  <1>1. CASE Gone(st.lists[l], r)
    <2>1. st.lists[l] # <<>>
      BY <1>1 DEF Gone
    <2>2. Consistent(s, removeSlot(st, l, 1))
      BY <2>1, ConsistentRemove
    <2>3. QED
      BY <1>1, <2>2 DEF Walked
  <1>2. CASE ~Gone(st.lists[l], r)
    BY <1>2 DEF Walked
  <1>3. QED
    BY <1>1, <1>2

(* which all the lists are that a slot may be removed from;                *)
LEMMA ShortLists ==
  ASSUME NEW s \in Signals, NEW r, ~RemoveAny, MayRemove(s, r), NEW st, Consistent(s, st)
  PROVE  \A l \in ListsFor(r) : /\ l \in Lists /\ MaxSlots[s][l] <= 1
                                /\ Len(st.lists[l]) <= 1
  <1>1. SUFFICES ASSUME NEW l \in ListsFor(r)
                 PROVE  l \in Lists /\ MaxSlots[s][l] <= 1 /\ Len(st.lists[l]) <= 1
    OBVIOUS
  <1>2. l \in Lists
    BY ListNames DEF ListsFor
  <1>3. MaxSlots[s][l] <= 1
    BY DEF MayRemove
  <1>4. PICK m, n : m = MaxSlots[s][l] /\ n = Len(st.lists[l])
    OBVIOUS
  <1>5. n \in Nat /\ m \in Nat /\ n <= m /\ m <= 1
    BY <1>2, <1>3, <1>4, SignalAssumption DEF Consistent, State, Fits
  <1>6. n <= 1
    BY <1>5
  <1>7. QED
    BY <1>2, <1>3, <1>4, <1>6

(* so does disconnect,                                                     *)
LEMMA ConsistentDisconnect ==
  ASSUME slots \in AllSlots, NEW s \in Signals, NEW r, ~RemoveAny, MayRemove(s, r),
         NEW st, Consistent(s, st)
  PROVE  Consistent(s, disconnectNow(st, r))
  <1>1. st \in State
    BY DEF Consistent
  <1>2. \A l \in ListsFor(r) : l \in Lists /\ MaxSlots[s][l] <= 1 /\ Len(st.lists[l]) <= 1
    BY ShortLists
  <1>3. disconnectNow(st, r) =
           IF r \in Functions THEN Walked(st, "Func", r)
           ELSE IF Stops(st.lists["Weak"], r) THEN Walked(st, "Weak", r)
           ELSE Walked(Walked(st, "Weak", r), "Strong", r)
    BY <1>1, <1>2, DisconnectNowIs
  <1>4. CASE r \in Functions
    <2>1. "Func" \in Lists /\ MaxSlots[s]["Func"] <= 1
      BY <1>2, <1>4 DEF ListsFor
    <2>2. Consistent(s, Walked(st, "Func", r))
      BY <2>1, ConsistentWalk
    <2>3. QED
      BY <1>3, <1>4, <2>2
  <1>5. CASE r \notin Functions
    <2>1. /\ "Weak" \in Lists /\ MaxSlots[s]["Weak"] <= 1
          /\ "Strong" \in Lists /\ MaxSlots[s]["Strong"] <= 1
      BY <1>2, <1>5 DEF ListsFor
    <2>2. Consistent(s, Walked(st, "Weak", r))
      BY <2>1, ConsistentWalk
    <2>3. Consistent(s, Walked(Walked(st, "Weak", r), "Strong", r))
      BY <2>1, <2>2, ConsistentWalk
    <2>4. QED
      BY <1>3, <1>5, <2>2, <2>3
  <1>6. QED
    BY <1>4, <1>5
-----------------------------------------------------------------------------
(* The queue of delayed disconnections *)
LEMMA DisconnectNowType ==
  ASSUME NEW st \in State, NEW r
  PROVE  disconnectNow(st, r) \in State
  <1>1. PICK N : N = slotCount(st.lists) + 2
    OBVIOUS
  <1>2. N \in Nat
    BY <1>1, Counted DEF State
  <1>3. Scan(st, r)[N] \in ScanState
    BY <1>2, ScanIs
  <1>4. Scan(st, r)[N].st \in State
    BY <1>3 DEF ScanState
  <1>5. QED
    BY <1>1, <1>4 DEF disconnectNow

(* The loop of the delayed disconnections, round by round                  *)
LEMMA DisconnectAllIs ==
  ASSUME NEW st \in State, NEW queue
  PROVE  /\ DisconnectAll(st, queue)[0] = st
         /\ \A k \in Nat : /\ DisconnectAll(st, queue)[k] \in State
                           /\ DisconnectAll(st, queue)[k + 1]
                                = disconnectNow(DisconnectAll(st, queue)[k], queue[k + 1])
  <1> DEFINE step == [p \in Nat \X State |-> disconnectNow(p[2], queue[p[1] + 1])]
             Def(f) == [k \in Nat |-> IF k = 0 THEN st ELSE disconnectNow(f[k - 1], queue[k])]
  <1>1. step \in [Nat \X State -> State]
    BY DisconnectNowType
  <1>2. PICK f \in [Nat -> State] : f[0] = st /\ \A k \in Nat : f[k + 1] = step[<<k, f[k]>>]
    <2> HIDE DEF step
    <2>1. PICK f : IsLoop(f, State, st, step)
      BY <1>1, Recursion
    <2>2. QED
      BY <2>1 DEF IsLoop
  <1>3. ASSUME NEW k \in Nat
        PROVE  f[k + 1] = disconnectNow(f[k], queue[k + 1])
    <2>1. <<k, f[k]>> \in Nat \X State
      BY <1>2
    <2>2. step[<<k, f[k]>>] = disconnectNow(f[k], queue[k + 1])
      BY <2>1
    <2>3. QED
      BY <1>2, <2>2
  <1>4. f = Def(f)
    <2> HIDE DEF step
    <2>1. ASSUME NEW k \in Nat
          PROVE  f[k] = IF k = 0 THEN st ELSE disconnectNow(f[k - 1], queue[k])
      <3>1. CASE k = 0
        BY <1>2, <3>1
      <3>2. CASE k # 0
        <4>1. k - 1 \in Nat /\ (k - 1) + 1 = k
          BY <3>2
        <4>2. f[(k - 1) + 1] = disconnectNow(f[k - 1], queue[(k - 1) + 1])
          BY <1>3, <4>1
        <4>3. QED
          BY <4>1, <4>2, <3>2
      <3>3. QED
        BY <3>1, <3>2
    <2>2. QED
      BY <1>2, <2>1
  <1>5. DisconnectAll(st, queue) = CHOOSE g : g = Def(g)
    BY DEF DisconnectAll
  <1>6. PICK D : D = DisconnectAll(st, queue)
    OBVIOUS
  <1>7. D = Def(D)
    <2> HIDE DEF Def
    <2> QED
      BY <1>4, <1>5, <1>6
  <1>8. D[0] = st
    BY <1>7
  <1>9. ASSUME NEW k \in Nat
        PROVE  D[k + 1] = disconnectNow(D[k], queue[k + 1])
    <2>1. k + 1 \in Nat /\ k + 1 # 0 /\ (k + 1) - 1 = k
      OBVIOUS
    <2>2. QED
      BY <1>7, <2>1
  <1>10. \A k \in Nat : D[k] \in State
    <2> DEFINE S == {k \in Nat : D[k] \in State}
    <2>1. 0 \in S
      BY <1>8
    <2>2. \A k \in Nat : k \in S => k + 1 \in S
      BY <1>9, DisconnectNowType
    <2>3. Nat \subseteq S
      <3> HIDE DEF S
      <3> QED
        BY <2>1, <2>2, NatSetInduction
    <2>4. QED
      BY <2>3
  <1>11. QED
    BY <1>6, <1>8, <1>9, <1>10

(* ... and so does a whole queue of disconnections.                        *)
LEMMA ConsistentQueue ==
  ASSUME slots \in AllSlots, NEW s \in Signals, ~RemoveAny, NEW queue, NEW n \in Nat,
         \A k \in 1 .. n : MayRemove(s, queue[k]), NEW st, Consistent(s, st)
  PROVE  \A k \in 0 .. n : Consistent(s, DisconnectAll(st, queue)[k])
  <1>1. PICK D : D = DisconnectAll(st, queue)
    OBVIOUS
  <1>2. /\ D[0] = st
        /\ \A k \in Nat : D[k + 1] = disconnectNow(D[k], queue[k + 1])
    BY <1>1, DisconnectAllIs DEF Consistent
  <1> DEFINE S == {k \in Nat : k <= n => Consistent(s, D[k])}
  <1>3. 0 \in S
    BY <1>2
  <1>4. ASSUME NEW k \in Nat, k \in S
        PROVE  k + 1 \in S
    <2>1. SUFFICES ASSUME k + 1 <= n
                   PROVE  Consistent(s, D[k + 1])
      OBVIOUS
    <2>2. Consistent(s, D[k]) /\ k + 1 \in 1 .. n
      BY <1>4, <2>1
    <2>3. MayRemove(s, queue[k + 1])
      BY <2>2
    <2>4. Consistent(s, disconnectNow(D[k], queue[k + 1]))
      BY <2>2, <2>3, ConsistentDisconnect
    <2>5. QED
      BY <1>2, <2>4
  <1>5. Nat \subseteq S
    <2> HIDE DEF S
    <2> QED
      BY <1>3, <1>4, NatSetInduction
  <1>6. \A k \in 0 .. n : Consistent(s, D[k])
    BY <1>5
  <1>7. QED
    BY <1>1, <1>6
-----------------------------------------------------------------------------
(* HandlerInv seen from one signal *)
Tables == SlotsFit /\ CountsFinite /\ TablesMatchSlots

(* What HandlerInv says holds of the part of the state that belongs to     *)
(* one signal,                                                             *)
LEMMA ConsistentNow ==
  ASSUME TypeOK, Tables, NEW s \in Signals
  PROVE  slots \in AllSlots /\ Consistent(s, StateOf(s))
  <1>1. slots \in AllSlots
    BY DEF TypeOK, AllSlots
  <1>2. PICK st : st = StateOf(s)
    OBVIOUS
  <1>3. st.lists = slots[s] /\ st.refs = refs /\ st.listening = listening[s]
    BY <1>2 DEF StateOf
  <1>4. refs \in [Objects -> Int]
    BY DEF TypeOK
  <1>5. st \in State
    <2>1. slots[s] \in [Lists -> Seq(Slot)] /\ listening[s] \in BOOLEAN
      BY DEF TypeOK
    <2>2. QED
      BY <1>2, <1>4, <2>1 DEF State, StateOf
  <1>6. [slots EXCEPT ![s] = st.lists] = slots
    BY <1>1, <1>3 DEF AllSlots
  <1>7. \A l \in Lists : Fits(s, l, st.lists[l])
    BY <1>3 DEF Tables, SlotsFit
  <1>8. \A o \in Objects :
           /\ IsFiniteSet(SlotsTo([slots EXCEPT ![s] = st.lists], o))
           /\ st.refs[o] = Cardinality(SlotsTo([slots EXCEPT ![s] = st.lists], o))
           /\ o \notin alive => st.refs[o] = 0
    BY <1>3, <1>6 DEF Tables, CountsFinite, TablesMatchSlots
  <1>9. st.listening <=> slotCount(st.lists) > 0
    BY <1>3 DEF Tables, TablesMatchSlots
  <1>10. QED
    BY <1>1, <1>2, <1>5, <1>7, <1>8, <1>9 DEF Consistent

(* and if it holds of a new value for that part, it holds of the whole     *)
(* state with it.                                                          *)
LEMMA ConsistentThen ==
  ASSUME TypeOK, Tables, NEW s \in Signals, NEW st, Consistent(s, st), alive' = alive,
         slots' = [slots EXCEPT ![s] = st.lists], refs' = st.refs,
         listening' = [listening EXCEPT ![s] = st.listening]
  PROVE  /\ Tables'
         /\ slots' \in AllSlots /\ refs' \in [Objects -> Nat] /\ listening' \in [Signals -> BOOLEAN]
  <1>1. slots \in AllSlots /\ listening \in [Signals -> BOOLEAN]
    BY DEF TypeOK, AllSlots
  <1>2. /\ st.lists \in [Lists -> Seq(Slot)] /\ st.listening \in BOOLEAN
        /\ st.refs \in [Objects -> Int]
    BY DEF Consistent, State
  <1>3. slots' \in AllSlots /\ slots'[s] = st.lists
        /\ \A s1 \in Signals : s1 # s => slots'[s1] = slots[s1]
    BY <1>1, <1>2 DEF AllSlots
  <1>4. listening' \in [Signals -> BOOLEAN] /\ listening'[s] = st.listening
        /\ \A s1 \in Signals : s1 # s => listening'[s1] = listening[s1]
    BY <1>1, <1>2
  <1>5. \A o \in Objects : /\ IsFiniteSet(SlotsTo(slots', o))
                           /\ refs'[o] = Cardinality(SlotsTo(slots', o))
                           /\ o \notin alive' => refs'[o] = 0
    BY DEF Consistent
  <1>6. refs' \in [Objects -> Nat]
    BY <1>2, <1>5, FS_CardinalityType
  <1>7. SlotsFit'
    <2>1. ASSUME NEW s1 \in Signals, NEW l \in Lists
          PROVE  Fits(s1, l, slots'[s1][l])
      <3>1. CASE s1 = s
        BY <1>3, <3>1 DEF Consistent
      <3>2. CASE s1 # s
        BY <1>3, <3>2 DEF Tables, SlotsFit
      <3>3. QED
        BY <3>1, <3>2
    <2>2. QED
      BY <2>1 DEF SlotsFit, Fits
  <1>8. CountsFinite'
    BY <1>5 DEF CountsFinite
  <1>9. TablesMatchSlots'
    <2>1. ASSUME NEW s1 \in Signals
          PROVE  listening'[s1] <=> slotCount(slots'[s1]) > 0
      <3>1. CASE s1 = s
        BY <1>3, <1>4, <3>1 DEF Consistent
      <3>2. CASE s1 # s
        BY <1>3, <1>4, <3>2 DEF Tables, TablesMatchSlots
      <3>3. QED
        BY <3>1, <3>2
    <2>2. QED
      BY <1>5, <2>1 DEF TablesMatchSlots
  <1>10. QED
    BY <1>3, <1>4, <1>6, <1>7, <1>8, <1>9 DEF Tables

(* The marks of the slots do not matter to it,                             *)
LEMMA ConsistentSame ==
  ASSUME slots \in AllSlots, NEW s \in Signals, NEW st, Consistent(s, st),
         NEW lists \in [Lists -> Seq(Slot)], SameSlots(st.lists, lists)
  PROVE  Consistent(s, [st EXCEPT !.lists = lists])
  <1>1. st \in State /\ st.lists \in [Lists -> Seq(Slot)]
    BY DEF Consistent, State
  <1>2. PICK st2 : st2 = [st EXCEPT !.lists = lists]
    OBVIOUS
  <1>3. st2 \in State /\ st2.lists = lists /\ st2.refs = st.refs /\ st2.listening = st.listening
    BY <1>1, <1>2 DEF State
  <1>4. /\ slotCount(st.lists) = slotCount(lists)
        /\ \A l \in Lists : Fits(s, l, st.lists[l]) => Fits(s, l, lists[l])
    BY <1>1, Same
  <1>5. PICK a, b : a = [slots EXCEPT ![s] = st.lists] /\ b = [slots EXCEPT ![s] = lists]
    OBVIOUS
  <1>6. a \in AllSlots /\ b \in AllSlots /\ \A s1 \in Signals : SameSlots(a[s1], b[s1])
    <2>1. /\ a \in AllSlots /\ b \in AllSlots /\ a[s] = st.lists /\ b[s] = lists
          /\ \A s1 \in Signals : s1 # s => b[s1] = a[s1]
      BY <1>1, <1>5 DEF AllSlots
    <2>2. ASSUME NEW s1 \in Signals
          PROVE  SameSlots(a[s1], b[s1])
      <3>1. CASE s1 = s
        BY <2>1, <3>1
      <3>2. CASE s1 # s
        BY <2>1, <3>2 DEF SameSlots
      <3>3. QED
        BY <3>1, <3>2
    <2>3. QED
      BY <2>1, <2>2
  <1>7. \A o : SlotsTo(a, o) = SlotsTo(b, o)
    BY <1>6, SameTo
  <1>8. \A l \in Lists : Fits(s, l, st2.lists[l])
    BY <1>3, <1>4 DEF Consistent
  <1>9. \A o \in Objects :
           /\ IsFiniteSet(SlotsTo([slots EXCEPT ![s] = st2.lists], o))
           /\ st2.refs[o] = Cardinality(SlotsTo([slots EXCEPT ![s] = st2.lists], o))
           /\ o \notin alive => st2.refs[o] = 0
    <2>1. \A o \in Objects :
            /\ IsFiniteSet(SlotsTo(a, o)) /\ st.refs[o] = Cardinality(SlotsTo(a, o))
            /\ o \notin alive => st.refs[o] = 0
      BY <1>5 DEF Consistent
    <2>2. QED
      BY <1>3, <1>5, <1>7, <2>1
  <1>10. st2.listening <=> slotCount(st2.lists) > 0
    BY <1>3, <1>4 DEF Consistent
  <1>11. QED
    BY <1>2, <1>3, <1>8, <1>9, <1>10 DEF Consistent

(* and a slot that is connected is counted in.                             *)
LEMMA ConsistentAppend ==
  ASSUME slots \in AllSlots, NEW s \in Signals, NEW st, Consistent(s, st), NEW l \in Lists,
         NEW slot \in Slot, slot.r \in Functions <=> l = "Func", ~slot.disposed,
         Len(st.lists[l]) < MaxSlots[s][l],
         getObject(slot) # NULL => getObject(slot) \in alive,
         NEW st2, NEW after, after = [st.lists EXCEPT ![l] = Append(@, slot)],
         st2.lists = after, st2.listening = (st.listening \/ slotCount(after) = 1),
         st2.refs = [o \in Objects |-> IF o = getObject(slot) THEN st.refs[o] + 1 ELSE st.refs[o]],
         st2 \in State
  PROVE  Consistent(s, st2)
  <1>1. st \in State /\ st.lists \in [Lists -> Seq(Slot)] /\ st.lists[l] \in Seq(Slot)
        /\ st.listening \in BOOLEAN /\ st.refs \in [Objects -> Int]
    BY DEF Consistent, State
  <1>2. PICK list, longer : list = st.lists[l] /\ longer = Append(list, slot)
    OBVIOUS
  <1>3. PICK n : n = Len(list)
    OBVIOUS
  <1>4. /\ longer \in Seq(Slot) /\ n \in Nat /\ Len(longer) = n + 1
        /\ DOMAIN longer = DOMAIN list \cup {n + 1}
        /\ \A i \in DOMAIN list : longer[i] = list[i]
        /\ longer[n + 1] = slot
    BY <1>1, <1>2, <1>3, Appended
  <1>5. /\ after \in [Lists -> Seq(Slot)] /\ after[l] = longer
        /\ \A l1 \in Lists : l1 # l => after[l1] = st.lists[l1]
    BY <1>1, <1>2, <1>4
  <1>6. \A l1 \in Lists : Fits(s, l1, st2.lists[l1])
    <2>1. Fits(s, l, longer)
      <3>1. PICK m : m = MaxSlots[s][l]
        OBVIOUS
      <3>2. m \in Nat /\ n < m
        BY <1>2, <1>3, <3>1, SignalAssumption
      <3>3. n + 1 <= m
        BY <1>4, <3>2
      <3>4. Fits(s, l, list)
        BY <1>2 DEF Consistent
      <3>5. \A i \in DOMAIN longer : /\ longer[i].r \in Functions <=> l = "Func"
                                     /\ longer[i].disposed => MaxSlots[s][l] <= 1
        BY <1>4, <3>4 DEF Fits
      <3>6. QED
        BY <1>4, <3>1, <3>3, <3>5 DEF Fits
    <2>2. QED
      BY <1>5, <2>1 DEF Consistent
  <1>7. st2.listening <=> slotCount(st2.lists) > 0
    <2>1. slotCount(after) = slotCount(st.lists) + 1
      <3>1. /\ Len(st.lists["Func"]) \in Nat /\ Len(st.lists["Weak"]) \in Nat
            /\ Len(st.lists["Strong"]) \in Nat
        BY <1>1, ListNames
      <3>2. Len(after[l]) = Len(st.lists[l]) + 1
        BY <1>2, <1>3, <1>4, <1>5
      <3>3. \A l1 \in Lists : l1 # l => Len(after[l1]) = Len(st.lists[l1])
        BY <1>5
      <3>4. PICK a, b, c : a = Len(st.lists["Func"]) /\ b = Len(st.lists["Weak"])
                           /\ c = Len(st.lists["Strong"])
        OBVIOUS
      <3>5. PICK a1, b1, c1 : a1 = Len(after["Func"]) /\ b1 = Len(after["Weak"])
                              /\ c1 = Len(after["Strong"])
        OBVIOUS
      <3>6. \/ a1 = a + 1 /\ b1 = b /\ c1 = c
            \/ a1 = a /\ b1 = b + 1 /\ c1 = c
            \/ a1 = a /\ b1 = b /\ c1 = c + 1
        BY <3>2, <3>3, <3>4, <3>5, ListNames
      <3>7. a \in Nat /\ b \in Nat /\ c \in Nat
        BY <3>1, <3>4
      <3>8. a1 + b1 + c1 = (a + b + c) + 1
        BY ONLY <3>6, <3>7
      <3>9. QED
        BY <3>4, <3>5, <3>8 DEF slotCount
    <2>2. PICK m : m = slotCount(st.lists)
      OBVIOUS
    <2>3. m \in Nat
      BY <1>1, <2>2, Counted
    <2>4. st.listening <=> m > 0
      BY <2>2 DEF Consistent
    <2>5. slotCount(after) = m + 1
      BY <2>1, <2>2
    <2>6. st2.listening
      <3>1. CASE m = 0
        <4>1. slotCount(after) = 1
          BY <2>5, <3>1
        <4>2. QED
          BY <4>1
      <3>2. CASE m # 0
        <4>1. m > 0
          BY <2>3, <3>2
        <4>2. st.listening
          BY <2>4, <4>1
        <4>3. QED
          BY <4>2
      <3>3. QED
        BY <3>1, <3>2
    <2>7. QED
      BY <2>3, <2>5, <2>6
  <1>8. ASSUME NEW o \in Objects
        PROVE  /\ IsFiniteSet(SlotsTo([slots EXCEPT ![s] = st2.lists], o))
               /\ st2.refs[o] = Cardinality(SlotsTo([slots EXCEPT ![s] = st2.lists], o))
               /\ o \notin alive => st2.refs[o] = 0
    <2>1. PICK a, b : a = [slots EXCEPT ![s] = st.lists] /\ b = [slots EXCEPT ![s] = st2.lists]
      OBVIOUS
    <2>2. /\ a \in AllSlots /\ b \in AllSlots /\ a[s] = st.lists /\ b[s] = after
          /\ \A s1 \in Signals : s1 # s => b[s1] = a[s1]
      BY <1>1, <1>5, <2>1 DEF AllSlots
    <2>3. /\ b[s][l] = Append(a[s][l], slot)
          /\ \A s1 \in Signals, l1 \in Lists : s1 # s \/ l1 # l => b[s1][l1] = a[s1][l1]
      BY <1>2, <1>5, <2>2
    <2>4. /\ getObject(slot) = o => Grown(SlotsTo(a, o), SlotsTo(b, o))
          /\ getObject(slot) # o => SlotsTo(a, o) = SlotsTo(b, o)
      BY ONLY <2>2, <2>3, slot \in Slot, s \in Signals, l \in Lists, AddTo
    <2>5. PICK A, B : A = SlotsTo(a, o) /\ B = SlotsTo(b, o)
      OBVIOUS
    <2>6. IsFiniteSet(A) /\ st.refs[o] = Cardinality(A) /\ (o \notin alive => st.refs[o] = 0)
      BY <2>1, <2>5 DEF Consistent
    <2>7. CASE getObject(slot) = o
      <3>1. PICK x : B = A \cup {x} /\ x \notin A
        BY <2>4, <2>5, <2>7 DEF Grown
      <3>2. IsFiniteSet(B) /\ Cardinality(B) = Cardinality(A) + 1
        BY <2>6, <3>1, FS_AddElement
      <3>3. o \in alive
        BY <2>7, SignalAssumption
      <3>4. QED
        BY <2>1, <2>5, <2>6, <2>7, <3>2, <3>3
    <2>8. CASE getObject(slot) # o
      <3>1. B = A /\ st2.refs[o] = st.refs[o]
        BY <2>4, <2>5, <2>8
      <3>2. QED
        BY <2>1, <2>5, <2>6, <3>1
    <2>9. QED
      BY <2>7, <2>8
  <1>9. QED
    BY <1>6, <1>7, <1>8 DEF Consistent
-----------------------------------------------------------------------------
(* Steps that leave slots, counts and objects alone keep the tables;       *)
LEMMA TablesKept ==
  ASSUME Tables, UNCHANGED <<slots, refs, alive, listening>>
  PROVE  Tables'
  BY DEF Tables, SlotsFit, CountsFinite, TablesMatchSlots, Fits, SlotsTo

(* steps that leave the queues alone keep what is known of them.           *)
LEMMA DelayedKept ==
  ASSUME DelayedFit, UNCHANGED delayed
  PROVE  DelayedFit'
  BY DEF DelayedFit

(* The stack of emissions, when one begins and when the innermost goes on  *)
LEMMA Stacks ==
  ASSUME stack \in Seq(Frame), NEW frame \in Frame
  PROVE  /\ <<frame>> \o stack \in Seq(Frame)
         /\ stack # <<>> => /\ Head(stack) \in Frame /\ Tail(stack) \in Seq(Frame)
                            /\ <<frame>> \o Tail(stack) \in Seq(Frame)
  OBVIOUS

(* The innermost emission has a signal and, while it walks the lists, a    *)
(* list.                                                                   *)
LEMMA TopFrame ==
  ASSUME stack \in Seq(Frame), stack # <<>>
  PROVE  /\ Top \in Frame /\ Sig \in Signals /\ Top.list \in 1 .. 4 /\ Top.slotId \in Nat \ {0}
         /\ Top.lengths \in [Lists -> Int]
         /\ Top.list <= Len(ListOrder) => Top.list \in 1 .. 3 /\ List \in Lists
  <1>1. Top \in Frame
    BY DEF Top
  <1>2. Len(ListOrder) = 3 /\ \A i \in 1 .. 3 : ListOrder[i] \in Lists
    BY ListNames
  <1>3. PICK top : top = Top
    OBVIOUS
  <1>4. top.sig \in Signals /\ top.list \in 1 .. 3 + 1 /\ top.slotId \in Nat \ {0}
        /\ top.lengths \in [Lists -> Int]
    BY <1>1, <1>2, <1>3 DEF Frame
  <1>5. top.list <= 3 => top.list \in 1 .. 3
    BY <1>4
  <1>6. top.list \in 1 .. 4
    BY <1>4
  <1>7. QED
    BY <1>1, <1>2, <1>3, <1>4, <1>5, <1>6 DEF Sig, List

(* Calling a slot marks it and changes nothing else of it. *)
LEMMA CalledSame ==
  ASSUME NEW a \in [Lists -> Seq(Slot)], NEW l \in Lists, NEW i \in 1 .. Len(a[l]),
         NEW b, b = [a EXCEPT ![l][i].heard = @ + 1]
  PROVE  b \in [Lists -> Seq(Slot)] /\ SameSlots(a, b)
  <1>1. a[l] \in Seq(Slot)
    OBVIOUS
  <1>2. PICK slot : slot = [a[l][i] EXCEPT !.heard = @ + 1]
    OBVIOUS
  <1>3. a[l][i] \in Slot
    BY <1>1, ElementOfSeq
  <1>4. slot \in Slot /\ slot.r = a[l][i].r /\ slot.disposed = a[l][i].disposed
    <2>1. \A x \in Slot : /\ [x EXCEPT !.heard = @ + 1] \in Slot
                          /\ [x EXCEPT !.heard = @ + 1].r = x.r
                          /\ [x EXCEPT !.heard = @ + 1].disposed = x.disposed
      BY DEF Slot
    <2>2. QED
      BY <1>2, <1>3, <2>1
  <1>5. PICK list : list = [a[l] EXCEPT ![i] = slot]
    OBVIOUS
  <1>6. /\ list \in Seq(Slot) /\ Len(list) = Len(a[l])
        /\ \A j \in 1 .. Len(a[l]) : list[j] = IF j = i THEN slot ELSE a[l][j]
    BY <1>1, <1>4, <1>5, ExceptSeq
  <1>7. b = [a EXCEPT ![l] = list]
    BY <1>2, <1>5
  <1>8. b \in [Lists -> Seq(Slot)] /\ b[l] = list /\ \A l1 \in Lists : l1 # l => b[l1] = a[l1]
    BY <1>6, <1>7
  <1>9. SameSlots(a, b)
    <2>1. ASSUME NEW l1 \in Lists
          PROVE  /\ Len(a[l1]) = Len(b[l1])
                 /\ \A j \in 1 .. Len(a[l1]) : /\ a[l1][j].r = b[l1][j].r
                                               /\ a[l1][j].disposed = b[l1][j].disposed
      <3>1. CASE l1 = l
        BY <1>4, <1>6, <1>8, <3>1
      <3>2. CASE l1 # l
        BY <1>8, <3>2
      <3>3. QED
        BY <3>1, <3>2
    <2>2. QED
      BY <2>1 DEF SameSlots
  <1>10. QED
    BY <1>8, <1>9

(* So does the end of an emission. *)
LEMMA UnmarkedSame ==
  ASSUME NEW a \in [Lists -> Seq(Slot)], NEW s
  PROVE  Unmarked(s, a) \in [Lists -> Seq(Slot)] /\ SameSlots(a, Unmarked(s, a))
  <1>1. CASE Emitting(s, Tail(stack))
    BY <1>1 DEF Unmarked, SameSlots
  <1>2. CASE ~Emitting(s, Tail(stack))
    <2>1. PICK b : b = Unmarked(s, a)
      OBVIOUS
    <2>2. b = [l \in Lists |-> [i \in DOMAIN a[l] |-> [a[l][i] EXCEPT !.late = FALSE, !.heard = 0]]]
      BY <1>2, <2>1 DEF Unmarked
    <2>3. ASSUME NEW l \in Lists
          PROVE  /\ b[l] \in Seq(Slot) /\ Len(a[l]) = Len(b[l])
                 /\ \A i \in 1 .. Len(a[l]) : /\ a[l][i].r = b[l][i].r
                                              /\ a[l][i].disposed = b[l][i].disposed
      <3>1. PICK n : n = Len(a[l])
        OBVIOUS
      <3>2. a[l] \in Seq(Slot) /\ n \in Nat /\ DOMAIN a[l] = 1 .. n
            /\ \A i \in 1 .. n : a[l][i] \in Slot
        <4>1. a[l] \in Seq(Slot)
          OBVIOUS
        <4>2. QED
          BY <3>1, <4>1, LenProperties, ElementOfSeq
      <3>3. /\ b[l] = [i \in 1 .. n |-> [a[l][i] EXCEPT !.late = FALSE, !.heard = 0]]
        BY <2>2, <3>2
      <3>4. \A i \in 1 .. n : /\ [a[l][i] EXCEPT !.late = FALSE, !.heard = 0] \in Slot
                              /\ [a[l][i] EXCEPT !.late = FALSE, !.heard = 0].r = a[l][i].r
                              /\ [a[l][i] EXCEPT !.late = FALSE, !.heard = 0].disposed = a[l][i].disposed
        <4>1. \A x \in Slot : /\ [x EXCEPT !.late = FALSE, !.heard = 0] \in Slot
                              /\ [x EXCEPT !.late = FALSE, !.heard = 0].r = x.r
                              /\ [x EXCEPT !.late = FALSE, !.heard = 0].disposed = x.disposed
          BY DEF Slot
        <4>2. QED
          BY <3>2, <4>1
      <3>5. b[l] \in [1 .. n -> Slot]
        BY <3>3, <3>4
      <3>6. b[l] \in Seq(Slot) /\ Len(b[l]) = n
        BY <3>2, <3>5, FunctionIsSeq
      <3>7. \A i \in 1 .. n : a[l][i].r = b[l][i].r /\ a[l][i].disposed = b[l][i].disposed
        BY <3>3, <3>4
      <3>8. QED
        BY <3>1, <3>6, <3>7
    <2>4. b \in [Lists -> Seq(Slot)]
      BY <2>2, <2>3
    <2>5. SameSlots(a, b)
      BY <2>3 DEF SameSlots
    <2>6. QED
      BY <2>1, <2>4, <2>5
  <1>3. QED
    BY <1>1, <1>2

(* The slots of a destroyed receiver are marked. *)
LEMMA DisposedTables ==
  ASSUME TypeOK, Tables, ~RemoveAny, NEW o \in Objects, onReceiverDisposed(o)
  PROVE  Tables' /\ slots' \in AllSlots /\ refs' \in [Objects -> Nat]
  <1>1. slots \in AllSlots /\ refs \in [Objects -> Nat]
    BY DEF TypeOK, AllSlots
  <1>2. CASE refs[o] = 0
    <2>1. UNCHANGED <<slots, refs, listening>> /\ alive' = alive \ {o}
      BY <1>2 DEF onReceiverDisposed
    <2>2. SlotsFit' /\ CountsFinite'
      BY <2>1 DEF Tables, SlotsFit, CountsFinite, Fits, SlotsTo
    <2>3. TablesMatchSlots'
      BY <1>2, <2>1 DEF Tables, TablesMatchSlots, SlotsTo
    <2>4. QED
      BY <1>1, <2>1, <2>2, <2>3 DEF Tables
  <1>3. CASE refs[o] # 0
    <2> DEFINE mark(slot) == IF getObject(slot) = o THEN [slot EXCEPT !.disposed = TRUE] ELSE slot
    <2>1. /\ alive' = alive \ {o} /\ refs' = [refs EXCEPT ![o] = 0] /\ listening' = listening
          /\ slots' = [s \in Signals |-> [l \in Lists |-> [i \in DOMAIN slots[s][l] |-> mark(slots[s][l][i])]]]
      BY <1>3 DEF onReceiverDisposed
    <2>2. \A x \in Slot : /\ mark(x) \in Slot /\ mark(x).r = x.r
                          /\ (mark(x).disposed /\ ~x.disposed => getObject(x) = o)
                          /\ (\A p \in Objects : getObject(mark(x)) = p <=> p # o /\ getObject(x) = p)
      BY SignalAssumption DEF Slot, getObject
    <2> HIDE DEF mark
    <2>3. ASSUME NEW s \in Signals, NEW l \in Lists
          PROVE  /\ slots[s][l] \in Seq(Slot) /\ slots'[s][l] \in Seq(Slot)
                 /\ Len(slots'[s][l]) = Len(slots[s][l])
                 /\ DOMAIN slots'[s][l] = DOMAIN slots[s][l]
                 /\ \A i \in DOMAIN slots[s][l] : /\ slots[s][l][i] \in Slot
                                                  /\ slots'[s][l][i] = mark(slots[s][l][i])
      <3>1. PICK a : a = slots[s][l]
        OBVIOUS
      <3>2. a \in Seq(Slot)
        BY <1>1, <3>1 DEF AllSlots
      <3>3. PICK n : n = Len(a)
        OBVIOUS
      <3>4. n \in Nat /\ DOMAIN a = 1 .. n /\ \A i \in 1 .. n : a[i] \in Slot
        BY <3>2, <3>3, LenProperties, ElementOfSeq
      <3>5. slots'[s][l] = [i \in 1 .. n |-> mark(a[i])]
        BY <2>1, <3>1, <3>4
      <3>6. slots'[s][l] \in [1 .. n -> Slot]
        BY <2>2, <3>4, <3>5
      <3>7. slots'[s][l] \in Seq(Slot) /\ Len(slots'[s][l]) = n /\ DOMAIN slots'[s][l] = 1 .. n
        BY <3>4, <3>6, FunctionIsSeq
      <3>8. QED
        BY <3>1, <3>2, <3>3, <3>4, <3>5, <3>7
    <2>4. slots' \in AllSlots
      <3>1. slots' = [s \in Signals |-> [l \in Lists |-> slots'[s][l]]]
        BY <2>1
      <3>2. QED
        BY <2>3, <3>1 DEF AllSlots
    <2>5. refs' \in [Objects -> Nat]
      BY <1>1, <2>1
    <2>6. SlotsFit'
      <3>1. ASSUME NEW s \in Signals, NEW l \in Lists
            PROVE  Fits(s, l, slots'[s][l])
        <4>1. Fits(s, l, slots[s][l])
          BY DEF Tables, SlotsFit
        <4>2. Len(slots'[s][l]) <= MaxSlots[s][l]
          BY <2>3, <4>1 DEF Fits
        <4>3. ASSUME NEW i \in DOMAIN slots[s][l]
              PROVE  /\ slots'[s][l][i].r \in Functions <=> l = "Func"
                     /\ slots'[s][l][i].disposed => MaxSlots[s][l] <= 1
          <5>1. PICK x : x = slots[s][l][i]
            OBVIOUS
          <5>2. x \in Slot /\ slots'[s][l][i] = mark(x)
            BY <2>3, <5>1
          <5>3. (x.r \in Functions <=> l = "Func") /\ (x.disposed => MaxSlots[s][l] <= 1)
            BY <4>1, <5>1 DEF Fits
          <5>4. mark(x).disposed /\ ~x.disposed => MaxSlots[s][l] <= 1
            <6>1. SUFFICES ASSUME getObject(x) = o
                           PROVE  MaxSlots[s][l] <= 1
              BY <2>2, <5>2
            <6>2. x.r \in Delegates /\ x.r \notin Functions /\ ObjectOf[x.r] = o
              BY <6>1, <5>2, SignalAssumption DEF getObject, Slot, Receivers
            <6>3. l \in {"Weak", "Strong"}
              BY <5>3, <6>2, ListNames
            <6>4. MayRemove(s, x.r)
              BY <6>2 DEF onReceiverDisposed, MayDispose
            <6>5. QED
              BY <6>2, <6>3, <6>4 DEF MayRemove, ListsFor
          <5>5. mark(x).r = x.r
            BY <2>2, <5>2
          <5>6. QED
            BY <5>2, <5>3, <5>4, <5>5
        <4>4. QED
          BY <2>3, <4>2, <4>3 DEF Fits
      <3>2. QED
        BY <3>1 DEF SlotsFit, Fits
    <2>7. ASSUME NEW p \in Objects
          PROVE  SlotsTo(slots', p) = IF p = o THEN {} ELSE SlotsTo(slots, p)
      <3>1. ASSUME NEW s, NEW l, NEW i
            PROVE  <<s, l, i>> \in SlotsTo(slots', p) <=> p # o /\ <<s, l, i>> \in SlotsTo(slots, p)
        <4>1. /\ <<s, l, i>> \in SlotsTo(slots, p)
                   <=> /\ s \in Signals /\ l \in Lists /\ i \in DOMAIN slots[s][l]
                       /\ getObject(slots[s][l][i]) = p
              /\ <<s, l, i>> \in SlotsTo(slots', p)
                   <=> /\ s \in Signals /\ l \in Lists /\ i \in DOMAIN slots'[s][l]
                       /\ getObject(slots'[s][l][i]) = p
          BY InSlotsTo
        <4>2. CASE s \in Signals /\ l \in Lists /\ i \in DOMAIN slots[s][l]
          <5>1. PICK x : x = slots[s][l][i]
            OBVIOUS
          <5>2. x \in Slot /\ slots'[s][l][i] = mark(x) /\ DOMAIN slots'[s][l] = DOMAIN slots[s][l]
            BY <2>3, <4>2, <5>1
          <5>3. getObject(mark(x)) = p <=> p # o /\ getObject(x) = p
            BY <2>2, <5>2
          <5>4. QED
            BY <4>1, <4>2, <5>1, <5>2, <5>3
        <4>3. CASE ~(s \in Signals /\ l \in Lists /\ i \in DOMAIN slots[s][l])
          <5>1. ~(s \in Signals /\ l \in Lists /\ i \in DOMAIN slots'[s][l])
            BY <2>3, <4>3
          <5>2. QED
            BY <4>1, <4>3, <5>1
        <4>4. QED
          BY <4>2, <4>3
      <3>2. \A q \in SlotsTo(slots', p) : p # o /\ q \in SlotsTo(slots, p)
        <4>1. SUFFICES ASSUME NEW q \in SlotsTo(slots', p)
                       PROVE  p # o /\ q \in SlotsTo(slots, p)
          OBVIOUS
        <4>2. PICK s, l, i : q = <<s, l, i>>
          BY InSlotsTo
        <4>3. QED
          BY <3>1, <4>2
      <3>3. \A q \in SlotsTo(slots, p) : p # o => q \in SlotsTo(slots', p)
        <4>1. SUFFICES ASSUME NEW q \in SlotsTo(slots, p), p # o
                       PROVE  q \in SlotsTo(slots', p)
          OBVIOUS
        <4>2. PICK s, l, i : q = <<s, l, i>>
          BY InSlotsTo
        <4>3. QED
          BY <3>1, <4>1, <4>2
      <3>4. QED
        BY <3>2, <3>3
    <2>8. CountsFinite'
      <3>1. ASSUME NEW p \in Objects
            PROVE  IsFiniteSet(SlotsTo(slots', p))
        BY <2>7, FS_EmptySet DEF Tables, CountsFinite
      <3>2. QED
        BY <3>1 DEF CountsFinite
    <2>9. \A p \in Objects : /\ refs'[p] = Cardinality(SlotsTo(slots', p))
                             /\ p \notin alive' => refs'[p] = 0
      <3>1. SUFFICES ASSUME NEW p \in Objects
                     PROVE  /\ refs'[p] = Cardinality(SlotsTo(slots', p))
                            /\ p \notin alive' => refs'[p] = 0
        OBVIOUS
      <3>2. CASE p = o
        <4>1. refs'[p] = 0 /\ Cardinality(SlotsTo(slots', p)) = 0
          BY <1>1, <2>1, <2>7, <3>2, FS_EmptySet
        <4>2. QED
          BY <4>1
      <3>3. CASE p # o
        <4>1. refs'[p] = refs[p] /\ SlotsTo(slots', p) = SlotsTo(slots, p)
          BY <1>1, <2>1, <2>7, <3>3
        <4>2. refs[p] = Cardinality(SlotsTo(slots, p)) /\ (p \notin alive => refs[p] = 0)
          BY DEF Tables, TablesMatchSlots
        <4>3. p \notin alive' => p \notin alive
          BY <2>1, <3>3
        <4>4. QED
          BY <4>1, <4>2, <4>3
      <3>4. QED
        BY <3>2, <3>3
    <2>10. \A s \in Signals : listening'[s] <=> slotCount(slots'[s]) > 0
      <3>1. SUFFICES ASSUME NEW s \in Signals
                     PROVE  listening'[s] <=> slotCount(slots'[s]) > 0
        OBVIOUS
      <3>2. slotCount(slots'[s]) = slotCount(slots[s])
        BY <2>3, ListNames DEF slotCount
      <3>3. QED
        BY <2>1, <3>2 DEF Tables, TablesMatchSlots
    <2>11. TablesMatchSlots'
      BY <2>9, <2>10 DEF TablesMatchSlots
    <2>12. QED
      BY <2>4, <2>5, <2>6, <2>8, <2>11 DEF Tables
  <1>4. QED
    BY <1>2, <1>3
-----------------------------------------------------------------------------
(* One lemma per group of actions: HandlerInv is kept *)
LEMMA ConnectKeeps ==
  ASSUME HandlerInv, NEW s \in Signals, NEW r \in Receivers, NEW l \in Lists, connect(s, r, l)
  PROVE  HandlerInv'
  <1>1. TypeOK /\ Tables /\ DelayedFit
    BY DEF HandlerInv, Tables
  <1>2. slots \in AllSlots /\ Consistent(s, StateOf(s))
    BY <1>1, ConsistentNow
  <1>3. PICK obj : obj = IF r \in Functions THEN NULL ELSE ObjectOf[r]
    OBVIOUS
  <1>4. PICK slot : slot = [r |-> r, disposed |-> FALSE, late |-> Emitting(s, stack), heard |-> 0]
    OBVIOUS
  <1>5. PICK after : after = [slots[s] EXCEPT ![l] = Append(@, slot)]
    OBVIOUS
  <1>6. /\ l \in ListsFor(r) /\ Len(slots[s][l]) < MaxSlots[s][l]
        /\ obj # NULL => obj \in alive
        /\ slots' = [slots EXCEPT ![s] = after]
        /\ refs' = [o \in Objects |-> IF o = obj THEN refs[o] + 1 ELSE refs[o]]
        /\ listening' = [listening EXCEPT ![s] = @ \/ slotCount(after) = 1]
        /\ allocated' = IF s < allocated THEN allocated ELSE s + 1
        /\ UNCHANGED <<isInUse, delayed, alive, blocked, signalSender, stack>>
    BY <1>3, <1>4, <1>5 DEF connect
  <1>7. slot \in Slot /\ slot.r = r /\ ~slot.disposed
    BY <1>4 DEF Slot, Emitting
  <1>8. getObject(slot) = obj
    BY <1>3, <1>7 DEF getObject
  <1>9. r \in Functions <=> l = "Func"
    BY <1>6 DEF ListsFor
  <1>10. PICK st : st = StateOf(s)
    OBVIOUS
  <1>11. st.lists = slots[s] /\ st.refs = refs /\ st.listening = listening[s]
    BY <1>10 DEF StateOf
  <1>12. PICK st2 : st2 = [lists |-> after, refs |-> [o \in Objects |-> IF o = obj THEN refs[o] + 1 ELSE refs[o]],
                           listening |-> (listening[s] \/ slotCount(after) = 1)]
    OBVIOUS
  <1>13. /\ st2.lists = after
         /\ st2.refs = [o \in Objects |-> IF o = obj THEN refs[o] + 1 ELSE refs[o]]
         /\ st2.listening = (listening[s] \/ slotCount(after) = 1)
    BY <1>12
  <1>14. st2 \in State
    <2>1. slots[s] \in [Lists -> Seq(Slot)] /\ slots[s][l] \in Seq(Slot)
          /\ refs \in [Objects -> Nat]
      BY <1>1 DEF TypeOK
    <2>2. Append(slots[s][l], slot) \in Seq(Slot)
      BY <1>7, <2>1, AppendProperties
    <2>3. after \in [Lists -> Seq(Slot)]
      BY <1>5, <2>1, <2>2
    <2>4. (listening[s] \/ slotCount(after) = 1) \in BOOLEAN
      OBVIOUS
    <2>5. [o \in Objects |-> IF o = obj THEN refs[o] + 1 ELSE refs[o]] \in [Objects -> Int]
      BY <2>1
    <2>6. QED
      BY <1>12, <2>3, <2>4, <2>5 DEF State
  <1>15. Consistent(s, st2)
    <2>1. /\ st2.listening = (st.listening \/ slotCount(after) = 1)
          /\ st2.refs = [o \in Objects |-> IF o = getObject(slot) THEN st.refs[o] + 1 ELSE st.refs[o]]
          /\ after = [st.lists EXCEPT ![l] = Append(@, slot)]
      BY <1>5, <1>8, <1>11, <1>13
    <2>2. /\ slot.r \in Functions <=> l = "Func"
          /\ Len(st.lists[l]) < MaxSlots[s][l]
          /\ getObject(slot) # NULL => getObject(slot) \in alive
      BY <1>6, <1>7, <1>8, <1>9, <1>11
    <2>3. Consistent(s, st) /\ st2.lists = after
      BY <1>2, <1>10, <1>13
    <2>4. QED
      BY ONLY <1>2, <1>7, <1>14, <2>1, <2>2, <2>3, s \in Signals, l \in Lists, ConsistentAppend
  <1>16. /\ Tables' /\ slots' \in AllSlots /\ refs' \in [Objects -> Nat]
         /\ listening' \in [Signals -> BOOLEAN]
    <2>1. /\ slots' = [slots EXCEPT ![s] = st2.lists] /\ refs' = st2.refs
          /\ listening' = [listening EXCEPT ![s] = st2.listening] /\ alive' = alive
      BY <1>6, <1>13
    <2>2. QED
      BY <1>1, <1>15, <2>1, ConsistentThen
  <1>17. allocated' \in 0 .. LastSignal + 1
    BY <1>1, <1>6, SignalAssumption DEF TypeOK, Signals
  <1>18. TypeOK'
    BY <1>1, <1>6, <1>16, <1>17 DEF TypeOK, AllSlots
  <1>19. DelayedFit'
    BY <1>1, <1>6, DelayedKept
  <1>20. QED
    BY <1>16, <1>18, <1>19 DEF HandlerInv, Tables

(* An action that replaces the state of one signal by another consistent   *)
(* one                                                                     *)
LEMMA SetKeeps ==
  ASSUME HandlerInv, NEW s \in Signals, NEW st, Consistent(s, st), SetState(s, st), alive' = alive
  PROVE  /\ Tables' /\ slots' \in AllSlots /\ refs' \in [Objects -> Nat]
         /\ listening' \in [Signals -> BOOLEAN]
  <1>1. TypeOK /\ Tables
    BY DEF HandlerInv, Tables
  <1>2. /\ slots' = [slots EXCEPT ![s] = st.lists] /\ refs' = st.refs
        /\ listening' = [listening EXCEPT ![s] = st.listening]
    BY DEF SetState
  <1>3. QED
    BY <1>1, <1>2, ConsistentThen

(* disconnect keeps HandlerInv,                                            *)
LEMMA DisconnectKeeps ==
  ASSUME ~RemoveAny, HandlerInv, NEW s \in Signals, NEW r \in Receivers, disconnect(s, r)
  PROVE  HandlerInv'
  <1>1. TypeOK /\ Tables /\ DelayedFit
    BY DEF HandlerInv, Tables
  <1>2. slots \in AllSlots /\ Consistent(s, StateOf(s))
    BY <1>1, ConsistentNow
  <1>3. PICK st : st = disconnectNow(StateOf(s), r)
    OBVIOUS
  <1>4. /\ MayRemove(s, r) /\ SetState(s, st)
        /\ UNCHANGED <<isInUse, delayed, allocated, alive, blocked, signalSender, stack>>
    BY <1>3 DEF disconnect
  <1>5. Consistent(s, st)
    BY <1>2, <1>3, <1>4, ConsistentDisconnect
  <1>6. /\ Tables' /\ slots' \in AllSlots /\ refs' \in [Objects -> Nat]
        /\ listening' \in [Signals -> BOOLEAN]
    BY <1>4, <1>5, SetKeeps
  <1>7. TypeOK'
    BY <1>1, <1>4, <1>6 DEF TypeOK, AllSlots
  <1>8. DelayedFit'
    BY <1>1, <1>4, DelayedKept
  <1>9. QED
    BY <1>6, <1>7, <1>8 DEF HandlerInv, Tables

(* a request that is put off does,                                         *)
LEMMA DisconnectLaterKeeps ==
  ASSUME HandlerInv, NEW s \in Signals, NEW r \in Receivers, disconnectLater(s, r)
  PROVE  HandlerInv'
  <1>1. TypeOK /\ Tables /\ DelayedFit
    BY DEF HandlerInv, Tables
  <1>2. PICK k : k = IF r \in Functions THEN "fn" ELSE "dg"
    OBVIOUS
  <1>3. /\ MayRemove(s, r)
        /\ delayed' = [delayed EXCEPT ![s][k] = Append(@, r)]
        /\ UNCHANGED <<slots, isInUse, allocated, refs, alive, listening, blocked,
                       signalSender, stack>>
    BY <1>2 DEF disconnectLater
  <1>4. k \in {"fn", "dg"} /\ (r \in Functions <=> k = "fn")
    BY <1>2
  <1>5. delayed \in [Signals -> [{"fn", "dg"} -> Seq(Receivers)]]
    BY <1>1 DEF TypeOK
  <1>6. PICK old, new : old = delayed[s][k] /\ new = Append(old, r)
    OBVIOUS
  <1>7. old \in Seq(Receivers) /\ new \in Seq(Receivers)
    BY <1>4, <1>5, <1>6
  <1>8. PICK n : n = Len(old)
    OBVIOUS
  <1>9. /\ n \in Nat /\ DOMAIN old = 1 .. n /\ DOMAIN new = 1 .. n + 1
        /\ \A i \in 1 .. n : new[i] = old[i]
        /\ new[n + 1] = r
    BY <1>6, <1>7, <1>8, AppendProperties, LenProperties
  <1>10. /\ delayed' \in [Signals -> [{"fn", "dg"} -> Seq(Receivers)]]
         /\ delayed'[s][k] = new
         /\ \A s1 \in Signals, k1 \in {"fn", "dg"} :
              s1 # s \/ k1 # k => delayed'[s1][k1] = delayed[s1][k1]
    BY <1>3, <1>4, <1>5, <1>6, <1>7
  <1>11. TypeOK'
    BY <1>1, <1>3, <1>10 DEF TypeOK
  <1>12. Tables'
    BY <1>1, <1>3, TablesKept
  <1>13. DelayedFit'
    <2>1. ASSUME NEW s1 \in Signals, NEW k1 \in {"fn", "dg"}, NEW i \in DOMAIN delayed'[s1][k1]
          PROVE  /\ delayed'[s1][k1][i] \in Functions <=> k1 = "fn"
                 /\ MayRemove(s1, delayed'[s1][k1][i])
      <3>1. CASE s1 = s /\ k1 = k
        <4>1. i \in 1 .. n \/ i = n + 1
          BY <1>9, <1>10, <3>1
        <4>2. CASE i = n + 1
          BY <1>3, <1>4, <1>9, <1>10, <3>1, <4>2
        <4>3. CASE i \in 1 .. n
          <5>1. delayed'[s1][k1][i] = delayed[s][k][i] /\ i \in DOMAIN delayed[s][k]
            BY <1>6, <1>9, <1>10, <3>1, <4>3
          <5>2. QED
            BY <1>1, <1>4, <3>1, <5>1 DEF DelayedFit
        <4>4. QED
          BY <4>1, <4>2, <4>3
      <3>2. CASE s1 # s \/ k1 # k
        <4>1. delayed'[s1][k1] = delayed[s1][k1]
          BY <1>10, <3>2
        <4>2. QED
          BY <1>1, <4>1 DEF DelayedFit
      <3>3. QED
        BY <3>1, <3>2
    <2>2. QED
      BY <2>1 DEF DelayedFit, MayRemove
  <1>14. QED
    BY <1>11, <1>12, <1>13 DEF HandlerInv, Tables

(* and so does the end of a receiver.                                      *)
LEMMA DisposedKeeps ==
  ASSUME ~RemoveAny, HandlerInv, NEW o \in Objects, onReceiverDisposed(o)
  PROVE  HandlerInv'
  <1>1. TypeOK /\ Tables /\ DelayedFit
    BY DEF HandlerInv, Tables
  <1>2. Tables' /\ slots' \in AllSlots /\ refs' \in [Objects -> Nat]
    BY <1>1, DisposedTables
  <1>3. /\ alive' = alive \ {o}
        /\ UNCHANGED <<isInUse, delayed, allocated, listening, blocked, signalSender, stack>>
    BY DEF onReceiverDisposed
  <1>4. TypeOK'
    BY <1>1, <1>2, <1>3 DEF TypeOK, AllSlots
  <1>5. DelayedFit'
    BY <1>1, <1>3, DelayedKept
  <1>6. QED
    BY <1>2, <1>4, <1>5 DEF HandlerInv, Tables

(* The steps of an emission *)
LEMMA EmitKeeps ==
  ASSUME HandlerInv, NEW s \in Signals, emit(s)
  PROVE  HandlerInv'
  <1>1. TypeOK /\ Tables /\ DelayedFit
    BY DEF HandlerInv, Tables
  <1>2. PICK frame : frame = [sig |-> s, list |-> 1, slotId |-> 1, at |-> "loop",
                              lengths |-> [l \in Lists |-> Len(slots[s][l])]]
    OBVIOUS
  <1>3. /\ isInUse' = [isInUse EXCEPT ![s] = TRUE] /\ signalSender' = TRUE
        /\ stack' = <<frame>> \o stack
        /\ UNCHANGED <<slots, delayed, allocated, refs, alive, listening, blocked>>
    BY <1>2 DEF emit
  <1>4. frame \in Frame
    <2>1. \A l \in Lists : slots[s][l] \in Seq(Slot)
      BY <1>1 DEF TypeOK
    <2>2. [l \in Lists |-> Len(slots[s][l])] \in [Lists -> Int]
      BY <2>1
    <2>3. 1 \in 1 .. Len(ListOrder) + 1
      BY ListNames
    <2>4. QED
      BY <1>2, <2>2, <2>3 DEF Frame
  <1>5. stack' \in Seq(Frame)
    BY <1>1, <1>3, <1>4, Stacks DEF TypeOK
  <1>6. TypeOK'
    BY <1>1, <1>3, <1>5 DEF TypeOK
  <1>7. Tables' /\ DelayedFit'
    BY <1>1, <1>3, TablesKept, DelayedKept
  <1>8. QED
    BY <1>6, <1>7 DEF HandlerInv, Tables

(* ... that only move the innermost emission on *)
LEMMA MoveKeeps ==
  ASSUME HandlerInv, nextList \/ slotReturns
  PROVE  HandlerInv'
  <1>1. TypeOK /\ Tables /\ DelayedFit
    BY DEF HandlerInv, Tables
  <1>2. stack # <<>> /\ stack \in Seq(Frame)
        /\ UNCHANGED <<connVars, refs, alive, listening, blocked, signalSender>>
    BY <1>1 DEF nextList, slotReturns, Looping, TypeOK
  <1>3. PICK top : top = Top
    OBVIOUS
  <1>4. top \in Frame /\ top.list \in 1 .. 4
    BY <1>2, <1>3, TopFrame
  <1>5. PICK frame \in Frame : stack' = <<frame>> \o Tail(stack)
    <2>1. CASE nextList
      <3>1. /\ top.list <= 3
            /\ stack' = <<[top EXCEPT !.list = @ + 1, !.slotId = 1]>> \o Tail(stack)
        BY <1>3, <2>1, ListNames DEF nextList, SetTop
      <3>2. top.list + 1 \in 1 .. Len(ListOrder) + 1
        BY <1>4, <3>1, ListNames
      <3>3. [top EXCEPT !.list = @ + 1, !.slotId = 1] \in Frame
        <4>1. PICK j, one : j = top.list + 1 /\ one = 1
          OBVIOUS
        <4>2. j \in 1 .. Len(ListOrder) + 1 /\ one \in Nat \ {0}
          BY <3>2, <4>1
        <4>3. [top EXCEPT !.list = j, !.slotId = one] \in Frame
          BY <1>4, <4>2 DEF Frame
        <4>4. QED
          BY <4>1, <4>3
      <3>4. QED
        BY <3>1, <3>3
    <2>2. CASE slotReturns
      <3>1. stack' = <<[top EXCEPT !.at = "loop", !.slotId = @ + 1]>> \o Tail(stack)
        BY <1>3, <2>2 DEF slotReturns, SetTop
      <3>2. [top EXCEPT !.at = "loop", !.slotId = @ + 1] \in Frame
        <4>1. PICK j : j = top.slotId + 1
          OBVIOUS
        <4>2. top.slotId \in Nat /\ j \in Nat \ {0}
          BY <1>4, <4>1 DEF Frame
        <4>3. [top EXCEPT !.at = "loop", !.slotId = j] \in Frame
          BY <1>4, <4>2 DEF Frame
        <4>4. QED
          BY <4>1, <4>3
      <3>3. QED
        BY <3>1, <3>2
    <2>3. QED
      BY <2>1, <2>2
  <1>6. stack' \in Seq(Frame)
    BY <1>2, <1>5, Stacks
  <1>7. TypeOK'
    BY <1>1, <1>2, <1>6 DEF TypeOK, connVars
  <1>8. Tables' /\ DelayedFit'
    BY <1>1, <1>2, TablesKept, DelayedKept DEF connVars
  <1>9. QED
    BY <1>7, <1>8 DEF HandlerInv, Tables
(* callSlot keeps HandlerInv,                                              *)
LEMMA CallKeeps ==
  ASSUME HandlerInv, callSlot
  PROVE  HandlerInv'
  <1>1. TypeOK /\ Tables /\ DelayedFit
    BY DEF HandlerInv, Tables
  <1>2. stack # <<>> /\ stack \in Seq(Frame) /\ Top.list <= Len(ListOrder)
    BY <1>1 DEF callSlot, HasSlot, Looping, TypeOK
  <1>3. PICK top : top = Top
    OBVIOUS
  <1>4. PICK s, l, i : s = Sig /\ l = List /\ i = top.slotId
    OBVIOUS
  <1>5. top \in Frame /\ s \in Signals /\ l \in Lists /\ i \in Nat \ {0}
    BY <1>2, <1>3, <1>4, TopFrame
  <1>6. /\ i <= Len(slots[s][l])
        /\ slots' = [slots EXCEPT ![s][l][i].heard = @ + 1]
        /\ stack' = <<[top EXCEPT !.at = "slot"]>> \o Tail(stack)
        /\ UNCHANGED <<isInUse, delayed, allocated, refs, alive, listening, blocked, signalSender>>
    BY <1>3, <1>4 DEF callSlot, SetTop
  <1>7. slots \in AllSlots /\ Consistent(s, StateOf(s))
    BY <1>1, <1>5, ConsistentNow
  <1>8. PICK a, b : a = slots[s] /\ b = [a EXCEPT ![l][i].heard = @ + 1]
    OBVIOUS
  <1>9. a \in [Lists -> Seq(Slot)] /\ i \in 1 .. Len(a[l])
    <2>1. a \in [Lists -> Seq(Slot)]
      BY <1>5, <1>7, <1>8 DEF AllSlots
    <2>2. PICK n : n = Len(a[l])
      OBVIOUS
    <2>3. a[l] \in Seq(Slot)
      BY <1>5, <2>1
    <2>4. n \in Nat /\ i <= n
      BY <1>6, <1>8, <2>2, <2>3
    <2>5. i \in 1 .. n
      BY <1>5, <2>4
    <2>6. QED
      BY <2>1, <2>2, <2>5
  <1>10. b \in [Lists -> Seq(Slot)] /\ SameSlots(a, b)
    BY <1>5, <1>8, <1>9, CalledSame
  <1>11. PICK st, st2 : st = StateOf(s) /\ st2 = [st EXCEPT !.lists = b]
    OBVIOUS
  <1>12. /\ st.lists = a /\ st.refs = refs /\ st.listening = listening[s]
         /\ st2.lists = b /\ st2.refs = refs /\ st2.listening = listening[s]
    BY <1>8, <1>11 DEF StateOf
  <1>13. Consistent(s, st2)
    BY <1>5, <1>7, <1>10, <1>11, <1>12, ConsistentSame
  <1>14. /\ slots' = [slots EXCEPT ![s] = st2.lists] /\ refs' = st2.refs
         /\ listening' = [listening EXCEPT ![s] = st2.listening]
    <2>1. slots' = [slots EXCEPT ![s] = b]
      BY <1>5, <1>6, <1>7, <1>8 DEF AllSlots
    <2>2. listening = [listening EXCEPT ![s] = listening[s]]
      BY <1>1 DEF TypeOK
    <2>3. QED
      BY <1>6, <1>12, <2>1, <2>2
  <1>15. /\ Tables' /\ slots' \in AllSlots
    BY <1>1, <1>5, <1>6, <1>13, <1>14, ConsistentThen
  <1>16. stack' \in Seq(Frame)
    <2>1. [top EXCEPT !.at = "slot"] \in Frame
      BY <1>5 DEF Frame
    <2>2. QED
      BY <1>2, <1>6, <2>1, Stacks
  <1>17. TypeOK'
    BY <1>1, <1>6, <1>15, <1>16 DEF TypeOK, AllSlots
  <1>18. DelayedFit'
    BY <1>1, <1>6, DelayedKept
  <1>19. QED
    BY <1>15, <1>17, <1>18 DEF HandlerInv, Tables

(* and so does dropping a slot whose receiver is gone.                     *)
LEMMA DropKeeps ==
  ASSUME HandlerInv, dropDisposed
  PROVE  HandlerInv'
  <1>1. TypeOK /\ Tables /\ DelayedFit
    BY DEF HandlerInv, Tables
  <1>2. stack # <<>> /\ stack \in Seq(Frame) /\ Top.list <= Len(ListOrder)
    BY <1>1 DEF dropDisposed, HasSlot, Looping, TypeOK
  <1>3. PICK top : top = Top
    OBVIOUS
  <1>4. PICK s, l, i : s = Sig /\ l = List /\ i = top.slotId
    OBVIOUS
  <1>5. top \in Frame /\ s \in Signals /\ l \in Lists /\ i \in Nat \ {0}
    BY <1>2, <1>3, <1>4, TopFrame
  <1>6. PICK st : st = StateOf(s)
    OBVIOUS
  <1>7. /\ i <= Len(slots[s][l]) /\ slots[s][l][i].disposed
        /\ SetState(s, removeSlot(st, l, i))
        /\ stack' = <<[top EXCEPT !.lengths[l] = @ - 1]>> \o Tail(stack)
        /\ UNCHANGED <<isInUse, delayed, allocated, alive, blocked, signalSender>>
    BY <1>3, <1>4, <1>6 DEF dropDisposed, SetTop, Current
  <1>8. slots \in AllSlots /\ Consistent(s, st) /\ st.lists = slots[s]
    BY <1>1, <1>5, <1>6, ConsistentNow DEF StateOf
  <1>9. MaxSlots[s][l] <= 1 /\ i = 1 /\ slots[s][l] # <<>>
    <2>1. PICK m, n : m = MaxSlots[s][l] /\ n = Len(slots[s][l])
      OBVIOUS
    <2>2. slots[s][l] \in Seq(Slot)
      BY <1>5, <1>8 DEF AllSlots
    <2>3. m \in Nat /\ n \in Nat /\ i <= n /\ DOMAIN slots[s][l] = 1 .. n
      BY <1>5, <1>7, <2>1, <2>2, LenProperties, SignalAssumption
    <2>4. Fits(s, l, slots[s][l])
      BY <1>1, <1>5 DEF Tables, SlotsFit
    <2>5. i \in 1 .. n
      BY <1>5, <2>3
    <2>6. n <= m /\ m <= 1
      BY <1>7, <2>1, <2>3, <2>4, <2>5 DEF Fits
    <2>7. i = 1 /\ n # 0
      BY <1>5, <2>3, <2>6
    <2>8. QED
      BY <2>1, <2>6, <2>7
  <1>10. Consistent(s, removeSlot(st, l, 1))
    BY <1>5, <1>8, <1>9, ConsistentRemove
  <1>11. PICK st2 : st2 = removeSlot(st, l, 1)
    OBVIOUS
  <1>12. Consistent(s, st2) /\ SetState(s, st2) /\ alive' = alive
    BY <1>7, <1>9, <1>10, <1>11
  <1>13. /\ Tables' /\ slots' \in AllSlots /\ refs' \in [Objects -> Nat]
         /\ listening' \in [Signals -> BOOLEAN]
    BY <1>5, <1>12, SetKeeps
  <1>14. stack' \in Seq(Frame)
    <2>1. [top EXCEPT !.lengths[l] = @ - 1] \in Frame
      BY <1>5 DEF Frame
    <2>2. QED
      BY <1>2, <1>7, <2>1, Stacks
  <1>15. TypeOK'
    BY <1>1, <1>7, <1>13, <1>14 DEF TypeOK, AllSlots
  <1>16. DelayedFit'
    BY <1>1, <1>7, DelayedKept
  <1>17. QED
    BY <1>13, <1>15, <1>16 DEF HandlerInv, Tables

(* The receivers of the queue may leave. *)
LEMMA QueueFit ==
  ASSUME TypeOK, DelayedFit, NEW s \in Signals, NEW queue,
         queue = delayed[s]["fn"] \o delayed[s]["dg"]
  PROVE  /\ queue \in Seq(Receivers) /\ Len(queue) \in Nat
         /\ \A k \in 1 .. Len(queue) : MayRemove(s, queue[k])
  <1>1. PICK a, b : a = delayed[s]["fn"] /\ b = delayed[s]["dg"]
    OBVIOUS
  <1>2. a \in Seq(Receivers) /\ b \in Seq(Receivers)
    BY <1>1 DEF TypeOK
  <1>3. PICK m, n : m = Len(a) /\ n = Len(b)
    OBVIOUS
  <1>4. m \in Nat /\ n \in Nat /\ DOMAIN a = 1 .. m /\ DOMAIN b = 1 .. n
    BY <1>2, <1>3, LenProperties
  <1>5. /\ \A i \in 1 .. m : MayRemove(s, a[i])
        /\ \A i \in 1 .. n : MayRemove(s, b[i])
    BY <1>1, <1>4 DEF DelayedFit
  <1>6. /\ queue \in Seq(Receivers) /\ Len(queue) = m + n
        /\ \A i \in 1 .. m + n : queue[i] = IF i <= m THEN a[i] ELSE b[i - m]
    BY <1>1, <1>2, <1>3, ConcatProperties
  <1>7. ASSUME NEW k \in 1 .. m + n
        PROVE  MayRemove(s, queue[k])
    <2>1. CASE k <= m
      <3>1. k \in 1 .. m
        BY <1>4, <2>1
      <3>2. QED
        BY <1>5, <1>6, <2>1, <3>1
    <2>2. CASE ~(k <= m)
      <3>1. k - m \in 1 .. n
        BY <1>4, <2>2
      <3>2. QED
        BY <1>5, <1>6, <2>2, <3>1
    <2>3. QED
      BY <2>1, <2>2
  <1>8. PICK j : j = m + n
    OBVIOUS
  <1>9. j \in Nat
    BY <1>4, <1>8
  <1>10. Len(queue) \in Nat /\ \A k \in 1 .. Len(queue) : MayRemove(s, queue[k])
    BY ONLY <1>6, <1>7, <1>8, <1>9
  <1>11. QED
    BY <1>6, <1>10

(* The end of an emission keeps HandlerInv, with all it disconnects ...    *)
LEMMA ReturnKeeps ==
  ASSUME ~RemoveAny, HandlerInv, emitReturns
  PROVE  HandlerInv'
  <1>1. TypeOK /\ Tables /\ DelayedFit
    BY DEF HandlerInv, Tables
  <1>2. stack # <<>> /\ stack \in Seq(Frame)
    BY <1>1 DEF emitReturns, Looping, TypeOK
  <1>3. PICK s : s = Sig
    OBVIOUS
  <1>4. s \in Signals
    BY <1>2, <1>3, TopFrame
  <1>5. PICK queue, st : /\ queue = delayed[s]["fn"] \o delayed[s]["dg"]
                         /\ st = DisconnectAll(StateOf(s), queue)[Len(queue)]
    OBVIOUS
  <1>6. PICK st2 : st2 = [st EXCEPT !.lists = Unmarked(s, @)]
    OBVIOUS
  <1>7. /\ SetState(s, st2)
        /\ isInUse' = [isInUse EXCEPT ![s] = FALSE] /\ signalSender' = FALSE
        /\ stack' = Tail(stack)
        /\ delayed' = [delayed EXCEPT ![s] = [k \in {"fn", "dg"} |-> <<>>]]
        /\ UNCHANGED <<allocated, alive, blocked>>
    BY <1>3, <1>5, <1>6 DEF emitReturns, LeaveEmit
  <1>8. slots \in AllSlots /\ Consistent(s, StateOf(s))
    BY <1>1, <1>4, ConsistentNow
  <1>9. Len(queue) \in Nat /\ \A k \in 1 .. Len(queue) : MayRemove(s, queue[k])
    BY <1>1, <1>4, <1>5, QueueFit
  <1>10. Consistent(s, st)
    <2>1. PICK n : n = Len(queue)
      OBVIOUS
    <2>2. n \in Nat /\ n \in 0 .. n /\ \A k \in 1 .. n : MayRemove(s, queue[k])
      BY <1>9, <2>1
    <2>3. \A k \in 0 .. n : Consistent(s, DisconnectAll(StateOf(s), queue)[k])
      BY <1>4, <1>8, <2>2, ConsistentQueue
    <2>4. QED
      BY <1>5, <2>1, <2>2, <2>3
  <1>11. st \in State /\ st.lists \in [Lists -> Seq(Slot)]
    BY <1>10 DEF Consistent, State
  <1>12. PICK lists : lists = Unmarked(s, st.lists)
    OBVIOUS
  <1>13. lists \in [Lists -> Seq(Slot)] /\ SameSlots(st.lists, lists)
    BY <1>11, <1>12, UnmarkedSame
  <1>14. st2 = [st EXCEPT !.lists = lists]
    BY <1>6, <1>12
  <1>15. Consistent(s, st2)
    BY <1>4, <1>8, <1>10, <1>13, <1>14, ConsistentSame
  <1>16. /\ Tables' /\ slots' \in AllSlots /\ refs' \in [Objects -> Nat]
         /\ listening' \in [Signals -> BOOLEAN]
    BY <1>4, <1>7, <1>15, SetKeeps
  <1>17. Tail(stack) \in Seq(Frame)
    BY <1>2
  <1>18. /\ delayed' \in [Signals -> [{"fn", "dg"} -> Seq(Receivers)]]
         /\ \A k \in {"fn", "dg"} : delayed'[s][k] = <<>>
         /\ \A s1 \in Signals : s1 # s => delayed'[s1] = delayed[s1]
    BY <1>1, <1>4, <1>7 DEF TypeOK
  <1>19. TypeOK'
    BY <1>1, <1>7, <1>16, <1>17, <1>18 DEF TypeOK, AllSlots
  <1>20. DelayedFit'
    <2>1. ASSUME NEW s1 \in Signals, NEW k \in {"fn", "dg"}, NEW i \in DOMAIN delayed'[s1][k]
          PROVE  /\ delayed'[s1][k][i] \in Functions <=> k = "fn"
                 /\ MayRemove(s1, delayed'[s1][k][i])
      <3>1. s1 # s
        BY <1>18
      <3>2. QED
        BY <1>1, <1>18, <3>1 DEF DelayedFit
    <2>2. QED
      BY <2>1 DEF DelayedFit, MayRemove
  <1>21. QED
    BY <1>16, <1>19, <1>20 DEF HandlerInv, Tables

(* ... and so does the end that an exception of a slot makes.              *)
LEMMA ThrowKeeps ==
  ASSUME HandlerInv, slotThrows
  PROVE  HandlerInv'
  <1>1. TypeOK /\ Tables /\ DelayedFit
    BY DEF HandlerInv, Tables
  <1>2. stack # <<>> /\ stack \in Seq(Frame)
    BY <1>1 DEF slotThrows, TypeOK
  <1>3. PICK s : s = Sig
    OBVIOUS
  <1>4. s \in Signals
    BY <1>2, <1>3, TopFrame
  <1>5. PICK lists : lists = Unmarked(s, slots[s])
    OBVIOUS
  <1>6. /\ slots' = [slots EXCEPT ![s] = lists]
        /\ isInUse' = [isInUse EXCEPT ![s] = FALSE] /\ signalSender' = FALSE
        /\ stack' = Tail(stack)
        /\ UNCHANGED <<delayed, allocated, refs, alive, listening, blocked>>
    BY <1>3, <1>5 DEF slotThrows, LeaveEmit
  <1>7. slots \in AllSlots /\ Consistent(s, StateOf(s)) /\ slots[s] \in [Lists -> Seq(Slot)]
    BY <1>1, <1>4, ConsistentNow DEF AllSlots
  <1>8. lists \in [Lists -> Seq(Slot)] /\ SameSlots(slots[s], lists)
    BY <1>5, <1>7, UnmarkedSame
  <1>9. PICK st, st2 : st = StateOf(s) /\ st2 = [st EXCEPT !.lists = lists]
    OBVIOUS
  <1>10. /\ st.lists = slots[s] /\ st.refs = refs /\ st.listening = listening[s]
         /\ st2.lists = lists /\ st2.refs = refs /\ st2.listening = listening[s]
    BY <1>9 DEF StateOf
  <1>11. Consistent(s, st2)
    BY <1>4, <1>7, <1>8, <1>9, <1>10, ConsistentSame
  <1>12. listening = [listening EXCEPT ![s] = listening[s]]
    BY <1>1 DEF TypeOK
  <1>13. Tables' /\ slots' \in AllSlots
    BY <1>1, <1>4, <1>6, <1>10, <1>11, <1>12, ConsistentThen
  <1>14. Tail(stack) \in Seq(Frame)
    BY <1>2
  <1>15. TypeOK'
    BY <1>1, <1>6, <1>13, <1>14 DEF TypeOK, AllSlots
  <1>16. DelayedFit'
    BY <1>1, <1>6, DelayedKept
  <1>17. QED
    BY <1>13, <1>15, <1>16 DEF HandlerInv, Tables
-----------------------------------------------------------------------------
(* HandlerInv holds at first and is kept by every step.                    *)
LEMMA HandlerInvInit == Init => HandlerInv
  <1>1. SUFFICES ASSUME Init
                 PROVE  HandlerInv
    OBVIOUS
  <1>2. /\ slots \in AllSlots
        /\ \A s \in Signals, l \in Lists : slots[s][l] = <<>> /\ Len(slots[s][l]) = 0
                                           /\ DOMAIN slots[s][l] = {}
    <2>1. slots = [s \in Signals |-> [l \in Lists |-> <<>>]]
      BY <1>1 DEF Init
    <2>2. <<>> \in Seq(Slot) /\ Len(<<>>) = 0 /\ DOMAIN <<>> = {}
      OBVIOUS
    <2>3. QED
      BY <2>1, <2>2 DEF AllSlots
  <1>3. TypeOK
    <2>1. /\ delayed \in [Signals -> [{"fn", "dg"} -> Seq(Receivers)]]
      BY <1>1 DEF Init
    <2>2. allocated \in 0 .. LastSignal + 1 /\ blocked \in 0 .. MaxBlocked
      BY <1>1, SignalAssumption DEF Init
    <2>3. stack \in Seq(Frame)
      BY <1>1 DEF Init
    <2>4. /\ isInUse \in [Signals -> BOOLEAN] /\ refs \in [Objects -> Nat]
          /\ alive \in SUBSET Objects /\ listening \in [Signals -> BOOLEAN]
          /\ signalSender \in BOOLEAN
      BY <1>1 DEF Init
    <2>5. QED
      BY <1>2, <2>1, <2>2, <2>3, <2>4 DEF TypeOK, AllSlots
  <1>4. SlotsFit
    <2>1. ASSUME NEW s \in Signals, NEW l \in Lists
          PROVE  Fits(s, l, slots[s][l])
      <3>1. 0 <= MaxSlots[s][l]
        BY SignalAssumption
      <3>2. QED
        BY <1>2, <3>1 DEF Fits
    <2>2. QED
      BY <2>1 DEF SlotsFit
  <1>5. DelayedFit
    BY <1>1 DEF Init, DelayedFit
  <1>6. \A o : SlotsTo(slots, o) = {}
    <2>1. SUFFICES ASSUME NEW o, NEW p \in SlotsTo(slots, o)
                   PROVE  FALSE
      OBVIOUS
    <2>2. PICK s \in Signals, l \in Lists : \E i \in DOMAIN slots[s][l] : p = <<s, l, i>>
      BY InSlotsTo
    <2>3. QED
      BY <1>2, <2>2
  <1>7. CountsFinite
    BY <1>6, FS_EmptySet DEF CountsFinite
  <1>8. TablesMatchSlots
    <2>1. \A o \in Objects : /\ refs[o] = Cardinality(SlotsTo(slots, o))
                             /\ o \notin alive => refs[o] = 0
      BY <1>1, <1>6, FS_EmptySet DEF Init
    <2>2. \A s \in Signals : slotCount(slots[s]) = 0
      <3>1. SUFFICES ASSUME NEW s \in Signals
                     PROVE  slotCount(slots[s]) = 0
        OBVIOUS
      <3>2. /\ Len(slots[s]["Func"]) = 0 /\ Len(slots[s]["Weak"]) = 0
            /\ Len(slots[s]["Strong"]) = 0
        BY <1>2, ListNames
      <3>3. QED
        BY <3>2 DEF slotCount
    <2>3. \A s \in Signals : ~listening[s]
      BY <1>1 DEF Init
    <2>4. QED
      BY <2>1, <2>2, <2>3 DEF TablesMatchSlots
  <1>9. QED
    BY <1>3, <1>4, <1>5, <1>7, <1>8 DEF HandlerInv

(* The step of the induction, action by action                             *)
LEMMA HandlerInvNext ==
  ASSUME ~RemoveAny, HandlerInv, [Next]_vars
  PROVE  HandlerInv'
  <1>1. TypeOK /\ Tables /\ DelayedFit
    BY DEF HandlerInv, Tables
  <1>2. CASE UNCHANGED vars
    <2>1. UNCHANGED <<slots, isInUse, delayed, allocated, refs, alive, listening, blocked,
                      signalSender, stack>>
      BY <1>2 DEF vars, connVars
    <2>2. TypeOK'
      BY <1>1, <2>1 DEF TypeOK
    <2>3. Tables' /\ DelayedFit'
      BY <1>1, <2>1, TablesKept, DelayedKept
    <2>4. QED
      BY <2>2, <2>3 DEF HandlerInv, Tables
  <1>3. ASSUME NEW s \in Signals, NEW r \in Receivers, disconnectLater(s, r)
        PROVE  HandlerInv'
    BY <1>3, DisconnectLaterKeeps
  <1>4. ASSUME NEW s \in Signals, NEW r \in Receivers, disconnect(s, r)
        PROVE  HandlerInv'
    BY <1>4, DisconnectKeeps
  <1>5. ASSUME NEW s \in Signals, NEW r \in Receivers, NEW l \in Lists, connect(s, r, l)
        PROVE  HandlerInv'
    BY <1>5, ConnectKeeps
  <1>6. ASSUME NEW s \in Signals, emit(s)
        PROVE  HandlerInv'
    BY <1>6, EmitKeeps
  <1>7. ASSUME NEW o \in Objects, onReceiverDisposed(o)
        PROVE  HandlerInv'
    BY <1>7, DisposedKeeps
  <1>8. CASE blockSignals \/ unblockSignals
    <2>1. /\ blocked' \in 0 .. MaxBlocked
          /\ UNCHANGED <<slots, isInUse, delayed, allocated, refs, alive, listening, signalSender,
                         stack>>
      BY <1>1, <1>8, SignalAssumption DEF blockSignals, unblockSignals, connVars, TypeOK
    <2>2. TypeOK'
      BY <1>1, <2>1 DEF TypeOK
    <2>3. Tables' /\ DelayedFit'
      BY <1>1, <2>1, TablesKept, DelayedKept
    <2>4. QED
      BY <2>2, <2>3 DEF HandlerInv, Tables
  <1>9. CASE nextList \/ slotReturns
    BY <1>9, MoveKeeps
  <1>10. CASE dropDisposed
    BY <1>10, DropKeeps
  <1>11. CASE callSlot
    BY <1>11, CallKeeps
  <1>12. CASE emitReturns
    BY <1>12, ReturnKeeps
  <1>13. CASE slotThrows
    BY <1>13, ThrowKeeps
  <1>14. QED
    BY <1>2, <1>3, <1>4, <1>5, <1>6, <1>7, <1>8, <1>9, <1>10, <1>11, <1>12, <1>13 DEF Next

(* Where slots only leave lists that hold one at most, HandlerInv holds.   *)
THEOREM HandlerInvariant ==
  ASSUME ~RemoveAny
  PROVE  Spec => []HandlerInv
  <1>1. Init => HandlerInv
    BY HandlerInvInit
  <1>2. HandlerInv /\ [Next]_vars => HandlerInv'
    BY HandlerInvNext
  <1>3. QED
    BY <1>1, <1>2, PTL DEF Spec

(* The variables keep their types.                                         *)
THEOREM Typed ==
  ASSUME ~RemoveAny
  PROVE  Spec => []TypeOK
  <1>1. HandlerInv => TypeOK
    BY DEF HandlerInv
  <1>2. QED
    BY <1>1, HandlerInvariant, PTL

(* The table of receivers counts the slots that refer to each object,      *)
(* nothing refers to an object that is gone, and Qt forwards the signals   *)
(* that have slots, and no others.                                         *)
THEOREM TablesMatch ==
  ASSUME ~RemoveAny
  PROVE  Spec => []TablesMatchSlots
  <1>1. HandlerInv => TablesMatchSlots
    BY DEF HandlerInv
  <1>2. QED
    BY <1>1, HandlerInvariant, PTL

(* A slot that is called belongs to an object that exists. *)
LEMMA CalledExists ==
  ASSUME HandlerInv, callSlot, Current.r \in Delegates, ObjectOf[Current.r] # NULL
  PROVE  ObjectOf[Current.r] \in alive
  <1>1. TypeOK /\ Tables
    BY DEF HandlerInv, Tables
  <1>2. stack # <<>> /\ stack \in Seq(Frame) /\ Top.list <= Len(ListOrder)
    BY <1>1 DEF callSlot, HasSlot, Looping, TypeOK
  <1>3. PICK s, l, i, x : s = Sig /\ l = List /\ i = Top.slotId /\ x = slots[s][l][i]
    OBVIOUS
  <1>4. s \in Signals /\ l \in Lists /\ i \in Nat \ {0}
    BY <1>2, <1>3, TopFrame
  <1>5. x = Current /\ i <= Len(slots[s][l]) /\ ~x.disposed
    BY <1>3 DEF callSlot, Current
  <1>6. i \in DOMAIN slots[s][l]
    <2>1. slots[s][l] \in Seq(Slot)
      BY <1>1, <1>4 DEF TypeOK
    <2>2. PICK n : n = Len(slots[s][l])
      OBVIOUS
    <2>3. n \in Nat /\ DOMAIN slots[s][l] = 1 .. n /\ i <= n
      BY <1>5, <2>1, <2>2, LenProperties
    <2>4. QED
      BY <1>4, <2>3
  <1>7. PICK o : o = ObjectOf[x.r]
    OBVIOUS
  <1>8. o \in Objects /\ getObject(x) = o
    BY <1>5, <1>7, SignalAssumption DEF getObject
  <1>9. <<s, l, i>> \in SlotsTo(slots, o)
    BY <1>3, <1>4, <1>6, <1>8, InSlotsTo
  <1>10. IsFiniteSet(SlotsTo(slots, o)) /\ refs[o] = Cardinality(SlotsTo(slots, o))
    BY <1>1, <1>8 DEF Tables, CountsFinite, TablesMatchSlots
  <1>11. refs[o] # 0
    BY <1>9, <1>10, FS_EmptySet
  <1>12. o \in alive
    BY <1>1, <1>8, <1>11 DEF Tables, TablesMatchSlots
  <1>13. QED
    BY <1>5, <1>7, <1>12

(* Whatever slots destroy on the way, emit never calls a slot of an object *)
(* that is gone.                                                           *)
THEOREM LiveReceivers ==
  ASSUME ~RemoveAny
  PROVE  Spec => OnlyLiveReceiversCalled
  <1>1. HandlerInv /\ [Next]_vars
          => [callSlot => LET r == Current.r
                          IN  r \in Delegates /\ ObjectOf[r] # NULL => ObjectOf[r] \in alive]_vars
    BY CalledExists
  <1>2. QED
    BY <1>1, HandlerInvariant, PTL DEF Spec, OnlyLiveReceiversCalled
-----------------------------------------------------------------------------
(* The running emissions, where no slot emits the signal that called it:   *)
(* at most one per signal; a signal is in use while one is running; and    *)
(* the slots at the positions that an emission looked up when it began are *)
(* those that were there then, heard once if it has passed them.           *)
Passed(e, i, j) ==
  /\ j <= e.lengths[ListOrder[i]]
  /\ i < e.list \/ (i = e.list /\ (j < e.slotId \/ (j = e.slotId /\ e.at = "slot")))

FrameFits(e, lists) ==
  \A i \in 1 .. 3 :
    /\ e.lengths[ListOrder[i]] <= Len(lists[ListOrder[i]])
    /\ \A j \in DOMAIN lists[ListOrder[i]] :
         LET slot == lists[ListOrder[i]][j]
         IN  /\ slot.late <=> j > e.lengths[ListOrder[i]]
             /\ slot.heard = IF Passed(e, i, j) THEN 1 ELSE 0

QuietLists(lists) ==
  \A l \in Lists : \A i \in DOMAIN lists[l] : ~lists[l][i].late /\ lists[l][i].heard = 0

Distinct(stk) == \A i, j \in DOMAIN stk : stk[i].sig = stk[j].sig => i = j

EmissionInv ==
  /\ Distinct(stack)
  /\ \A s \in Signals : isInUse[s] <=> Emitting(s, stack)
  /\ \A s \in Signals : ~Emitting(s, stack) => QuietLists(slots[s])
  /\ \A k \in DOMAIN stack : FrameFits(stack[k], slots[stack[k].sig])

(* The lists are numbered 1, 2, 3.                                         *)
LEMMA ListNumbers ==
  /\ \A i, j \in 1 .. 3 : ListOrder[i] = ListOrder[j] => i = j
  /\ \A l \in Lists : \E i \in 1 .. 3 : l = ListOrder[i]
  <1>1. 1 .. 3 = {1, 2, 3}
    OBVIOUS
  <1>2. QED
    BY <1>1, ListNames

(* The stack when its first frame is replaced, when a frame is pushed, and *)
(* when one is popped                                                      *)
IsReplaced(stk, frame, new) ==
  /\ DOMAIN new = DOMAIN stk /\ 1 \in DOMAIN stk /\ Head(stk) = stk[1]
  /\ \A k \in DOMAIN stk : new[k] = IF k = 1 THEN frame ELSE stk[k]
  /\ Distinct(stk) => Distinct(new)
  /\ \A s : Emitting(s, new) <=> Emitting(s, stk)

IsPushed(stk, frame, new) ==
  /\ 1 \in DOMAIN new /\ new[1] = frame
  /\ \A k \in DOMAIN new : k = 1 \/ \E j \in DOMAIN stk : new[k] = stk[j]
  /\ Distinct(stk) => Distinct(new)
  /\ \A s : Emitting(s, new) <=> s = frame.sig \/ Emitting(s, stk)

IsPopped(stk, new) ==
  /\ Distinct(new) /\ Head(stk) = stk[1] /\ 1 \in DOMAIN stk
  /\ \A k \in DOMAIN new : \E j \in DOMAIN stk : new[k] = stk[j] /\ stk[j].sig # Head(stk).sig
  /\ \A s : Emitting(s, new) <=> s # Head(stk).sig /\ Emitting(s, stk)

(* The first frame is replaced;                                            *)
LEMMA Replaced ==
  ASSUME NEW stk \in Seq(Frame), stk # <<>>, NEW frame \in Frame, frame.sig = Head(stk).sig,
         NEW new, new = <<frame>> \o Tail(stk)
  PROVE  IsReplaced(stk, frame, new)
  <1>1. PICK n : n = Len(stk)
    OBVIOUS
  <1>2. n \in Nat \ {0} /\ DOMAIN stk = 1 .. n /\ Head(stk) = stk[1]
    BY <1>1
  <1>3. Len(new) = n /\ DOMAIN new = 1 .. n /\ \A k \in 1 .. n : new[k] = IF k = 1 THEN frame ELSE stk[k]
    <2>1. Tail(stk) \in Seq(Frame) /\ Len(Tail(stk)) = n - 1
          /\ \A k \in 1 .. n - 1 : Tail(stk)[k] = stk[k + 1]
      BY <1>1, HeadTailProperties
    <2>2. PICK t : t = Tail(stk)
      OBVIOUS
    <2>3. new = <<frame>> \o t /\ t \in Seq(Frame) /\ Len(t) = n - 1
          /\ \A k \in 1 .. n - 1 : t[k] = stk[k + 1]
      BY <2>1, <2>2
    <2>4. <<frame>> \in Seq(Frame) /\ Len(<<frame>>) = 1 /\ <<frame>>[1] = frame
      OBVIOUS
    <2>5. /\ new \in Seq(Frame) /\ Len(new) = 1 + (n - 1)
          /\ \A k \in 1 .. 1 + (n - 1) : new[k] = IF k <= 1 THEN <<frame>>[k] ELSE t[k - 1]
      BY <2>3, <2>4, ConcatProperties
    <2>6. 1 + (n - 1) = n
      BY <1>2
    <2>7. Len(new) = n /\ DOMAIN new = 1 .. n
      BY <2>5, <2>6
    <2>8. ASSUME NEW k \in 1 .. n
          PROVE  new[k] = IF k = 1 THEN frame ELSE stk[k]
      <3>1. new[k] = IF k <= 1 THEN <<frame>>[k] ELSE t[k - 1]
        BY <2>5, <2>6
      <3>2. CASE k = 1
        BY <2>4, <3>1, <3>2
      <3>3. CASE k # 1
        <4>1. k - 1 \in 1 .. n - 1 /\ (k - 1) + 1 = k /\ ~(k <= 1)
          BY <1>2, <3>3
        <4>2. t[k - 1] = stk[(k - 1) + 1]
          BY <2>3, <4>1
        <4>3. QED
          BY <3>1, <3>3, <4>1, <4>2
      <3>4. QED
        BY <3>2, <3>3
    <2>9. QED
      BY <2>7, <2>8
  <1>4. \A k \in DOMAIN stk : new[k].sig = stk[k].sig
    BY <1>2, <1>3
  <1>5. Distinct(stk) => Distinct(new)
    BY <1>2, <1>3, <1>4 DEF Distinct
  <1>6. \A s : Emitting(s, new) <=> Emitting(s, stk)
    BY <1>2, <1>3, <1>4 DEF Emitting
  <1>7. QED
    BY <1>2, <1>3, <1>5, <1>6 DEF IsReplaced

(* a frame is pushed;                                                      *)
LEMMA Pushed ==
  ASSUME NEW stk \in Seq(Frame), NEW frame \in Frame, ~Emitting(frame.sig, stk),
         NEW new, new = <<frame>> \o stk
  PROVE  IsPushed(stk, frame, new)
  <1>1. PICK n : n = Len(stk)
    OBVIOUS
  <1>2. n \in Nat /\ DOMAIN stk = 1 .. n
    BY <1>1
  <1>3. DOMAIN new = 1 .. n + 1 /\ new[1] = frame /\ \A k \in 1 .. n : new[k + 1] = stk[k]
    BY <1>1
  <1>4. \A k \in 1 .. n + 1 : k = 1 \/ k - 1 \in 1 .. n
    BY <1>2
  <1>5. \A k \in 1 .. n + 1 : k # 1 => new[k] = stk[k - 1]
    <2>1. SUFFICES ASSUME NEW k \in 1 .. n + 1, k # 1
                   PROVE  new[k] = stk[k - 1]
      OBVIOUS
    <2>2. k - 1 \in 1 .. n /\ (k - 1) + 1 = k
      BY <1>2, <2>1
    <2>3. new[(k - 1) + 1] = stk[k - 1]
      BY <1>3, <2>2
    <2>4. QED
      BY <2>2, <2>3
  <1>6. 1 \in 1 .. n + 1 /\ \A k \in 1 .. n : k + 1 \in 1 .. n + 1
    BY <1>2
  <1>7. ASSUME Distinct(stk)
        PROVE  Distinct(new)
    <2>1. SUFFICES ASSUME NEW i \in 1 .. n + 1, NEW j \in 1 .. n + 1, new[i].sig = new[j].sig
                   PROVE  i = j
      BY <1>3 DEF Distinct
    <2>2. \A k \in 1 .. n : stk[k].sig # frame.sig
      BY <1>2 DEF Emitting
    <2>3. CASE i = 1
      <3>1. CASE j = 1
        BY <2>3, <3>1
      <3>2. CASE j # 1
        BY <1>3, <1>4, <1>5, <2>1, <2>2, <2>3, <3>2
      <3>3. QED
        BY <3>1, <3>2
    <2>4. CASE i # 1
      <3>1. CASE j = 1
        BY <1>3, <1>4, <1>5, <2>1, <2>2, <2>4, <3>1
      <3>2. CASE j # 1
        <4>1. /\ i - 1 \in 1 .. n /\ new[i] = stk[i - 1]
              /\ j - 1 \in 1 .. n /\ new[j] = stk[j - 1]
          BY <1>4, <1>5, <2>4, <3>2
        <4>2. i - 1 = j - 1
          BY <1>2, <1>7, <2>1, <4>1 DEF Distinct
        <4>3. QED
          BY <1>2, <4>2
      <3>3. QED
        BY <3>1, <3>2
    <2>5. QED
      BY <2>3, <2>4
  <1>8. ASSUME NEW s
        PROVE  Emitting(s, new) <=> s = frame.sig \/ Emitting(s, stk)
    <2>1. ASSUME Emitting(s, new)
          PROVE  s = frame.sig \/ Emitting(s, stk)
      <3>1. PICK k \in 1 .. n + 1 : new[k].sig = s
        BY <1>3, <2>1 DEF Emitting
      <3>2. CASE k = 1
        BY <1>3, <3>1, <3>2
      <3>3. CASE k # 1
        <4>1. k - 1 \in DOMAIN stk /\ stk[k - 1].sig = s
          BY <1>2, <1>4, <1>5, <3>1, <3>3
        <4>2. QED
          BY <4>1 DEF Emitting
      <3>4. QED
        BY <3>2, <3>3
    <2>2. ASSUME s = frame.sig
          PROVE  Emitting(s, new)
      BY <1>3, <1>6, <2>2 DEF Emitting
    <2>3. ASSUME Emitting(s, stk)
          PROVE  Emitting(s, new)
      <3>1. PICK k \in 1 .. n : stk[k].sig = s
        BY <1>2, <2>3 DEF Emitting
      <3>2. k + 1 \in DOMAIN new /\ new[k + 1].sig = s
        BY <1>3, <1>6, <3>1
      <3>3. QED
        BY <3>2 DEF Emitting
    <2>4. QED
      BY <2>1, <2>2, <2>3
  <1>9. QED
    BY <1>2, <1>3, <1>4, <1>5, <1>6, <1>7, <1>8 DEF IsPushed

(* the first frame is popped.                                              *)
LEMMA Popped ==
  ASSUME NEW stk \in Seq(Frame), stk # <<>>, NEW new, new = Tail(stk), Distinct(stk)
  PROVE  IsPopped(stk, new)
  <1>1. PICK n : n = Len(stk)
    OBVIOUS
  <1>2. n \in Nat \ {0} /\ DOMAIN stk = 1 .. n /\ Head(stk) = stk[1] /\ 1 \in 1 .. n
    BY <1>1
  <1>3. DOMAIN new = 1 .. n - 1 /\ \A k \in 1 .. n - 1 : new[k] = stk[k + 1]
    BY <1>1, HeadTailProperties
  <1>4. \A k \in 1 .. n - 1 : k + 1 \in 1 .. n /\ k + 1 # 1
    BY <1>2
  <1>5. \A k \in 1 .. n - 1 : stk[k + 1].sig # stk[1].sig
    BY <1>2, <1>4 DEF Distinct
  <1>6. Distinct(new)
    <2>1. SUFFICES ASSUME NEW i \in 1 .. n - 1, NEW j \in 1 .. n - 1, new[i].sig = new[j].sig
                   PROVE  i = j
      BY <1>3 DEF Distinct
    <2>2. i + 1 = j + 1
      BY <1>2, <1>3, <1>4, <2>1 DEF Distinct
    <2>3. QED
      BY <2>2
  <1>7. ASSUME NEW s
        PROVE  Emitting(s, new) <=> s # Head(stk).sig /\ Emitting(s, stk)
    <2>1. ASSUME Emitting(s, new)
          PROVE  s # Head(stk).sig /\ Emitting(s, stk)
      <3>1. PICK k \in 1 .. n - 1 : new[k].sig = s
        BY <1>3, <2>1 DEF Emitting
      <3>2. k + 1 \in DOMAIN stk /\ stk[k + 1].sig = s /\ s # stk[1].sig
        BY <1>2, <1>3, <1>4, <1>5, <3>1
      <3>3. QED
        BY <1>2, <3>2 DEF Emitting
    <2>2. ASSUME s # Head(stk).sig, Emitting(s, stk)
          PROVE  Emitting(s, new)
      <3>1. PICK k \in 1 .. n : stk[k].sig = s
        BY <1>2, <2>2 DEF Emitting
      <3>2. k # 1
        BY <1>2, <2>2, <3>1
      <3>3. k - 1 \in 1 .. n - 1 /\ (k - 1) + 1 = k
        BY <1>2, <3>2
      <3>4. new[k - 1] = stk[(k - 1) + 1]
        BY <1>3, <3>3
      <3>5. k - 1 \in DOMAIN new /\ new[k - 1].sig = s
        BY <1>3, <3>1, <3>3, <3>4
      <3>6. QED
        BY <3>5 DEF Emitting
    <2>3. QED
      BY <2>1, <2>2
  <1>8. \A k \in DOMAIN new : \E j \in DOMAIN stk : new[k] = stk[j] /\ stk[j].sig # Head(stk).sig
    BY <1>2, <1>3, <1>4, <1>5
  <1>9. QED
    BY <1>2, <1>6, <1>7, <1>8 DEF IsPopped
-----------------------------------------------------------------------------
(* EmissionInv when the stack stays, when its first frame is replaced,     *)
(* when a frame is pushed, and when one is popped                          *)
LEMMA EmissionStays ==
  ASSUME EmissionInv, UNCHANGED <<stack, isInUse>>,
         \A k \in DOMAIN stack : FrameFits(stack[k], slots'[stack[k].sig]),
         \A s \in Signals : ~Emitting(s, stack) => QuietLists(slots'[s])
  PROVE  EmissionInv'
  <1>1. Distinct(stack)' /\ \A s \in Signals : (isInUse[s] <=> Emitting(s, stack))'
    BY DEF EmissionInv, Distinct, Emitting
  <1>2. \A s \in Signals : (~Emitting(s, stack) => QuietLists(slots[s]))'
    BY DEF Emitting
  <1>3. \A k \in DOMAIN stack' : FrameFits(stack[k], slots[stack[k].sig])'
    OBVIOUS
  <1>4. QED
    BY <1>1, <1>2, <1>3 DEF EmissionInv

(* The innermost emission goes on to another frame;                        *)
LEMMA EmissionMoves ==
  ASSUME TypeOK, EmissionInv, stack # <<>>, NEW frame \in Frame, frame.sig = Sig, SetTop(frame),
         isInUse' = isInUse, \A s \in Signals : s # Sig => slots'[s] = slots[s],
         FrameFits(frame, slots'[Sig])
  PROVE  EmissionInv'
  <1>1. PICK stk, new : stk = stack /\ new = stack'
    OBVIOUS
  <1>2. stk \in Seq(Frame) /\ stk # <<>> /\ frame.sig = Head(stk).sig /\ new = <<frame>> \o Tail(stk)
    BY <1>1 DEF TypeOK, Sig, Top, SetTop
  <1>3. /\ DOMAIN new = DOMAIN stk /\ 1 \in DOMAIN stk /\ Head(stk) = stk[1]
        /\ \A k \in DOMAIN stk : new[k] = IF k = 1 THEN frame ELSE stk[k]
        /\ Distinct(stk) => Distinct(new)
        /\ \A s : Emitting(s, new) <=> Emitting(s, stk)
    <2>1. IsReplaced(stk, frame, new)
      BY <1>2, Replaced
    <2>2. QED
      BY <2>1 DEF IsReplaced
  <1>4. Distinct(stk) /\ Distinct(new)
    BY <1>1, <1>3 DEF EmissionInv
  <1>5. /\ \A s \in Signals : isInUse'[s] <=> Emitting(s, new)
        /\ \A s \in Signals : ~Emitting(s, new) => s # Sig /\ QuietLists(slots[s])
    <2>1. Emitting(Sig, stk)
      BY <1>1, <1>3 DEF Emitting, Sig, Top
    <2>2. QED
      BY <1>1, <1>3, <2>1 DEF EmissionInv
  <1>6. \A s \in Signals : ~Emitting(s, new) => QuietLists(slots'[s])
    BY <1>5
  <1>7. \A k \in DOMAIN new : FrameFits(new[k], slots'[new[k].sig])
    <2>1. SUFFICES ASSUME NEW k \in DOMAIN new
                   PROVE  FrameFits(new[k], slots'[new[k].sig])
      OBVIOUS
    <2>2. CASE k = 1
      BY <1>3, <2>2
    <2>3. CASE k # 1
      <3>1. new[k] = stk[k] /\ k \in DOMAIN stk
        BY <1>3, <2>3
      <3>2. stk[k].sig # Sig
        BY <1>1, <1>3, <1>4, <2>3, <3>1 DEF Distinct, Sig, Top
      <3>3. stk[k].sig \in Signals
        <4>1. stk[k] \in Frame
          BY <1>2, <3>1
        <4>2. QED
          BY <4>1 DEF Frame
      <3>4. FrameFits(stk[k], slots[stk[k].sig])
        BY <1>1, <3>1 DEF EmissionInv
      <3>5. slots'[stk[k].sig] = slots[stk[k].sig]
        BY <3>2, <3>3
      <3>6. QED
        BY <3>1, <3>4, <3>5
    <2>4. QED
      BY <2>2, <2>3
  <1>8. QED
    BY <1>1, <1>4, <1>5, <1>6, <1>7 DEF EmissionInv

(* it ends.                                                                *)
LEMMA EmissionPops ==
  ASSUME TypeOK, EmissionInv, stack # <<>>, LeaveEmit(Sig),
         \A s \in Signals : s # Sig => slots'[s] = slots[s], QuietLists(slots'[Sig])
  PROVE  EmissionInv'
  <1>1. PICK stk, new : stk = stack /\ new = stack'
    OBVIOUS
  <1>2. stk \in Seq(Frame) /\ stk # <<>> /\ Distinct(stk) /\ new = Tail(stk) /\ Sig = Head(stk).sig
    BY <1>1 DEF TypeOK, Sig, Top, LeaveEmit, EmissionInv
  <1>3. /\ Distinct(new) /\ Head(stk) = stk[1] /\ 1 \in DOMAIN stk
        /\ \A k \in DOMAIN new : \E j \in DOMAIN stk : new[k] = stk[j] /\ stk[j].sig # Sig
        /\ \A s : Emitting(s, new) <=> s # Sig /\ Emitting(s, stk)
    <2>1. IsPopped(stk, new)
      BY <1>2, Popped
    <2>2. QED
      BY <1>2, <2>1 DEF IsPopped
  <1>4. \A s \in Signals : isInUse'[s] <=> Emitting(s, new)
    BY <1>1, <1>3 DEF EmissionInv, TypeOK, LeaveEmit
  <1>5. \A s \in Signals : ~Emitting(s, new) => QuietLists(slots'[s])
    <2>1. SUFFICES ASSUME NEW s \in Signals, ~Emitting(s, new)
                   PROVE  QuietLists(slots'[s])
      OBVIOUS
    <2>2. CASE s = Sig
      BY <2>2
    <2>3. CASE s # Sig
      BY <1>1, <1>3, <2>1, <2>3 DEF EmissionInv
    <2>4. QED
      BY <2>2, <2>3
  <1>6. \A k \in DOMAIN new : FrameFits(new[k], slots'[new[k].sig])
    <2>1. SUFFICES ASSUME NEW k \in DOMAIN new
                   PROVE  FrameFits(new[k], slots'[new[k].sig])
      OBVIOUS
    <2>2. PICK j \in DOMAIN stk : new[k] = stk[j] /\ stk[j].sig # Sig
      BY <1>3
    <2>3. stk[j].sig \in Signals
      <3>1. stk[j] \in Frame
        BY <1>2
      <3>2. QED
        BY <3>1 DEF Frame
    <2>4. FrameFits(stk[j], slots[stk[j].sig])
      BY <1>1 DEF EmissionInv
    <2>5. slots'[stk[j].sig] = slots[stk[j].sig]
      BY <2>2, <2>3
    <2>6. QED
      BY <2>2, <2>4, <2>5
  <1>7. QED
    BY <1>1, <1>3, <1>4, <1>5, <1>6 DEF EmissionInv

(* The steps of the program *)
LEMMA ConnectMarks ==
  ASSUME HandlerInv, EmissionInv, NEW s \in Signals, NEW r \in Receivers, NEW l \in Lists,
         connect(s, r, l)
  PROVE  EmissionInv'
  <1>1. TypeOK /\ slots \in AllSlots
    BY DEF HandlerInv, TypeOK, AllSlots
  <1>2. PICK slot : slot = [r |-> r, disposed |-> FALSE, late |-> Emitting(s, stack), heard |-> 0]
    OBVIOUS
  <1>3. slot \in Slot /\ (slot.late <=> Emitting(s, stack)) /\ slot.heard = 0
    BY <1>2 DEF Slot, Emitting
  <1>4. slots' = [slots EXCEPT ![s] = [slots[s] EXCEPT ![l] = Append(@, slot)]]
        /\ UNCHANGED <<stack, isInUse>>
    BY <1>2 DEF connect
  <1>5. PICK old, new : old = slots[s][l] /\ new = Append(old, slot)
    OBVIOUS
  <1>6. old \in Seq(Slot)
    BY <1>1, <1>5 DEF AllSlots
  <1>7. PICK n : n = Len(old)
    OBVIOUS
  <1>8. /\ DOMAIN new = DOMAIN old \cup {n + 1} /\ n \in Nat /\ Len(new) = n + 1
        /\ \A i \in DOMAIN old : new[i] = old[i]
        /\ new[n + 1] = slot
    BY <1>3, <1>5, <1>6, <1>7, Appended
  <1>9. /\ slots'[s][l] = new
        /\ \A s1 \in Signals : s1 # s => slots'[s1] = slots[s1]
        /\ \A l1 \in Lists : l1 # l => slots'[s][l1] = slots[s][l1]
    BY <1>1, <1>4, <1>5 DEF AllSlots
  <1>10. ASSUME NEW k \in DOMAIN stack
         PROVE  FrameFits(stack[k], slots'[stack[k].sig])
    <2>1. PICK e : e = stack[k]
      OBVIOUS
    <2>2. e \in Frame /\ FrameFits(e, slots[e.sig])
      BY <1>1, <2>1 DEF EmissionInv, TypeOK
    <2>3. CASE e.sig # s
      <3>1. slots'[e.sig] = slots[e.sig]
        BY <1>9, <2>2, <2>3 DEF Frame
      <3>2. QED
        BY <2>1, <2>2, <3>1
    <2>4. CASE e.sig = s
      <3>1. slot.late
        BY <1>3, <2>1, <2>4 DEF Emitting
      <3>2. SUFFICES ASSUME NEW i \in 1 .. 3
                     PROVE  /\ e.lengths[ListOrder[i]] <= Len(slots'[s][ListOrder[i]])
                            /\ \A j \in DOMAIN slots'[s][ListOrder[i]] :
                                 LET x == slots'[s][ListOrder[i]][j]
                                 IN  /\ x.late <=> j > e.lengths[ListOrder[i]]
                                     /\ x.heard = IF Passed(e, i, j) THEN 1 ELSE 0
        BY <2>1, <2>4 DEF FrameFits
      <3>3. PICK m, l1 : l1 = ListOrder[i] /\ m = e.lengths[l1]
        OBVIOUS
      <3>4. l1 \in Lists /\ m \in Int
        BY <2>2, <3>3, ListNames DEF Frame
      <3>5. /\ m <= Len(slots[s][l1])
            /\ \A j \in DOMAIN slots[s][l1] :
                  /\ slots[s][l1][j].late <=> j > m
                  /\ slots[s][l1][j].heard = IF Passed(e, i, j) THEN 1 ELSE 0
        BY <2>2, <2>4, <3>3 DEF FrameFits
      <3>6. CASE l1 # l
        BY <1>9, <3>3, <3>4, <3>5, <3>6
      <3>7. CASE l1 = l
        <4>1. m <= n /\ m <= n + 1 /\ n + 1 > m
          BY <1>5, <1>7, <1>8, <3>4, <3>5, <3>7
        <4>2. ~Passed(e, i, n + 1)
          BY <1>8, <3>3, <3>4, <4>1 DEF Passed
        <4>3. ASSUME NEW j \in DOMAIN new
              PROVE  /\ new[j].late <=> j > m
                     /\ new[j].heard = IF Passed(e, i, j) THEN 1 ELSE 0
          <5>1. CASE j = n + 1
            BY <1>3, <1>8, <3>1, <4>1, <4>2, <5>1
          <5>2. CASE j \in DOMAIN old
            BY <1>5, <1>8, <3>5, <3>7, <5>2
          <5>3. QED
            BY <1>8, <5>1, <5>2
        <4>4. QED
          BY <1>8, <1>9, <3>3, <3>7, <4>1, <4>3
      <3>8. QED
        BY <3>6, <3>7
    <2>5. QED
      BY <2>3, <2>4
  <1>11. ASSUME NEW s1 \in Signals, ~Emitting(s1, stack)
         PROVE  QuietLists(slots'[s1])
    <2>1. QuietLists(slots[s1])
      BY <1>11 DEF EmissionInv
    <2>2. CASE s1 # s
      BY <1>9, <2>1, <2>2
    <2>3. CASE s1 = s
      <3>1. ~slot.late
        BY <1>3, <1>11, <2>3
      <3>2. ASSUME NEW l1 \in Lists, NEW i \in DOMAIN slots'[s][l1]
            PROVE  ~slots'[s][l1][i].late /\ slots'[s][l1][i].heard = 0
        <4>1. CASE l1 # l
          BY <1>9, <2>1, <2>3, <4>1 DEF QuietLists
        <4>2. CASE l1 = l
          <5>1. CASE i = n + 1
            BY <1>3, <1>8, <1>9, <3>1, <4>2, <5>1
          <5>2. CASE i \in DOMAIN old
            <6>1. slots'[s][l1][i] = old[i]
              BY <1>8, <1>9, <4>2, <5>2
            <6>2. QED
              BY <1>5, <2>1, <2>3, <4>2, <5>2, <6>1 DEF QuietLists
          <5>3. QED
            BY <1>8, <1>9, <4>2, <5>1, <5>2
        <4>3. QED
          BY <4>1, <4>2
      <3>3. QED
        BY <2>3, <3>2 DEF QuietLists
    <2>4. QED
      BY <2>2, <2>3
  <1>12. QED
    BY <1>4, <1>10, <1>11, EmissionStays

(* A disconnection empties a list or leaves it alone. *)
LEMMA WalkedLists ==
  ASSUME NEW st \in State, NEW l \in Lists, Len(st.lists[l]) <= 1, NEW r
  PROVE  /\ Walked(st, l, r) \in State
         /\ \A k \in Lists : \/ Walked(st, l, r).lists[k] = st.lists[k]
                             \/ DOMAIN Walked(st, l, r).lists[k] = {}
         /\ \A k \in Lists \ {l} : Walked(st, l, r).lists[k] = st.lists[k]
  <1>1. st.lists \in [Lists -> Seq(Slot)] /\ st.lists[l] \in Seq(Slot)
    BY DEF State
  <1>2. CASE Gone(st.lists[l], r)
    <2>1. PICK n, m : n = Len(st.lists[l]) /\ m = Len(listRemove(st.lists[l], 1))
      OBVIOUS
    <2>2. n \in Nat /\ n # 0 /\ n <= 1
      BY <1>1, <1>2, <2>1, EmptySeq DEF Gone
    <2>3. n = 1 /\ 1 \in 1 .. n
      BY <2>2
    <2>4. listRemove(st.lists[l], 1) \in Seq(Slot) /\ m = n - 1
      BY <1>1, <2>1, <2>3, Removed
    <2>5. DOMAIN listRemove(st.lists[l], 1) = 1 .. 0
      BY <2>1, <2>3, <2>4, LenProperties
    <2>6. DOMAIN listRemove(st.lists[l], 1) = {}
      BY <2>5
    <2>7. Walked(st, l, r).lists = [st.lists EXCEPT ![l] = listRemove(@, 1)]
      BY <1>2 DEF Walked, removeSlot
    <2>8. /\ Walked(st, l, r).lists[l] = listRemove(st.lists[l], 1)
          /\ \A k \in Lists \ {l} : Walked(st, l, r).lists[k] = st.lists[k]
      BY <1>1, <2>7
    <2>9. QED
      BY <2>6, <2>8, WalkedType
  <1>3. CASE ~Gone(st.lists[l], r)
    BY <1>3 DEF Walked
  <1>4. QED
    BY <1>2, <1>3

(* disconnect leaves each list as it is or empty, where it may remove      *)
(* slots.                                                                  *)
LEMMA DisconnectLists ==
  ASSUME NEW st \in State, NEW r, \A l \in ListsFor(r) : Len(st.lists[l]) <= 1
  PROVE  \A k \in Lists : \/ disconnectNow(st, r).lists[k] = st.lists[k]
                          \/ DOMAIN disconnectNow(st, r).lists[k] = {}
  <1>1. disconnectNow(st, r) =
           IF r \in Functions THEN Walked(st, "Func", r)
           ELSE IF Stops(st.lists["Weak"], r) THEN Walked(st, "Weak", r)
           ELSE Walked(Walked(st, "Weak", r), "Strong", r)
    BY DisconnectNowIs
  <1>2. "Func" \in Lists /\ "Weak" \in Lists /\ "Strong" \in Lists
    BY ListNames
  <1>3. CASE r \in Functions
    <2>1. Len(st.lists["Func"]) <= 1
      BY <1>3 DEF ListsFor
    <2>2. QED
      BY <1>1, <1>2, <1>3, <2>1, WalkedLists
  <1>4. CASE r \notin Functions
    <2>1. Len(st.lists["Weak"]) <= 1 /\ Len(st.lists["Strong"]) <= 1
      BY <1>4 DEF ListsFor
    <2>2. PICK weak : weak = Walked(st, "Weak", r)
      OBVIOUS
    <2>3. /\ weak \in State
          /\ \A k \in Lists : weak.lists[k] = st.lists[k] \/ DOMAIN weak.lists[k] = {}
          /\ weak.lists["Strong"] = st.lists["Strong"]
      BY <1>2, <2>1, <2>2, WalkedLists
    <2>4. \A k \in Lists : \/ Walked(weak, "Strong", r).lists[k] = weak.lists[k]
                           \/ DOMAIN Walked(weak, "Strong", r).lists[k] = {}
      BY <1>2, <2>1, <2>3, WalkedLists
    <2>5. QED
      BY <1>1, <1>4, <2>2, <2>3, <2>4
  <1>5. QED
    BY <1>3, <1>4
(* A disconnection at once touches no running emission, since its signal   *)
(* is not in use.                                                          *)
LEMMA DisconnectMarks ==
  ASSUME ~RemoveAny, HandlerInv, EmissionInv, NEW s \in Signals, NEW r \in Receivers, disconnect(s, r)
  PROVE  EmissionInv'
  <1>1. TypeOK /\ Tables
    BY DEF HandlerInv, Tables
  <1>2. slots \in AllSlots /\ Consistent(s, StateOf(s))
    BY <1>1, ConsistentNow
  <1>3. PICK st : st = StateOf(s)
    OBVIOUS
  <1>4. PICK after : after = disconnectNow(st, r).lists
    OBVIOUS
  <1>5. /\ MayRemove(s, r) /\ ~isInUse[s]
        /\ slots' = [slots EXCEPT ![s] = after]
        /\ UNCHANGED <<stack, isInUse>>
    BY <1>3, <1>4 DEF disconnect, SetState
  <1>6. st \in State /\ st.lists = slots[s] /\ Consistent(s, st)
    BY <1>2, <1>3 DEF Consistent, StateOf
  <1>7. \A l \in Lists : after[l] = slots[s][l] \/ DOMAIN after[l] = {}
    <2>1. \A l \in ListsFor(r) : Len(st.lists[l]) <= 1
      BY <1>5, <1>6, ShortLists
    <2>2. \A l \in Lists : \/ disconnectNow(st, r).lists[l] = st.lists[l]
                           \/ DOMAIN disconnectNow(st, r).lists[l] = {}
      BY <1>6, <2>1, DisconnectLists
    <2>3. QED
      BY <1>4, <1>6, <2>2
  <1>8. slots'[s] = after /\ \A s1 \in Signals : s1 # s => slots'[s1] = slots[s1]
    BY <1>2, <1>5 DEF AllSlots
  <1>9. ~Emitting(s, stack) /\ QuietLists(slots[s])
    BY <1>5 DEF EmissionInv
  <1>10. ASSUME NEW k \in DOMAIN stack
         PROVE  FrameFits(stack[k], slots'[stack[k].sig])
    <2>1. stack[k] \in Frame /\ FrameFits(stack[k], slots[stack[k].sig])
      BY <1>1 DEF EmissionInv, TypeOK
    <2>2. stack[k].sig # s /\ stack[k].sig \in Signals
      BY <1>9, <2>1 DEF Emitting, Frame
    <2>3. QED
      BY <1>8, <2>1, <2>2
  <1>11. ASSUME NEW s1 \in Signals, ~Emitting(s1, stack)
         PROVE  QuietLists(slots'[s1])
    <2>1. CASE s1 = s
      BY <1>7, <1>8, <1>9, <2>1 DEF QuietLists
    <2>2. CASE s1 # s
      BY <1>8, <1>11, <2>2 DEF EmissionInv
    <2>3. QED
      BY <2>1, <2>2
  <1>12. QED
    BY <1>5, <1>10, <1>11, EmissionStays

(* The end of a receiver keeps positions and marks of all slots.           *)
LEMMA DisposedMarks ==
  ASSUME HandlerInv, EmissionInv, NEW o \in Objects, onReceiverDisposed(o)
  PROVE  EmissionInv'
  <1>1. TypeOK /\ UNCHANGED <<stack, isInUse>>
    BY DEF HandlerInv, onReceiverDisposed
  <1>2. ASSUME NEW s \in Signals, NEW l \in Lists
        PROVE  /\ DOMAIN slots'[s][l] = DOMAIN slots[s][l]
               /\ Len(slots'[s][l]) = Len(slots[s][l])
               /\ \A i \in DOMAIN slots[s][l] : /\ slots'[s][l][i].late = slots[s][l][i].late
                                                /\ slots'[s][l][i].heard = slots[s][l][i].heard
    <2>1. CASE slots' = slots
      BY <2>1
    <2>2. CASE slots' # slots
      <3> DEFINE mark(slot) == IF getObject(slot) = o THEN [slot EXCEPT !.disposed = TRUE] ELSE slot
      <3>1. slots' = [s1 \in Signals |-> [l1 \in Lists |-> [i \in DOMAIN slots[s1][l1] |-> mark(slots[s1][l1][i])]]]
        BY <2>2 DEF onReceiverDisposed
      <3>2. \A x \in Slot : mark(x) \in Slot /\ mark(x).late = x.late /\ mark(x).heard = x.heard
        BY DEF Slot
      <3> HIDE DEF mark
      <3>3. PICK a, n : a = slots[s][l] /\ n = Len(a)
        OBVIOUS
      <3>4. a \in Seq(Slot) /\ n \in Nat /\ DOMAIN a = 1 .. n /\ \A i \in 1 .. n : a[i] \in Slot
        <4>1. a \in Seq(Slot)
          BY <1>1, <3>3 DEF TypeOK
        <4>2. QED
          BY <3>3, <4>1, LenProperties, ElementOfSeq
      <3>5. slots'[s][l] = [i \in 1 .. n |-> mark(a[i])]
        BY <3>1, <3>3, <3>4
      <3>6. slots'[s][l] \in [1 .. n -> Slot]
        BY <3>2, <3>4, <3>5
      <3>7. Len(slots'[s][l]) = n /\ DOMAIN slots'[s][l] = 1 .. n
        BY <3>4, <3>6, FunctionIsSeq
      <3>8. \A i \in 1 .. n : slots'[s][l][i].late = a[i].late /\ slots'[s][l][i].heard = a[i].heard
        BY <3>2, <3>4, <3>5
      <3>9. QED
        BY <3>3, <3>4, <3>7, <3>8
    <2>3. QED
      BY <2>1, <2>2
  <1>3. ASSUME NEW k \in DOMAIN stack
        PROVE  FrameFits(stack[k], slots'[stack[k].sig])
    <2>1. PICK e, s : e = stack[k] /\ s = e.sig
      OBVIOUS
    <2>2. e \in Frame /\ FrameFits(e, slots[s]) /\ s \in Signals
      <3>1. e \in Frame
        BY <1>1, <2>1 DEF TypeOK
      <3>2. QED
        BY <2>1, <3>1 DEF EmissionInv, Frame
    <2>3. ASSUME NEW i \in 1 .. 3
          PROVE  /\ e.lengths[ListOrder[i]] <= Len(slots'[s][ListOrder[i]])
                 /\ \A j \in DOMAIN slots'[s][ListOrder[i]] :
                      LET x == slots'[s][ListOrder[i]][j]
                      IN  /\ x.late <=> j > e.lengths[ListOrder[i]]
                          /\ x.heard = IF Passed(e, i, j) THEN 1 ELSE 0
      <3>1. PICK l : l = ListOrder[i]
        OBVIOUS
      <3>2. l \in Lists
        BY <3>1, ListNames
      <3>3. /\ e.lengths[l] <= Len(slots[s][l])
            /\ \A j \in DOMAIN slots[s][l] :
                 /\ slots[s][l][j].late <=> j > e.lengths[l]
                 /\ slots[s][l][j].heard = IF Passed(e, i, j) THEN 1 ELSE 0
        BY <2>2, <3>1 DEF FrameFits
      <3>4. QED
        BY <1>2, <2>2, <3>1, <3>2, <3>3
    <2>4. FrameFits(e, slots'[s])
      BY <2>3 DEF FrameFits
    <2>5. QED
      BY <2>1, <2>4
  <1>4. ASSUME NEW s \in Signals, ~Emitting(s, stack)
        PROVE  QuietLists(slots'[s])
    <2>1. QuietLists(slots[s])
      BY <1>4 DEF EmissionInv
    <2>2. QED
      BY <1>2, <2>1 DEF QuietLists
  <1>5. QED
    BY <1>1, <1>3, <1>4, EmissionStays

(* A new emission finds the slots of its signal without marks.             *)
LEMMA EmitMarks ==
  ASSUME ~Reemit, HandlerInv, EmissionInv, NEW s \in Signals, emit(s)
  PROVE  EmissionInv'
  <1>1. TypeOK
    BY DEF HandlerInv
  <1>2. PICK frame : frame = [sig |-> s, list |-> 1, slotId |-> 1, at |-> "loop",
                              lengths |-> [l \in Lists |-> Len(slots[s][l])]]
    OBVIOUS
  <1>3. /\ ~Emitting(s, stack) /\ isInUse' = [isInUse EXCEPT ![s] = TRUE]
        /\ stack' = <<frame>> \o stack /\ slots' = slots
    BY <1>2 DEF emit
  <1>4. frame \in Frame /\ frame.sig = s /\ frame.list = 1 /\ frame.slotId = 1 /\ frame.at = "loop"
        /\ \A l \in Lists : frame.lengths[l] = Len(slots[s][l])
    <2>1. \A l \in Lists : slots[s][l] \in Seq(Slot)
      BY <1>1 DEF TypeOK
    <2>2. [l \in Lists |-> Len(slots[s][l])] \in [Lists -> Int]
      BY <2>1
    <2>3. 1 \in 1 .. Len(ListOrder) + 1
      BY ListNames
    <2>4. frame \in Frame
      BY <1>2, <2>2, <2>3 DEF Frame
    <2>5. QED
      BY <1>2, <2>4
  <1>5. PICK stk, new : stk = stack /\ new = stack'
    OBVIOUS
  <1>6. stk \in Seq(Frame) /\ new = <<frame>> \o stk /\ ~Emitting(frame.sig, stk)
    BY <1>1, <1>3, <1>4, <1>5 DEF TypeOK
  <1>7. /\ 1 \in DOMAIN new /\ new[1] = frame
        /\ \A k \in DOMAIN new : k = 1 \/ \E j \in DOMAIN stk : new[k] = stk[j]
        /\ Distinct(stk) => Distinct(new)
        /\ \A s1 : Emitting(s1, new) <=> s1 = s \/ Emitting(s1, stk)
    <2>1. IsPushed(stk, frame, new)
      BY <1>4, <1>6, Pushed
    <2>2. QED
      BY <1>4, <2>1 DEF IsPushed
  <1>8. FrameFits(frame, slots[s])
    <2>1. QuietLists(slots[s])
      BY <1>3 DEF EmissionInv
    <2>2. ASSUME NEW i \in 1 .. 3
          PROVE  /\ frame.lengths[ListOrder[i]] <= Len(slots[s][ListOrder[i]])
                 /\ \A j \in DOMAIN slots[s][ListOrder[i]] :
                      LET x == slots[s][ListOrder[i]][j]
                      IN  /\ x.late <=> j > frame.lengths[ListOrder[i]]
                          /\ x.heard = IF Passed(frame, i, j) THEN 1 ELSE 0
      <3>1. PICK l, n : l = ListOrder[i] /\ n = Len(slots[s][l])
        OBVIOUS
      <3>2. l \in Lists
        BY <3>1, ListNames
      <3>3. slots[s][l] \in Seq(Slot)
        BY <1>1, <3>2 DEF TypeOK
      <3>4. n \in Nat /\ DOMAIN slots[s][l] = 1 .. n /\ frame.lengths[l] = n
        BY <1>4, <3>1, <3>2, <3>3, LenProperties
      <3>5. \A j \in 1 .. n : ~(j > n) /\ ~Passed(frame, i, j)
        BY <1>4, <3>4 DEF Passed
      <3>6. \A j \in 1 .. n : ~slots[s][l][j].late /\ slots[s][l][j].heard = 0
        BY <2>1, <3>2, <3>4 DEF QuietLists
      <3>7. QED
        BY <3>1, <3>4, <3>5, <3>6
    <2>3. QED
      BY <2>2 DEF FrameFits
  <1>9. \A s1 \in Signals : isInUse'[s1] <=> Emitting(s1, new)
    BY <1>1, <1>3, <1>5, <1>7 DEF EmissionInv, TypeOK
  <1>10. \A s1 \in Signals : ~Emitting(s1, new) => QuietLists(slots'[s1])
    BY <1>3, <1>5, <1>7 DEF EmissionInv
  <1>11. ASSUME NEW k \in DOMAIN new
         PROVE  FrameFits(new[k], slots'[new[k].sig])
    <2>1. CASE k = 1
      BY <1>3, <1>4, <1>7, <1>8, <2>1
    <2>2. CASE k # 1
      <3>1. PICK j \in DOMAIN stk : new[k] = stk[j]
        BY <1>7, <2>2
      <3>2. FrameFits(stk[j], slots[stk[j].sig])
        BY <1>5 DEF EmissionInv
      <3>3. QED
        BY <1>3, <3>1, <3>2
    <2>3. QED
      BY <2>1, <2>2
  <1>12. Distinct(new)
    BY <1>5, <1>7 DEF EmissionInv
  <1>13. QED
    BY <1>5, <1>9, <1>10, <1>11, <1>12 DEF EmissionInv
(* The innermost emission fits the slots of its signal.                    *)
LEMMA TopFits ==
  ASSUME TypeOK, EmissionInv, stack # <<>>
  PROVE  /\ Top \in Frame /\ Top = stack[1] /\ 1 \in DOMAIN stack
         /\ FrameFits(Top, slots[Sig]) /\ Emitting(Sig, stack)
  <1>1. stack \in Seq(Frame)
    BY DEF TypeOK
  <1>2. Top \in Frame /\ Top = stack[1] /\ 1 \in DOMAIN stack
    BY <1>1, HeadTailProperties DEF Top
  <1>3. QED
    BY <1>2 DEF EmissionInv, Emitting, Sig

(* A frame that has passed the same slots fits as well. *)
LEMMA FitsAlike ==
  ASSUME NEW e, NEW f, NEW lists, FrameFits(e, lists), f.lengths = e.lengths,
         \A i \in 1 .. 3 : \A j \in DOMAIN lists[ListOrder[i]] : Passed(f, i, j) <=> Passed(e, i, j)
  PROVE  FrameFits(f, lists)
  BY DEF FrameFits

(* The next list begins: all slots of the last one were passed.            *)
LEMMA NextListMarks ==
  ASSUME HandlerInv, EmissionInv, nextList
  PROVE  EmissionInv'
  <1>1. TypeOK /\ stack # <<>> /\ slots \in AllSlots
    BY DEF HandlerInv, nextList, Looping, TypeOK, AllSlots
  <1>2. PICK e, s : e = Top /\ s = Sig
    OBVIOUS
  <1>3. e \in Frame /\ FrameFits(e, slots[s]) /\ e.list \in 1 .. 4 /\ e.slotId \in Nat \ {0}
        /\ s \in Signals /\ e.sig = s /\ e.lengths \in [Lists -> Int]
    BY <1>1, <1>2, TopFits, TopFrame DEF TypeOK, Sig
  <1>4. PICK f : f = [e EXCEPT !.list = @ + 1, !.slotId = 1]
    OBVIOUS
  <1>5. /\ e.list \in 1 .. 3 /\ e.slotId > e.lengths[ListOrder[e.list]] /\ e.at = "loop"
        /\ SetTop(f) /\ slots' = slots /\ isInUse' = isInUse
    <2>1. Top.list <= 3 /\ Top.slotId > Top.lengths[ListOrder[Top.list]] /\ Top.at = "loop"
          /\ SetTop(f) /\ UNCHANGED connVars
      BY <1>2, <1>4, ListNames DEF nextList, Looping, List
    <2>2. QED
      BY <1>2, <1>3, <2>1 DEF connVars
  <1>6. /\ f.sig = s /\ f.lengths = e.lengths /\ f.list = e.list + 1 /\ f.slotId = 1 /\ f.at = "loop"
    BY <1>3, <1>4, <1>5 DEF Frame
  <1>7. f \in Frame
    <2>1. PICK j, one : j = e.list + 1 /\ one = 1
      OBVIOUS
    <2>2. j \in 1 .. Len(ListOrder) + 1 /\ one \in Nat \ {0}
      BY <1>5, <2>1, ListNames
    <2>3. [e EXCEPT !.list = j, !.slotId = one] \in Frame
      BY <1>3, <2>2 DEF Frame
    <2>4. QED
      BY <1>4, <2>1, <2>3
  <1>8. ASSUME NEW i \in 1 .. 3, NEW j \in DOMAIN slots[s][ListOrder[i]]
        PROVE  Passed(f, i, j) <=> Passed(e, i, j)
    <2>1. PICK m, k, p : m = e.lengths[ListOrder[i]] /\ k = e.list /\ p = e.slotId
      OBVIOUS
    <2>2. slots[s][ListOrder[i]] \in Seq(Slot)
      BY <1>1, <1>3, ListNames DEF AllSlots
    <2>3. m \in Int /\ k \in 1 .. 3 /\ p \in Nat /\ j \in Nat \ {0}
      BY <1>3, <1>5, <2>1, <2>2, ListNames, LenProperties
    <2>4. Passed(e, i, j) <=> j <= m /\ (i < k \/ (i = k /\ j < p))
      BY <1>5, <2>1 DEF Passed
    <2>5. Passed(f, i, j) <=> j <= m /\ (i < k + 1 \/ (i = k + 1 /\ j < 1))
      BY <1>6, <2>1 DEF Passed
    <2>6. i = k => p > m
      BY <1>5, <2>1
    <2>7. QED
      BY <2>3, <2>4, <2>5, <2>6
  <1>9. FrameFits(f, slots'[s])
    BY <1>3, <1>5, <1>6, <1>8, FitsAlike
  <1>10. QED
    BY <1>1, <1>2, <1>5, <1>6, <1>7, <1>9, EmissionMoves

(* The slot that was being called is passed.                               *)
LEMMA SlotReturnsMarks ==
  ASSUME HandlerInv, EmissionInv, slotReturns
  PROVE  EmissionInv'
  <1>1. TypeOK /\ stack # <<>> /\ slots \in AllSlots
    BY DEF HandlerInv, slotReturns, TypeOK, AllSlots
  <1>2. PICK e, s : e = Top /\ s = Sig
    OBVIOUS
  <1>3. e \in Frame /\ FrameFits(e, slots[s]) /\ e.list \in 1 .. 4 /\ e.slotId \in Nat \ {0}
        /\ s \in Signals /\ e.sig = s /\ e.lengths \in [Lists -> Int]
    BY <1>1, <1>2, TopFits, TopFrame DEF TypeOK, Sig
  <1>4. PICK f : f = [e EXCEPT !.at = "loop", !.slotId = @ + 1]
    OBVIOUS
  <1>5. e.at = "slot" /\ SetTop(f) /\ slots' = slots /\ isInUse' = isInUse
    BY <1>2, <1>4 DEF slotReturns, connVars
  <1>6. /\ f.sig = s /\ f.lengths = e.lengths /\ f.list = e.list /\ f.slotId = e.slotId + 1
        /\ f.at = "loop"
    BY <1>3, <1>4 DEF Frame
  <1>7. f \in Frame
    <2>1. PICK j : j = e.slotId + 1
      OBVIOUS
    <2>2. j \in Nat \ {0}
      BY <1>3, <2>1
    <2>3. [e EXCEPT !.at = "loop", !.slotId = j] \in Frame
      BY <1>3, <2>2 DEF Frame
    <2>4. QED
      BY <1>4, <2>1, <2>3
  <1>8. ASSUME NEW i \in 1 .. 3, NEW j \in DOMAIN slots[s][ListOrder[i]]
        PROVE  Passed(f, i, j) <=> Passed(e, i, j)
    <2>1. PICK m, k, p : m = e.lengths[ListOrder[i]] /\ k = e.list /\ p = e.slotId
      OBVIOUS
    <2>2. slots[s][ListOrder[i]] \in Seq(Slot)
      BY <1>1, <1>3, ListNames DEF AllSlots
    <2>3. m \in Int /\ k \in 1 .. 4 /\ p \in Nat /\ j \in Nat \ {0}
      BY <1>3, <1>5, <2>1, <2>2, ListNames, LenProperties
    <2>4. Passed(e, i, j) <=> j <= m /\ (i < k \/ (i = k /\ (j < p \/ j = p)))
      BY <1>5, <2>1 DEF Passed
    <2>5. Passed(f, i, j) <=> j <= m /\ (i < k \/ (i = k /\ j < p + 1))
      BY <1>6, <2>1 DEF Passed
    <2>6. QED
      BY <2>3, <2>4, <2>5
  <1>9. FrameFits(f, slots'[s])
    BY <1>3, <1>5, <1>6, <1>8, FitsAlike
  <1>10. QED
    BY <1>1, <1>2, <1>5, <1>6, <1>7, <1>9, EmissionMoves

(* A disposed slot that is dropped was the only one of its list.           *)
LEMMA DropMarks ==
  ASSUME HandlerInv, EmissionInv, dropDisposed
  PROVE  EmissionInv'
  <1>1. TypeOK /\ stack # <<>> /\ slots \in AllSlots /\ Tables
    BY DEF HandlerInv, Tables, dropDisposed, HasSlot, Looping, TypeOK, AllSlots
  <1>2. PICK e, s, l, p : e = Top /\ s = Sig /\ l = List /\ p = Top.slotId
    OBVIOUS
  <1>3. /\ e \in Frame /\ FrameFits(e, slots[s]) /\ e.list \in 1 .. 3 /\ p \in Nat \ {0}
        /\ s \in Signals /\ e.sig = s /\ e.lengths \in [Lists -> Int] /\ l \in Lists
        /\ l = ListOrder[e.list]
    BY <1>1, <1>2, TopFits, TopFrame DEF TypeOK, Sig, List, dropDisposed, HasSlot
  <1>4. PICK f : f = [e EXCEPT !.lengths[l] = @ - 1]
    OBVIOUS
  <1>5. /\ p <= Len(slots[s][l]) /\ slots[s][l][p].disposed
        /\ SetTop(f) /\ isInUse' = isInUse
        /\ slots' = [slots EXCEPT ![s] = removeSlot(StateOf(s), l, p).lists]
    BY <1>2, <1>4 DEF dropDisposed, Current, SetState
  <1>6. Len(slots[s][l]) = 1 /\ p = 1
    <2>1. PICK m, n : m = MaxSlots[s][l] /\ n = Len(slots[s][l])
      OBVIOUS
    <2>2. slots[s][l] \in Seq(Slot)
      BY <1>1, <1>3 DEF AllSlots
    <2>3. m \in Nat /\ n \in Nat /\ p <= n /\ DOMAIN slots[s][l] = 1 .. n
      BY <1>3, <1>5, <2>1, <2>2, LenProperties, SignalAssumption
    <2>4. Fits(s, l, slots[s][l])
      BY <1>1, <1>3 DEF Tables, SlotsFit
    <2>5. p \in 1 .. n
      BY <1>3, <2>3
    <2>6. n <= m /\ m <= 1
      BY <1>5, <2>1, <2>3, <2>4, <2>5 DEF Fits
    <2>7. p = 1 /\ n = 1
      BY <1>3, <2>3, <2>6
    <2>8. QED
      BY <2>1, <2>7
  <1>7. PICK rest : rest = listRemove(slots[s][l], 1)
    OBVIOUS
  <1>8. Len(rest) = 0 /\ DOMAIN rest = {}
    <2>1. slots[s][l] \in Seq(Slot)
      BY <1>1, <1>3 DEF AllSlots
    <2>2. 1 \in 1 .. Len(slots[s][l])
      BY <1>6
    <2>3. rest \in Seq(Slot) /\ Len(rest) = Len(slots[s][l]) - 1
      BY <1>7, <2>1, <2>2, Removed
    <2>4. Len(rest) = 0 /\ DOMAIN rest = 1 .. 0
      BY <1>6, <2>3, LenProperties
    <2>5. QED
      BY <2>4
  <1>9. /\ slots'[s][l] = rest
        /\ \A l1 \in Lists : l1 # l => slots'[s][l1] = slots[s][l1]
        /\ \A s1 \in Signals : s1 # s => slots'[s1] = slots[s1]
    <2>1. slots' = [slots EXCEPT ![s] = [slots[s] EXCEPT ![l] = rest]]
      BY <1>5, <1>6, <1>7 DEF removeSlot, StateOf
    <2>2. QED
      BY <1>1, <1>3, <2>1 DEF AllSlots
  <1>10. f \in Frame /\ f.sig = s /\ f.list = e.list /\ f.slotId = e.slotId /\ f.at = e.at
         /\ f.lengths = [e.lengths EXCEPT ![l] = @ - 1]
    BY <1>3, <1>4 DEF Frame
  <1>11. ASSUME NEW i \in 1 .. 3
         PROVE  /\ f.lengths[ListOrder[i]] <= Len(slots'[s][ListOrder[i]])
                /\ \A j \in DOMAIN slots'[s][ListOrder[i]] :
                     LET x == slots'[s][ListOrder[i]][j]
                     IN  /\ x.late <=> j > f.lengths[ListOrder[i]]
                         /\ x.heard = IF Passed(f, i, j) THEN 1 ELSE 0
    <2>1. PICK l1 : l1 = ListOrder[i]
      OBVIOUS
    <2>2. l1 \in Lists /\ e.lengths[l1] \in Int
      BY <1>3, <2>1, ListNames
    <2>3. /\ e.lengths[l1] <= Len(slots[s][l1])
          /\ \A j \in DOMAIN slots[s][l1] :
               /\ slots[s][l1][j].late <=> j > e.lengths[l1]
               /\ slots[s][l1][j].heard = IF Passed(e, i, j) THEN 1 ELSE 0
      BY <1>3, <2>1 DEF FrameFits
    <2>4. CASE l1 = l
      <3>1. f.lengths[l] = e.lengths[l] - 1 /\ e.lengths[l] <= 1
        BY <1>3, <1>6, <1>10, <2>3, <2>4
      <3>2. f.lengths[l] <= 0
        BY <2>2, <2>4, <3>1
      <3>3. QED
        BY <1>8, <1>9, <2>1, <2>4, <3>2
    <2>5. CASE l1 # l
      <3>1. f.lengths[l1] = e.lengths[l1] /\ slots'[s][l1] = slots[s][l1]
        BY <1>3, <1>9, <1>10, <2>2, <2>5
      <3>2. \A j : Passed(f, i, j) <=> Passed(e, i, j)
        BY <1>10, <2>1, <3>1 DEF Passed
      <3>3. QED
        BY <2>1, <2>3, <3>1, <3>2
    <2>6. QED
      BY <2>4, <2>5
  <1>12. FrameFits(f, slots'[s])
    BY <1>11 DEF FrameFits
  <1>13. QED
    BY <1>1, <1>2, <1>5, <1>9, <1>10, <1>12, EmissionMoves

(* What a call changes of the slots *)
LEMMA CalledMarks ==
  ASSUME NEW a \in [Lists -> Seq(Slot)], NEW l \in Lists, NEW p \in 1 .. Len(a[l]),
         NEW b, b = [a EXCEPT ![l][p].heard = @ + 1]
  PROVE  /\ \A l1 \in Lists : DOMAIN b[l1] = DOMAIN a[l1] /\ Len(b[l1]) = Len(a[l1])
         /\ \A l1 \in Lists : \A j \in DOMAIN a[l1] :
              /\ b[l1][j].late = a[l1][j].late
              /\ b[l1][j].heard = IF l1 = l /\ j = p THEN a[l1][j].heard + 1 ELSE a[l1][j].heard
  <1>1. a[l] \in Seq(Slot)
    OBVIOUS
  <1>2. PICK slot : slot = [a[l][p] EXCEPT !.heard = @ + 1]
    OBVIOUS
  <1>3. a[l][p] \in Slot
    BY <1>1, ElementOfSeq
  <1>4. slot \in Slot /\ slot.late = a[l][p].late /\ slot.heard = a[l][p].heard + 1
    <2>1. \A x \in Slot : /\ [x EXCEPT !.heard = @ + 1] \in Slot
                          /\ [x EXCEPT !.heard = @ + 1].late = x.late
                          /\ [x EXCEPT !.heard = @ + 1].heard = x.heard + 1
      BY DEF Slot
    <2>2. QED
      BY <1>2, <1>3, <2>1
  <1>5. PICK list : list = [a[l] EXCEPT ![p] = slot]
    OBVIOUS
  <1>6. /\ list \in Seq(Slot) /\ Len(list) = Len(a[l]) /\ DOMAIN list = DOMAIN a[l]
        /\ DOMAIN a[l] = 1 .. Len(a[l])
        /\ \A j \in 1 .. Len(a[l]) : list[j] = IF j = p THEN slot ELSE a[l][j]
    <2>1. /\ list \in Seq(Slot) /\ Len(list) = Len(a[l])
          /\ \A j \in 1 .. Len(a[l]) : list[j] = IF j = p THEN slot ELSE a[l][j]
      BY <1>1, <1>4, <1>5, ExceptSeq
    <2>2. QED
      BY <1>1, <2>1, LenProperties
  <1>7. b = [a EXCEPT ![l] = list]
    BY <1>2, <1>5
  <1>8. b[l] = list /\ \A l1 \in Lists : l1 # l => b[l1] = a[l1]
    BY <1>6, <1>7
  <1>9. \A l1 \in Lists : DOMAIN b[l1] = DOMAIN a[l1] /\ Len(b[l1]) = Len(a[l1])
    BY <1>6, <1>8
  <1>10. ASSUME NEW l1 \in Lists, NEW j \in DOMAIN a[l1]
         PROVE  /\ b[l1][j].late = a[l1][j].late
                /\ b[l1][j].heard = IF l1 = l /\ j = p THEN a[l1][j].heard + 1 ELSE a[l1][j].heard
    <2>1. CASE l1 # l
      BY <1>8, <2>1
    <2>2. CASE l1 = l
      <3>1. b[l1][j] = IF j = p THEN slot ELSE a[l][j]
        BY <1>6, <1>8, <2>2
      <3>2. QED
        BY <1>4, <2>2, <3>1
    <2>3. QED
      BY <2>1, <2>2
  <1>11. QED
    BY <1>9, <1>10
-----------------------------------------------------------------------------
(* A slot that is called is heard, for the first time.                     *)
LEMMA CallMarks ==
  ASSUME HandlerInv, EmissionInv, callSlot
  PROVE  EmissionInv'
  <1>1. TypeOK /\ stack # <<>> /\ slots \in AllSlots
    BY DEF HandlerInv, callSlot, HasSlot, Looping, TypeOK, AllSlots
  <1>2. PICK e, s, l, p : e = Top /\ s = Sig /\ l = List /\ p = Top.slotId
    OBVIOUS
  <1>3. /\ e \in Frame /\ FrameFits(e, slots[s]) /\ e.list \in 1 .. 3 /\ p \in Nat \ {0}
        /\ s \in Signals /\ e.sig = s /\ e.lengths \in [Lists -> Int] /\ l \in Lists
        /\ l = ListOrder[e.list] /\ e.slotId = p
    BY <1>1, <1>2, TopFits, TopFrame DEF TypeOK, Sig, List, callSlot, HasSlot
  <1>4. PICK f : f = [e EXCEPT !.at = "slot"]
    OBVIOUS
  <1>5. PICK a, b : a = slots[s] /\ b = [a EXCEPT ![l][p].heard = @ + 1]
    OBVIOUS
  <1>6. /\ p <= e.lengths[l] /\ p <= Len(a[l]) /\ e.at = "loop"
        /\ SetTop(f) /\ isInUse' = isInUse
        /\ slots' = [slots EXCEPT ![s] = b]
    BY <1>2, <1>4, <1>5 DEF callSlot, HasSlot, Looping
  <1>7. a \in [Lists -> Seq(Slot)] /\ p \in 1 .. Len(a[l])
    <2>1. a \in [Lists -> Seq(Slot)]
      BY <1>1, <1>3, <1>5 DEF AllSlots
    <2>2. PICK n : n = Len(a[l])
      OBVIOUS
    <2>3. a[l] \in Seq(Slot)
      BY <1>3, <2>1
    <2>4. n \in Nat /\ p <= n
      BY <1>6, <2>2, <2>3
    <2>5. p \in 1 .. n
      BY <1>3, <2>4
    <2>6. QED
      BY <2>1, <2>2, <2>5
  <1>8. /\ \A l1 \in Lists : DOMAIN b[l1] = DOMAIN a[l1] /\ Len(b[l1]) = Len(a[l1])
        /\ \A l1 \in Lists : \A j \in DOMAIN a[l1] :
             /\ b[l1][j].late = a[l1][j].late
             /\ b[l1][j].heard = IF l1 = l /\ j = p THEN a[l1][j].heard + 1 ELSE a[l1][j].heard
    BY <1>3, <1>5, <1>7, CalledMarks
  <1>9. slots'[s] = b /\ \A s1 \in Signals : s1 # s => slots'[s1] = slots[s1]
    BY <1>1, <1>3, <1>6 DEF AllSlots
  <1>10. f \in Frame /\ f.sig = s /\ f.list = e.list /\ f.slotId = p /\ f.at = "slot"
         /\ f.lengths = e.lengths
    BY <1>3, <1>4 DEF Frame
  <1>11. ASSUME NEW i \in 1 .. 3
         PROVE  /\ f.lengths[ListOrder[i]] <= Len(b[ListOrder[i]])
                /\ \A j \in DOMAIN b[ListOrder[i]] :
                     LET x == b[ListOrder[i]][j]
                     IN  /\ x.late <=> j > f.lengths[ListOrder[i]]
                         /\ x.heard = IF Passed(f, i, j) THEN 1 ELSE 0
    <2>1. PICK l1, m, k : l1 = ListOrder[i] /\ m = e.lengths[l1] /\ k = e.list
      OBVIOUS
    <2>2. l1 \in Lists /\ m \in Int /\ k \in 1 .. 3 /\ (l1 = l <=> i = k)
      BY <1>3, <2>1, ListNames, ListNumbers
    <2>3. /\ m <= Len(a[l1])
          /\ \A j \in DOMAIN a[l1] :
               /\ a[l1][j].late <=> j > m
               /\ a[l1][j].heard = IF Passed(e, i, j) THEN 1 ELSE 0
      BY <1>3, <1>5, <2>1 DEF FrameFits
    <2>4. ASSUME NEW j \in DOMAIN a[l1]
          PROVE  b[l1][j].heard = IF Passed(f, i, j) THEN 1 ELSE 0
      <3>1. a[l1] \in Seq(Slot)
        BY <1>7, <2>2
      <3>2. j \in Nat \ {0}
        BY <3>1, LenProperties
      <3>3. Passed(e, i, j) <=> j <= m /\ (i < k \/ (i = k /\ j < p))
        BY <1>3, <1>6, <2>1 DEF Passed
      <3>4. Passed(f, i, j) <=> j <= m /\ (i < k \/ (i = k /\ (j < p \/ j = p)))
        BY <1>10, <2>1 DEF Passed
      <3>5. CASE l1 = l /\ j = p
        <4>1. ~Passed(e, i, j)
          BY <1>3, <2>2, <3>3, <3>5
        <4>2. Passed(f, i, j)
          BY <1>6, <2>1, <2>2, <3>4, <3>5
        <4>3. a[l1][j].heard = 0
          BY <2>3, <4>1
        <4>4. b[l1][j].heard = 0 + 1
          BY <1>8, <2>2, <3>5, <4>3
        <4>5. QED
          BY <4>2, <4>4
      <3>6. CASE ~(l1 = l /\ j = p)
        <4>1. Passed(f, i, j) <=> Passed(e, i, j)
          BY <2>2, <3>3, <3>4, <3>6
        <4>2. b[l1][j].heard = a[l1][j].heard
          BY <1>8, <2>2, <3>6
        <4>3. QED
          BY <2>3, <4>1, <4>2
      <3>7. QED
        BY <3>5, <3>6
    <2>5. QED
      BY <1>8, <1>10, <2>1, <2>2, <2>3, <2>4
  <1>12. FrameFits(f, slots'[s])
    BY <1>9, <1>11 DEF FrameFits
  <1>13. QED
    BY <1>1, <1>2, <1>6, <1>9, <1>10, <1>12, EmissionMoves

(* When an emission ends, no slot of its signal keeps a mark. *)
LEMMA LeftQuiet ==
  ASSUME TypeOK, EmissionInv, stack # <<>>, NEW a \in [Lists -> Seq(Slot)]
  PROVE  QuietLists(Unmarked(Sig, a))
  <1>1. PICK stk, new, s, b : stk = stack /\ new = Tail(stack) /\ s = Sig /\ b = Unmarked(Sig, a)
    OBVIOUS
  <1>2. stk \in Seq(Frame) /\ stk # <<>> /\ new = Tail(stk) /\ Distinct(stk) /\ s = Head(stk).sig
    BY <1>1 DEF TypeOK, EmissionInv, Sig, Top
  <1>3. IsPopped(stk, new)
    BY <1>2, Popped
  <1>4. ~Emitting(s, new)
    BY <1>2, <1>3 DEF IsPopped
  <1>5. b = [l \in Lists |-> [i \in DOMAIN a[l] |-> [a[l][i] EXCEPT !.late = FALSE, !.heard = 0]]]
    BY <1>1, <1>4 DEF Unmarked
  <1>6. ASSUME NEW l \in Lists, NEW i \in DOMAIN b[l]
        PROVE  ~b[l][i].late /\ b[l][i].heard = 0
    <2>1. a[l] \in Seq(Slot)
      OBVIOUS
    <2>2. i \in DOMAIN a[l] /\ b[l][i] = [a[l][i] EXCEPT !.late = FALSE, !.heard = 0]
      BY <1>5, <1>6
    <2>3. a[l][i] \in Slot
      BY <2>1, <2>2, ElementOfSeq, LenProperties
    <2>4. \A x \in Slot : /\ ~[x EXCEPT !.late = FALSE, !.heard = 0].late
                          /\ [x EXCEPT !.late = FALSE, !.heard = 0].heard = 0
      BY DEF Slot
    <2>5. QED
      BY <2>2, <2>3, <2>4
  <1>7. QED
    BY <1>1, <1>6 DEF QuietLists

(* The end of an emission keeps EmissionInv, by an exception ...           *)
LEMMA ThrowMarks ==
  ASSUME HandlerInv, EmissionInv, slotThrows
  PROVE  EmissionInv'
  <1>1. TypeOK /\ stack # <<>> /\ slots \in AllSlots
    BY DEF HandlerInv, slotThrows, TypeOK, AllSlots
  <1>2. Sig \in Signals
    BY <1>1, TopFrame DEF TypeOK
  <1>3. PICK s, lists : s = Sig /\ lists = Unmarked(Sig, slots[Sig])
    OBVIOUS
  <1>4. LeaveEmit(Sig) /\ slots' = [slots EXCEPT ![s] = lists]
    BY <1>3 DEF slotThrows
  <1>5. slots[Sig] \in [Lists -> Seq(Slot)]
    BY <1>1, <1>2 DEF AllSlots
  <1>6. QuietLists(lists)
    BY <1>1, <1>3, <1>5, LeftQuiet
  <1>7. slots'[s] = lists /\ \A s1 \in Signals : s1 # s => slots'[s1] = slots[s1]
    BY <1>1, <1>2, <1>3, <1>4 DEF AllSlots
  <1>8. QED
    BY <1>1, <1>3, <1>4, <1>6, <1>7, EmissionPops

(* The slots after the delayed disconnections *)
Requested(s, queue, st) ==
  /\ s = Sig /\ queue = delayed[s]["fn"] \o delayed[s]["dg"]
  /\ st = DisconnectAll(StateOf(s), queue)[Len(queue)]

(* The disconnections that a return makes, as one state of the signal      *)
LEMMA QueueDone ==
  ASSUME ~RemoveAny, HandlerInv, emitReturns, NEW s, NEW queue, NEW st, Requested(s, queue, st)
  PROVE  /\ Consistent(s, st) /\ st \in State /\ st.lists \in [Lists -> Seq(Slot)]
         /\ slots' = [slots EXCEPT ![s] = Unmarked(s, st.lists)]
  <1>1. TypeOK /\ Tables /\ DelayedFit
    BY DEF HandlerInv, Tables
  <1> USE DEF Requested
  <1>2. stack # <<>> /\ stack \in Seq(Frame)
    BY <1>1 DEF emitReturns, Looping, TypeOK
  <1>3. s \in Signals
    BY <1>2, TopFrame
  <1>4. slots \in AllSlots /\ Consistent(s, StateOf(s))
    BY <1>1, <1>3, ConsistentNow
  <1>5. Len(queue) \in Nat /\ \A k \in 1 .. Len(queue) : MayRemove(s, queue[k])
    BY <1>1, <1>3, QueueFit
  <1>6. Consistent(s, st)
    <2>1. PICK n : n = Len(queue)
      OBVIOUS
    <2>2. n \in Nat /\ n \in 0 .. n /\ \A k \in 1 .. n : MayRemove(s, queue[k])
      BY ONLY <1>5, <2>1
    <2>3. \A k \in 0 .. n : Consistent(s, DisconnectAll(StateOf(s), queue)[k])
      BY <1>3, <1>4, <2>2, ConsistentQueue
    <2>4. QED
      BY <2>1, <2>2, <2>3
  <1>7. st \in State /\ st.lists \in [Lists -> Seq(Slot)]
    BY <1>6 DEF Consistent, State
  <1>8. PICK st2 : st2 = [st EXCEPT !.lists = Unmarked(s, @)]
    OBVIOUS
  <1>9. slots' = [slots EXCEPT ![s] = st2.lists]
    BY <1>8 DEF emitReturns, SetState
  <1>10. st2.lists = Unmarked(s, st.lists)
    BY <1>7, <1>8 DEF State
  <1>11. QED
    BY <1>6, <1>7, <1>9, <1>10

(* ... or by a return.                                                     *)
LEMMA ReturnMarks ==
  ASSUME ~RemoveAny, HandlerInv, EmissionInv, emitReturns
  PROVE  EmissionInv'
  <1>1. TypeOK /\ stack # <<>> /\ slots \in AllSlots
    BY DEF HandlerInv, emitReturns, Looping, TypeOK, AllSlots
  <1>2. Sig \in Signals
    BY <1>1, TopFrame DEF TypeOK
  <1>3. PICK s : s = Sig
    OBVIOUS
  <1>4. PICK queue : queue = delayed[s]["fn"] \o delayed[s]["dg"]
    OBVIOUS
  <1>5. PICK st : st = DisconnectAll(StateOf(s), queue)[Len(queue)]
    OBVIOUS
  <1>6. st.lists \in [Lists -> Seq(Slot)] /\ slots' = [slots EXCEPT ![s] = Unmarked(s, st.lists)]
    <2>1. Requested(s, queue, st)
      BY <1>3, <1>4, <1>5 DEF Requested
    <2>2. QED
      BY <2>1, QueueDone
  <1>7. QuietLists(Unmarked(s, st.lists))
    BY <1>1, <1>3, <1>6, LeftQuiet
  <1>8. slots'[s] = Unmarked(s, st.lists) /\ \A s1 \in Signals : s1 # s => slots'[s1] = slots[s1]
    BY <1>1, <1>2, <1>3, <1>6 DEF AllSlots
  <1>9. LeaveEmit(Sig)
    BY DEF emitReturns
  <1>10. QED
    BY <1>1, <1>3, <1>7, <1>8, <1>9, EmissionPops
-----------------------------------------------------------------------------
(* EmissionInv holds at first and is kept by every step.                   *)
LEMMA EmissionInvInit == Init => EmissionInv
  <1>1. SUFFICES ASSUME Init
                 PROVE  EmissionInv
    OBVIOUS
  <1>2. stack = <<>> /\ DOMAIN stack = {} /\ \A s \in Signals : ~isInUse[s]
    BY <1>1 DEF Init
  <1>3. \A s \in Signals, l \in Lists : DOMAIN slots[s][l] = {}
    <2>1. slots = [s \in Signals |-> [l \in Lists |-> <<>>]]
      BY <1>1 DEF Init
    <2>2. DOMAIN <<>> = {}
      OBVIOUS
    <2>3. QED
      BY <2>1, <2>2
  <1>4. QED
    BY <1>2, <1>3 DEF EmissionInv, Distinct, Emitting, QuietLists

(* The step of the induction, action by action                             *)
LEMMA EmissionInvNext ==
  ASSUME ~RemoveAny, ~Reemit, HandlerInv, EmissionInv, [Next]_vars
  PROVE  EmissionInv'
  <1>1. ASSUME UNCHANGED <<slots, isInUse, stack>>
        PROVE  EmissionInv'
    <2>1. \A k \in DOMAIN stack : FrameFits(stack[k], slots'[stack[k].sig])
      BY <1>1 DEF EmissionInv
    <2>2. \A s \in Signals : ~Emitting(s, stack) => QuietLists(slots'[s])
      BY <1>1 DEF EmissionInv
    <2>3. QED
      BY <1>1, <2>1, <2>2, EmissionStays
  <1>2. CASE UNCHANGED vars
    BY <1>1, <1>2 DEF vars, connVars
  <1>3. ASSUME NEW s \in Signals, NEW r \in Receivers, disconnectLater(s, r)
        PROVE  EmissionInv'
    BY <1>1, <1>3 DEF disconnectLater
  <1>4. ASSUME NEW s \in Signals, NEW r \in Receivers, disconnect(s, r)
        PROVE  EmissionInv'
    BY <1>4, DisconnectMarks
  <1>5. ASSUME NEW s \in Signals, NEW r \in Receivers, NEW l \in Lists, connect(s, r, l)
        PROVE  EmissionInv'
    BY <1>5, ConnectMarks
  <1>6. ASSUME NEW s \in Signals, emit(s)
        PROVE  EmissionInv'
    BY <1>6, EmitMarks
  <1>7. ASSUME NEW o \in Objects, onReceiverDisposed(o)
        PROVE  EmissionInv'
    BY <1>7, DisposedMarks
  <1>8. CASE blockSignals \/ unblockSignals
    BY <1>1, <1>8 DEF blockSignals, unblockSignals, connVars
  <1>9. CASE nextList
    BY <1>9, NextListMarks
  <1>10. CASE slotReturns
    BY <1>10, SlotReturnsMarks
  <1>11. CASE dropDisposed
    BY <1>11, DropMarks
  <1>12. CASE callSlot
    BY <1>12, CallMarks
  <1>13. CASE emitReturns
    BY <1>13, ReturnMarks
  <1>14. CASE slotThrows
    BY <1>14, ThrowMarks
  <1>15. QED
    BY <1>2, <1>3, <1>4, <1>5, <1>6, <1>7, <1>8, <1>9, <1>10, <1>11, <1>12, <1>13, <1>14 DEF Next

(* Where, besides, no slot emits the signal that called it, the running    *)
(* emissions stay those of EmissionInv.                                    *)
THEOREM EmissionInvariant ==
  ASSUME ~RemoveAny, ~Reemit
  PROVE  Spec => [](HandlerInv /\ EmissionInv)
  <1>1. Init => HandlerInv /\ EmissionInv
    BY HandlerInvInit, EmissionInvInit
  <1>2. HandlerInv /\ EmissionInv /\ [Next]_vars => (HandlerInv /\ EmissionInv)'
    BY HandlerInvNext, EmissionInvNext
  <1>3. QED
    BY <1>1, <1>2, PTL DEF Spec

(* The loop of emit stays within the list it walks, although slots connect *)
(* to the signal and destroy receivers under it.                           *)
LEMMA InBounds ==
  ASSUME HandlerInv, EmissionInv
  PROVE  LoopInBounds
  <1>1. SUFFICES ASSUME HasSlot
                 PROVE  Top.slotId <= Len(slots[Sig][List])
    BY DEF LoopInBounds
  <1>2. TypeOK /\ stack # <<>> /\ stack \in Seq(Frame) /\ Top.list <= Len(ListOrder)
        /\ Top.slotId <= Top.lengths[List]
    BY <1>1 DEF HandlerInv, HasSlot, Looping, TypeOK
  <1>3. Sig \in Signals /\ Top.list \in 1 .. 3 /\ List \in Lists /\ Top.slotId \in Nat \ {0}
        /\ Top.lengths \in [Lists -> Int]
    BY <1>2, TopFrame
  <1>4. Top.lengths[List] <= Len(slots[Sig][List])
    BY <1>2, <1>3, TopFits DEF FrameFits, List
  <1>5. PICK i, m, n : i = Top.slotId /\ m = Top.lengths[List] /\ n = Len(slots[Sig][List])
    OBVIOUS
  <1>6. slots[Sig][List] \in Seq(Slot)
    BY <1>2, <1>3 DEF TypeOK
  <1>7. i \in Nat /\ m \in Int /\ n \in Nat /\ i <= m /\ m <= n
    BY <1>2, <1>3, <1>4, <1>5, <1>6, LenProperties
  <1>8. i <= n
    BY <1>7
  <1>9. QED
    BY <1>5, <1>8

(* The loop of emit stays within the list it walks, although slots change  *)
(* the lists under it.                                                     *)
THEOREM Bounded ==
  ASSUME ~RemoveAny, ~Reemit
  PROVE  Spec => []LoopInBounds
  <1>1. HandlerInv /\ EmissionInv => LoopInBounds
    BY InBounds
  <1>2. QED
    BY <1>1, EmissionInvariant, PTL

(* A slot that is called was there when the emission began.                *)
LEMMA NoLateCall ==
  ASSUME HandlerInv, EmissionInv, callSlot
  PROVE  ~Current.late
  <1>1. TypeOK /\ stack # <<>> /\ stack \in Seq(Frame) /\ Top.list <= Len(ListOrder)
        /\ Top.slotId <= Top.lengths[List] /\ Top.slotId <= Len(slots[Sig][List])
    BY DEF callSlot, HandlerInv, HasSlot, Looping, TypeOK
  <1>2. Sig \in Signals /\ Top.list \in 1 .. 3 /\ List \in Lists /\ Top.slotId \in Nat \ {0}
        /\ Top.lengths \in [Lists -> Int]
    BY <1>1, TopFrame
  <1>3. PICK i, m, list : i = Top.slotId /\ m = Top.lengths[List] /\ list = slots[Sig][List]
    OBVIOUS
  <1>4. \A j \in DOMAIN list : list[j].late <=> j > m
    BY <1>1, <1>2, <1>3, TopFits DEF FrameFits, List
  <1>5. list \in Seq(Slot)
    BY <1>1, <1>2, <1>3 DEF TypeOK
  <1>6. PICK n : n = Len(list)
    OBVIOUS
  <1>7. n \in Nat /\ DOMAIN list = 1 .. n /\ i \in Nat \ {0} /\ m \in Int /\ i <= m /\ i <= n
    BY <1>1, <1>2, <1>3, <1>5, <1>6, LenProperties
  <1>8. i \in DOMAIN list /\ ~(i > m)
    BY <1>7
  <1>9. QED
    BY <1>3, <1>4, <1>8 DEF Current

(* An emission that returns has called every slot it found.                *)
LEMMA AllHeard ==
  ASSUME HandlerInv, EmissionInv, emitReturns, NEW l \in Lists, NEW j \in DOMAIN slots[Sig][l],
         ~slots[Sig][l][j].late
  PROVE  slots[Sig][l][j].heard = 1
  <1>1. TypeOK /\ stack # <<>> /\ stack \in Seq(Frame) /\ Top.list > Len(ListOrder)
    BY DEF emitReturns, HandlerInv, Looping, TypeOK
  <1>2. Sig \in Signals /\ Top.list \in 1 .. 4 /\ Top.lengths \in [Lists -> Int]
    BY <1>1, TopFrame
  <1>3. PICK i \in 1 .. 3 : l = ListOrder[i]
    BY ListNumbers
  <1>4. PICK e, list, k, m : e = Top /\ list = slots[Sig][l] /\ k = e.list /\ m = e.lengths[l]
    OBVIOUS
  <1>5. k > 3 /\ k \in 1 .. 4 /\ m \in Int
    BY <1>1, <1>2, <1>4, ListNames
  <1>6. /\ list[j].late <=> j > m
        /\ list[j].heard = IF Passed(e, i, j) THEN 1 ELSE 0
    BY <1>1, <1>3, <1>4, TopFits DEF FrameFits
  <1>7. j \in Nat
    <2>1. list \in Seq(Slot)
      BY <1>1, <1>2, <1>4 DEF TypeOK
    <2>2. QED
      BY <1>4, <2>1, LenProperties
  <1>8. j <= m /\ i < k
    BY <1>4, <1>5, <1>6, <1>7
  <1>9. Passed(e, i, j)
    BY <1>3, <1>4, <1>8 DEF Passed
  <1>10. QED
    BY <1>4, <1>6, <1>9

(* An emission calls, exactly once each, the slots it found whose receiver *)
(* still exists when it ends, and none of those connected on the way.      *)
THEOREM CallsSlotsFound ==
  ASSUME ~RemoveAny, ~Reemit
  PROVE  Spec => EmissionCallsSlotsFound
  <1>1. HandlerInv /\ EmissionInv /\ [Next]_vars
          => [/\ callSlot => ~Current.late
              /\ emitReturns => \A l \in Lists : \A i \in DOMAIN slots[Sig][l] :
                   LET slot == slots[Sig][l][i]
                   IN  ~slot.late /\ ~slot.disposed => slot.heard = 1]_vars
    BY NoLateCall, AllHeard
  <1>2. QED
    BY <1>1, EmissionInvariant, PTL DEF Spec, EmissionCallsSlotsFound
-----------------------------------------------------------------------------
(* How many slots of each receiver a disconnection leaves *)
OneLess(a, b, r) ==
  \A q : Cardinality(SlotsOf(b, q)) =
           IF q = r /\ Cardinality(SlotsOf(a, q)) > 0 THEN Cardinality(SlotsOf(a, q)) - 1
           ELSE Cardinality(SlotsOf(a, q))

AsMany(a, b) == \A q : SlotsOf(a, q) = SlotsOf(b, q)

NoneIn(lists, l, r) == \A i : <<l, i>> \notin SlotsOf(lists, r)

(* removeSlot on a list of one slot empties it and touches no other.       *)
LEMMA RemovedLists ==
  ASSUME NEW st \in State, NEW l \in Lists, Len(st.lists[l]) = 1
  PROVE  /\ removeSlot(st, l, 1).lists \in [Lists -> Seq(Slot)]
         /\ Len(removeSlot(st, l, 1).lists[l]) = 0
         /\ \A k \in Lists \ {l} : removeSlot(st, l, 1).lists[k] = st.lists[k]
  <1>1. st.lists \in [Lists -> Seq(Slot)] /\ st.lists[l] \in Seq(Slot)
    BY DEF State
  <1>2. PICK rest : rest = listRemove(st.lists[l], 1)
    OBVIOUS
  <1>3. 1 \in 1 .. Len(st.lists[l])
    OBVIOUS
  <1>4. rest \in Seq(Slot) /\ Len(rest) = Len(st.lists[l]) - 1
    BY <1>1, <1>2, <1>3, Removed
  <1>5. Len(rest) = 0
    BY <1>4
  <1>6. removeSlot(st, l, 1).lists = [st.lists EXCEPT ![l] = rest]
    BY <1>2 DEF removeSlot
  <1>7. QED
    BY <1>1, <1>4, <1>5, <1>6

(* A walk over a list of one slot at most takes away one slot of the       *)
(* receiver if it stops there; if not, the receiver has no slot in it and  *)
(* no one loses any.                                                       *)
LEMMA WalkedLive ==
  ASSUME NEW st \in State, NEW l \in Lists, Len(st.lists[l]) <= 1, NEW r
  PROVE  /\ Stops(st.lists[l], r) => OneLess(st.lists, Walked(st, l, r).lists, r)
         /\ ~Stops(st.lists[l], r) => /\ AsMany(st.lists, Walked(st, l, r).lists)
                                      /\ NoneIn(st.lists, l, r)
  <1>1. PICK a, list, n : a = st.lists /\ list = a[l] /\ n = Len(list)
    OBVIOUS
  <1>2. a \in [Lists -> Seq(Slot)] /\ list \in Seq(Slot) /\ n \in Nat /\ n <= 1
        /\ DOMAIN list = 1 .. n /\ (n = 0 <=> list = <<>>)
    <2>1. a \in [Lists -> Seq(Slot)]
      BY <1>1 DEF State
    <2>2. list \in Seq(Slot)
      BY <1>1, <2>1
    <2>3. QED
      BY <1>1, <2>1, <2>2, LenProperties, EmptySeq
  <1>3. ~Stops(list, r) => NoneIn(a, l, r)
    <2>1. SUFFICES ASSUME ~Stops(list, r), NEW i, <<l, i>> \in SlotsOf(a, r)
                   PROVE  FALSE
      BY DEF NoneIn
    <2>2. i \in 1 .. n /\ list[i].r = r /\ ~list[i].disposed
      BY <1>1, <1>2, <2>1, InSlotsOf
    <2>3. i = 1 /\ n # 0
      BY <1>2, <2>2
    <2>4. QED
      BY <1>2, <2>1, <2>2, <2>3 DEF Stops
  <1>4. CASE ~Gone(list, r)
    <2>1. ~Stops(list, r)
      BY <1>4 DEF Gone, Stops
    <2>2. Walked(st, l, r) = st
      BY <1>1, <1>4 DEF Walked
    <2>3. AsMany(a, Walked(st, l, r).lists)
      BY <1>1, <2>2 DEF AsMany
    <2>4. QED
      BY <1>1, <1>3, <2>1, <2>3
  <1>5. CASE Gone(list, r)
    <2>1. n = 1
      BY <1>2, <1>5 DEF Gone
    <2>2. PICK b : b = Walked(st, l, r).lists
      OBVIOUS
    <2>3. b = removeSlot(st, l, 1).lists
      BY <1>1, <1>5, <2>2 DEF Walked
    <2>4. b \in [Lists -> Seq(Slot)] /\ Len(b[l]) = 0 /\ \A k \in Lists \ {l} : b[k] = a[k]
      BY <1>1, <2>1, <2>3, RemovedLists
    <2>5. ASSUME NEW q
          PROVE  /\ SlotsOf(b, q) = SlotsOf(a, q) \ {<<l, 1>>}
                 /\ <<l, 1>> \in SlotsOf(a, q) <=> list[1].r = q /\ ~list[1].disposed
      <3>1. Len(a[l]) = 1 /\ \A l1 \in Lists : l1 # l => b[l1] = a[l1]
        BY <1>1, <2>1, <2>4
      <3>2. a \in [Lists -> Seq(Slot)] /\ b \in [Lists -> Seq(Slot)] /\ l \in Lists /\ Len(b[l]) = 0
        BY <1>2, <2>4
      <3>3. /\ SlotsOf(b, q) = SlotsOf(a, q) \ {<<l, 1>>}
            /\ <<l, 1>> \in SlotsOf(a, q) <=> a[l][1].r = q /\ ~a[l][1].disposed
        <4>1. IsWithout(a, b, l, q)
          BY ONLY <3>1, <3>2, DropOf
        <4>2. QED
          BY <4>1 DEF IsWithout
      <3>4. QED
        BY <1>1, <3>3
    <2>6. CASE ~Stops(list, r)
      <3>1. list[1].disposed
        BY <1>5, <2>6 DEF Gone, Stops
      <3>2. AsMany(a, b)
        BY <2>5, <3>1 DEF AsMany
      <3>3. QED
        BY <1>1, <1>3, <2>2, <2>6, <3>2
    <2>7. CASE Stops(list, r)
      <3>1. list[1].r = r /\ ~list[1].disposed
        BY <2>7 DEF Stops
      <3>2. ASSUME NEW q
            PROVE  Cardinality(SlotsOf(b, q)) =
                     IF q = r /\ Cardinality(SlotsOf(a, q)) > 0 THEN Cardinality(SlotsOf(a, q)) - 1
                     ELSE Cardinality(SlotsOf(a, q))
        <4>1. PICK A, B, x : A = SlotsOf(a, q) /\ B = SlotsOf(b, q) /\ x = <<l, 1>>
          OBVIOUS
        <4>2. B = A \ {x} /\ (x \in A <=> q = r)
          BY <2>5, <3>1, <4>1
        <4>3. IsFiniteSet(A) /\ Cardinality(A) \in Nat
          BY <1>2, <4>1, SlotsOfFinite
        <4>4. Cardinality(B) = IF x \in A THEN Cardinality(A) - 1 ELSE Cardinality(A)
          BY <4>2, <4>3, FS_RemoveElement
        <4>5. x \in A => Cardinality(A) # 0
          BY <4>3, FS_EmptySet
        <4>6. QED
          BY <4>1, <4>2, <4>3, <4>4, <4>5
      <3>3. OneLess(a, b, r)
        BY <3>2 DEF OneLess
      <3>4. QED
        BY <1>1, <2>2, <2>7, <3>3
    <2>8. QED
      BY <2>6, <2>7
  <1>6. QED
    BY <1>4, <1>5

(* The slots of a list are of its kind. *)
Sorted(lists) == \A l \in Lists : \A i \in DOMAIN lists[l] : lists[l][i].r \in Functions <=> l = "Func"

(* A receiver without slots loses none.                                    *)
LEMMA NoneAtAll ==
  ASSUME NEW a \in [Lists -> Seq(Slot)], NEW r, \A l \in Lists : NoneIn(a, l, r),
         NEW b, AsMany(a, b)
  PROVE  OneLess(a, b, r)
  <1>1. SlotsOf(a, r) = {}
    <2>1. SUFFICES ASSUME NEW p \in SlotsOf(a, r)
                   PROVE  FALSE
      OBVIOUS
    <2>2. PICK l \in Lists : \E i \in DOMAIN a[l] : p = <<l, i>>
      BY InSlotsOf
    <2>3. QED
      BY <2>2 DEF NoneIn
  <1>2. Cardinality(SlotsOf(a, r)) = 0
    BY <1>1, FS_EmptySet
  <1>3. QED
    BY <1>2 DEF OneLess, AsMany

(* disconnect takes away one slot of its receiver and of no one else,      *)
LEMMA DisconnectLive ==
  ASSUME NEW st \in State, NEW r, \A l \in ListsFor(r) : Len(st.lists[l]) <= 1, Sorted(st.lists)
  PROVE  OneLess(st.lists, disconnectNow(st, r).lists, r)
  <1>1. disconnectNow(st, r) =
           IF r \in Functions THEN Walked(st, "Func", r)
           ELSE IF Stops(st.lists["Weak"], r) THEN Walked(st, "Weak", r)
           ELSE Walked(Walked(st, "Weak", r), "Strong", r)
    BY DisconnectNowIs
  <1>2. "Func" \in Lists /\ "Weak" \in Lists /\ "Strong" \in Lists /\ Lists = {"Func", "Weak", "Strong"}
    BY ListNames
  <1>3. st.lists \in [Lists -> Seq(Slot)]
    BY DEF State
  <1>4. ASSUME NEW l \in Lists, ~(r \in Functions <=> l = "Func")
        PROVE  NoneIn(st.lists, l, r)
    BY <1>4, InSlotsOf DEF Sorted, NoneIn
  <1>5. CASE r \in Functions
    <2>1. Len(st.lists["Func"]) <= 1 /\ disconnectNow(st, r) = Walked(st, "Func", r)
      BY <1>1, <1>5 DEF ListsFor
    <2>2. CASE Stops(st.lists["Func"], r)
      BY <1>2, <2>1, <2>2, WalkedLive
    <2>3. CASE ~Stops(st.lists["Func"], r)
      <3>1. AsMany(st.lists, Walked(st, "Func", r).lists) /\ NoneIn(st.lists, "Func", r)
        BY <1>2, <2>1, <2>3, WalkedLive
      <3>2. \A l \in Lists : NoneIn(st.lists, l, r)
        BY <1>4, <1>5, <3>1
      <3>3. QED
        BY <1>3, <2>1, <3>1, <3>2, NoneAtAll
    <2>4. QED
      BY <2>2, <2>3
  <1>6. CASE r \notin Functions
    <2>1. Len(st.lists["Weak"]) <= 1 /\ Len(st.lists["Strong"]) <= 1
      BY <1>6 DEF ListsFor
    <2>2. CASE Stops(st.lists["Weak"], r)
      BY <1>1, <1>2, <1>6, <2>1, <2>2, WalkedLive
    <2>3. CASE ~Stops(st.lists["Weak"], r)
      <3>1. PICK w : w = Walked(st, "Weak", r)
        OBVIOUS
      <3>2. AsMany(st.lists, w.lists) /\ NoneIn(st.lists, "Weak", r)
        BY <1>2, <2>1, <2>3, <3>1, WalkedLive
      <3>3. w \in State /\ w.lists["Strong"] = st.lists["Strong"]
        BY <1>2, <3>1, WalkedType
      <3>4. disconnectNow(st, r) = Walked(w, "Strong", r)
        BY <1>1, <1>6, <2>3, <3>1
      <3>5. CASE Stops(w.lists["Strong"], r)
        <4>1. OneLess(w.lists, Walked(w, "Strong", r).lists, r)
          BY <1>2, <2>1, <3>3, <3>5, WalkedLive
        <4>2. QED
          BY <3>2, <3>4, <4>1 DEF OneLess, AsMany
      <3>6. CASE ~Stops(w.lists["Strong"], r)
        <4>1. AsMany(w.lists, Walked(w, "Strong", r).lists) /\ NoneIn(w.lists, "Strong", r)
          BY <1>2, <2>1, <3>3, <3>6, WalkedLive
        <4>2. AsMany(st.lists, Walked(w, "Strong", r).lists) /\ NoneIn(st.lists, "Strong", r)
          BY <3>2, <4>1 DEF AsMany, NoneIn
        <4>3. \A l \in Lists : NoneIn(st.lists, l, r)
          BY <1>2, <1>4, <1>6, <3>2, <4>2
        <4>4. QED
          BY <1>3, <3>4, <4>2, <4>3, NoneAtAll
      <3>7. QED
        BY <3>5, <3>6
    <2>4. QED
      BY <2>2, <2>3
  <1>7. QED
    BY <1>5, <1>6

(* in any state that agrees with the tables,                               *)
LEMMA DisconnectedOne ==
  ASSUME ~RemoveAny, NEW s \in Signals, NEW r, MayRemove(s, r), NEW st, Consistent(s, st)
  PROVE  OneLess(st.lists, disconnectNow(st, r).lists, r)
  <1>1. st \in State /\ \A l \in ListsFor(r) : Len(st.lists[l]) <= 1
    BY ShortLists DEF Consistent
  <1>2. Sorted(st.lists)
    BY DEF Consistent, Fits, Sorted
  <1>3. QED
    BY <1>1, <1>2, DisconnectLive

(* and so in every step that disconnects at once.                          *)
LEMMA DisconnectTakesOne ==
  ASSUME ~RemoveAny, HandlerInv, NEW s \in Signals, NEW r \in Receivers, disconnect(s, r),
         NEW q \in Receivers
  PROVE  Live(s, q)' = IF q = r /\ Live(s, r) > 0 THEN Live(s, q) - 1 ELSE Live(s, q)
  <1>1. TypeOK /\ Tables
    BY DEF HandlerInv, Tables
  <1>2. slots \in AllSlots /\ Consistent(s, StateOf(s))
    BY <1>1, ConsistentNow
  <1>3. PICK st, after : st = StateOf(s) /\ after = disconnectNow(st, r).lists
    OBVIOUS
  <1>4. MayRemove(s, r) /\ slots' = [slots EXCEPT ![s] = after]
    BY <1>3 DEF disconnect, SetState
  <1>5. st.lists = slots[s] /\ Consistent(s, st)
    BY <1>2, <1>3 DEF StateOf
  <1>6. OneLess(slots[s], after, r)
    BY <1>3, <1>4, <1>5, DisconnectedOne
  <1>7. slots'[s] = after
    BY <1>2, <1>4 DEF AllSlots
  <1>8. Live(s, q) = Cardinality(SlotsOf(slots[s], q)) /\ Live(s, r) = Cardinality(SlotsOf(slots[s], r))
    BY DEF Live
  <1>9. Live(s, q)' = Cardinality(SlotsOf(slots'[s], q))
    BY DEF Live
  <1>10. QED
    BY <1>6, <1>7, <1>8, <1>9 DEF OneLess

(* Where lists hold one slot at most, or slots do not leave them, a        *)
(* disconnection takes away one slot of its receiver if there is one, and  *)
(* nothing else.                                                           *)
THEOREM RemovesOne ==
  ASSUME ~RemoveAny
  PROVE  Spec => DisconnectRemovesOne
  <1>1. HandlerInv /\ [Next]_vars
          => [\A s \in Signals, r \in Receivers :
                disconnect(s, r) =>
                  \A q \in Receivers :
                    Live(s, q)' = IF q = r /\ Live(s, r) > 0 THEN Live(s, q) - 1 ELSE Live(s, q)]_vars
    BY DisconnectTakesOne
  <1>2. QED
    BY <1>1, HandlerInvariant, PTL DEF Spec, DisconnectRemovesOne
-----------------------------------------------------------------------------
(* The slots that an emission sees leave only for receivers that are gone. *)
NoFewer(a, b) == \A r : Cardinality(SlotsOf(a, r)) <= Cardinality(SlotsOf(b, r))

(* Marks take no slot away,                                                *)
LEMMA NoFewerSame ==
  ASSUME NEW a \in [Lists -> Seq(Slot)], NEW b \in [Lists -> Seq(Slot)], SameSlots(a, b)
  PROVE  NoFewer(a, b)
  <1>1. ASSUME NEW r
        PROVE  Cardinality(SlotsOf(a, r)) <= Cardinality(SlotsOf(b, r))
    <2>1. SlotsOf(a, r) = SlotsOf(b, r)
      BY Same
    <2>2. PICK n : n = Cardinality(SlotsOf(a, r))
      OBVIOUS
    <2>3. n \in Nat
      BY <2>2, SlotsOfFinite
    <2>4. n <= n
      BY <2>3
    <2>5. QED
      BY <2>1, <2>2, <2>4
  <1>2. QED
    BY <1>1 DEF NoFewer

(* nor does a list that grows,                                             *)
LEMMA NoFewerMore ==
  ASSUME NEW a \in [Lists -> Seq(Slot)], NEW b \in [Lists -> Seq(Slot)],
         \A l \in Lists : \A i \in DOMAIN a[l] : i \in DOMAIN b[l] /\ b[l][i] = a[l][i]
  PROVE  NoFewer(a, b)
  <1>1. ASSUME NEW r
        PROVE  Cardinality(SlotsOf(a, r)) <= Cardinality(SlotsOf(b, r))
    <2>1. ASSUME NEW p \in SlotsOf(a, r)
          PROVE  p \in SlotsOf(b, r)
      <3>1. PICK l \in Lists : \E i \in DOMAIN a[l] : p = <<l, i>>
        BY InSlotsOf
      <3>2. PICK i \in DOMAIN a[l] : p = <<l, i>>
        BY <3>1
      <3>3. a[l][i].r = r /\ ~a[l][i].disposed
        BY <2>1, <3>2, InSlotsOf
      <3>4. i \in DOMAIN b[l] /\ b[l][i] = a[l][i]
        OBVIOUS
      <3>5. <<l, i>> \in SlotsOf(b, r)
        BY <3>3, <3>4, InSlotsOf
      <3>6. QED
        BY <3>5, <3>2
    <2>2. PICK A, B : A = SlotsOf(a, r) /\ B = SlotsOf(b, r)
      OBVIOUS
    <2>3. A \in SUBSET B /\ IsFiniteSet(B)
      BY <2>1, <2>2, SlotsOfFinite
    <2>4. Cardinality(A) <= Cardinality(B)
      BY <2>3, FS_Subset
    <2>5. QED
      BY <2>2, <2>4
  <1>2. QED
    BY <1>1 DEF NoFewer

(* so a connection takes none,                                             *)
LEMMA ConnectGrows ==
  ASSUME TypeOK, NEW s \in Signals, NEW r \in Receivers, NEW l \in Lists, connect(s, r, l)
  PROVE  NoFewer(slots[s], slots'[s]) /\ \A s1 \in Signals : s1 # s => slots'[s1] = slots[s1]
  <1>1. slots \in AllSlots
    BY DEF TypeOK, AllSlots
  <1>2. PICK slot : slot = [r |-> r, disposed |-> FALSE, late |-> Emitting(s, stack), heard |-> 0]
    OBVIOUS
  <1>3. slot \in Slot
    BY <1>2 DEF Slot, Emitting
  <1>4. slots' = [slots EXCEPT ![s] = [slots[s] EXCEPT ![l] = Append(@, slot)]]
    BY <1>2 DEF connect
  <1>5. PICK old, new, n : old = slots[s][l] /\ new = Append(old, slot) /\ n = Len(old)
    OBVIOUS
  <1>6. old \in Seq(Slot)
    BY <1>1, <1>5 DEF AllSlots
  <1>7. new \in Seq(Slot) /\ DOMAIN new = DOMAIN old \cup {n + 1} /\ \A i \in DOMAIN old : new[i] = old[i]
    BY <1>3, <1>5, <1>6, Appended
  <1>8. /\ slots'[s] = [slots[s] EXCEPT ![l] = new]
        /\ \A s1 \in Signals : s1 # s => slots'[s1] = slots[s1]
    BY <1>1, <1>4, <1>5 DEF AllSlots
  <1>9. PICK a, b : a = slots[s] /\ b = slots'[s]
    OBVIOUS
  <1>10. a \in [Lists -> Seq(Slot)] /\ b = [a EXCEPT ![l] = new] /\ a[l] = old
    BY <1>1, <1>5, <1>8, <1>9 DEF AllSlots
  <1>11. b \in [Lists -> Seq(Slot)] /\ b[l] = new /\ \A l1 \in Lists : l1 # l => b[l1] = a[l1]
    BY <1>7, <1>10
  <1>12. \A l1 \in Lists : \A i \in DOMAIN a[l1] : i \in DOMAIN b[l1] /\ b[l1][i] = a[l1][i]
    BY <1>7, <1>10, <1>11
  <1>13. NoFewer(a, b)
    BY <1>10, <1>11, <1>12, NoFewerMore
  <1>14. QED
    BY <1>8, <1>9, <1>13

(* nor does dropping a slot whose receiver is gone,                        *)
LEMMA DropShrinks ==
  ASSUME TypeOK, Tables, dropDisposed
  PROVE  /\ Sig \in Signals /\ NoFewer(slots[Sig], slots'[Sig])
         /\ \A s1 \in Signals : s1 # Sig => slots'[s1] = slots[s1]
  <1>1. slots \in AllSlots /\ stack \in Seq(Frame) /\ stack # <<>> /\ Top.list <= Len(ListOrder)
    BY DEF TypeOK, AllSlots, dropDisposed, HasSlot, Looping
  <1>2. PICK s, l, p : s = Sig /\ l = List /\ p = Top.slotId
    OBVIOUS
  <1>3. s \in Signals /\ l \in Lists /\ p \in Nat \ {0}
    BY <1>1, <1>2, TopFrame
  <1>4. /\ p <= Len(slots[s][l]) /\ slots[s][l][p].disposed
        /\ slots' = [slots EXCEPT ![s] = removeSlot(StateOf(s), l, p).lists]
    BY <1>2 DEF dropDisposed, Current, SetState
  <1>5. Len(slots[s][l]) = 1 /\ p = 1
    <2>1. PICK m, n : m = MaxSlots[s][l] /\ n = Len(slots[s][l])
      OBVIOUS
    <2>2. slots[s][l] \in Seq(Slot)
      BY <1>1, <1>3 DEF AllSlots
    <2>3. m \in Nat /\ n \in Nat /\ p <= n /\ DOMAIN slots[s][l] = 1 .. n
      BY <1>3, <1>4, <2>1, <2>2, LenProperties, SignalAssumption
    <2>4. Fits(s, l, slots[s][l])
      BY <1>3 DEF Tables, SlotsFit
    <2>5. p \in 1 .. n
      BY <1>3, <2>3
    <2>6. n <= m /\ m <= 1
      BY <1>4, <2>1, <2>3, <2>4, <2>5 DEF Fits
    <2>7. p = 1 /\ n = 1
      BY <1>3, <2>3, <2>6
    <2>8. QED
      BY <2>1, <2>7
  <1>6. PICK st, b : st = StateOf(s) /\ b = removeSlot(st, l, 1).lists
    OBVIOUS
  <1>7. st \in State /\ st.lists = slots[s] /\ slots[s] \in [Lists -> Seq(Slot)]
    BY <1>1, <1>3, <1>6, ConsistentNow DEF Consistent, StateOf, AllSlots
  <1>8. b \in [Lists -> Seq(Slot)] /\ Len(b[l]) = 0 /\ \A k \in Lists \ {l} : b[k] = slots[s][k]
    BY <1>3, <1>5, <1>6, <1>7, RemovedLists
  <1>9. slots' = [slots EXCEPT ![s] = b]
    BY <1>4, <1>5, <1>6
  <1>10. slots'[s] = b /\ \A s1 \in Signals : s1 # s => slots'[s1] = slots[s1]
    BY <1>1, <1>3, <1>9 DEF AllSlots
  <1>11. PICK a : a = slots[s]
    OBVIOUS
  <1>12. ASSUME NEW r
         PROVE  SlotsOf(b, r) = SlotsOf(a, r)
    <2>1. /\ a \in [Lists -> Seq(Slot)] /\ Len(a[l]) = 1
          /\ \A l1 \in Lists : l1 # l => b[l1] = a[l1]
      BY <1>5, <1>7, <1>8, <1>11
    <2>2. IsWithout(a, b, l, r)
      BY ONLY <1>3, <1>8, <2>1, DropOf
    <2>3. a[l][1].disposed
      BY <1>4, <1>5, <1>11
    <2>4. QED
      BY <2>2, <2>3 DEF IsWithout
  <1>13. NoFewer(a, b)
    <2>1. ASSUME NEW r
          PROVE  Cardinality(SlotsOf(a, r)) <= Cardinality(SlotsOf(b, r))
      <3>1. PICK n : n = Cardinality(SlotsOf(a, r))
        OBVIOUS
      <3>2. n \in Nat
        BY <1>7, <1>11, <3>1, SlotsOfFinite
      <3>3. n <= n
        BY <3>2
      <3>4. QED
        BY <1>12, <3>1, <3>3
    <2>2. QED
      BY <2>1 DEF NoFewer
  <1>14. QED
    BY <1>2, <1>3, <1>10, <1>11, <1>13

(* nor does a call.                                                        *)
LEMMA CallKeepsSlots ==
  ASSUME TypeOK, callSlot
  PROVE  /\ Sig \in Signals /\ NoFewer(slots[Sig], slots'[Sig])
         /\ \A s1 \in Signals : s1 # Sig => slots'[s1] = slots[s1]
  <1>1. slots \in AllSlots /\ stack \in Seq(Frame) /\ stack # <<>> /\ Top.list <= Len(ListOrder)
    BY DEF TypeOK, AllSlots, callSlot, HasSlot, Looping
  <1>2. PICK s, l, p : s = Sig /\ l = List /\ p = Top.slotId
    OBVIOUS
  <1>3. s \in Signals /\ l \in Lists /\ p \in Nat \ {0}
    BY <1>1, <1>2, TopFrame
  <1>4. PICK a, b : a = slots[s] /\ b = [a EXCEPT ![l][p].heard = @ + 1]
    OBVIOUS
  <1>5. p <= Len(a[l]) /\ slots' = [slots EXCEPT ![s] = b]
    BY <1>2, <1>4 DEF callSlot
  <1>6. a \in [Lists -> Seq(Slot)] /\ p \in 1 .. Len(a[l])
    <2>1. a \in [Lists -> Seq(Slot)]
      BY <1>1, <1>3, <1>4 DEF AllSlots
    <2>2. PICK n : n = Len(a[l])
      OBVIOUS
    <2>3. a[l] \in Seq(Slot)
      BY <1>3, <2>1
    <2>4. n \in Nat /\ p <= n
      BY <1>5, <2>2, <2>3
    <2>5. p \in 1 .. n
      BY <1>3, <2>4
    <2>6. QED
      BY <2>1, <2>2, <2>5
  <1>7. b \in [Lists -> Seq(Slot)] /\ SameSlots(a, b)
    BY <1>3, <1>4, <1>6, CalledSame
  <1>8. slots'[s] = b /\ \A s1 \in Signals : s1 # s => slots'[s1] = slots[s1]
    BY <1>1, <1>3, <1>5 DEF AllSlots
  <1>9. NoFewer(a, b)
    BY <1>6, <1>7, NoFewerSame
  <1>10. QED
    BY <1>2, <1>3, <1>4, <1>8, <1>9
(* When an emission ends, its signal is not being emitted.                 *)
LEMMA LeavesSignal ==
  ASSUME TypeOK, EmissionInv, stack # <<>>, LeaveEmit(Sig)
  PROVE  ~Emitting(Sig, stack')
  <1>1. PICK stk, new, s : stk = stack /\ new = stack' /\ s = Sig
    OBVIOUS
  <1>2. stk \in Seq(Frame) /\ stk # <<>> /\ new = Tail(stk) /\ Distinct(stk) /\ s = Head(stk).sig
    BY <1>1 DEF TypeOK, EmissionInv, Sig, Top, LeaveEmit
  <1>3. IsPopped(stk, new)
    BY <1>2, Popped
  <1>4. ~Emitting(s, new)
    BY <1>2, <1>3 DEF IsPopped
  <1>5. QED
    BY <1>1, <1>4

(* No step takes slots from a signal that is being emitted.                *)
LEMMA EmissionKeepsSlots ==
  ASSUME ~RemoveAny, HandlerInv, EmissionInv, Next, NEW s \in Signals,
         Emitting(s, stack), Emitting(s, stack'), alive' = alive
  PROVE  slots'[s] = slots[s] \/ NoFewer(slots[s], slots'[s])
  <1>1. TypeOK /\ Tables /\ slots \in AllSlots
    BY DEF HandlerInv, Tables, TypeOK, AllSlots
  <1>2. ASSUME NEW s1 \in Signals, NEW r \in Receivers, disconnectLater(s1, r)
        PROVE  slots'[s] = slots[s]
    BY <1>2 DEF disconnectLater
  <1>3. ASSUME NEW s1 \in Signals, NEW r \in Receivers, disconnect(s1, r)
        PROVE  slots'[s] = slots[s]
    <2>1. s1 # s
      BY <1>3 DEF disconnect, EmissionInv
    <2>2. PICK after : slots' = [slots EXCEPT ![s1] = after]
      BY <1>3 DEF disconnect, SetState
    <2>3. QED
      BY <1>1, <2>1, <2>2 DEF AllSlots
  <1>4. ASSUME NEW s1 \in Signals, NEW r \in Receivers, NEW l \in Lists, connect(s1, r, l)
        PROVE  slots'[s] = slots[s] \/ NoFewer(slots[s], slots'[s])
    BY <1>1, <1>4, ConnectGrows
  <1>5. ASSUME NEW s1 \in Signals, emit(s1)
        PROVE  slots'[s] = slots[s]
    BY <1>5 DEF emit
  <1>6. ASSUME NEW o \in Objects, onReceiverDisposed(o)
        PROVE  FALSE
    BY <1>6 DEF onReceiverDisposed
  <1>7. CASE blockSignals \/ unblockSignals \/ nextList \/ slotReturns
    BY <1>7 DEF blockSignals, unblockSignals, nextList, slotReturns, connVars
  <1>8. CASE dropDisposed
    BY <1>1, <1>8, DropShrinks
  <1>9. CASE callSlot
    BY <1>1, <1>9, CallKeepsSlots
  <1>10. ASSUME stack # <<>>, LeaveEmit(Sig), NEW lists, slots' = [slots EXCEPT ![Sig] = lists]
         PROVE  slots'[s] = slots[s]
    <2>1. s # Sig
      BY <1>1, <1>10, LeavesSignal
    <2>2. PICK s1 : s1 = Sig
      OBVIOUS
    <2>3. QED
      BY <1>1, <1>10, <2>1, <2>2 DEF AllSlots
  <1>11. CASE emitReturns
    <2>1. stack # <<>> /\ LeaveEmit(Sig)
      BY <1>11 DEF emitReturns, Looping
    <2>2. PICK lists : slots' = [slots EXCEPT ![Sig] = lists]
      BY <1>11 DEF emitReturns, SetState
    <2>3. QED
      BY <1>10, <2>1, <2>2
  <1>12. CASE slotThrows
    <2>1. stack # <<>> /\ LeaveEmit(Sig)
      BY <1>12 DEF slotThrows
    <2>2. PICK lists : slots' = [slots EXCEPT ![Sig] = lists]
      BY <1>12 DEF slotThrows
    <2>3. QED
      BY <1>10, <2>1, <2>2
  <1>13. QED
    BY <1>2, <1>3, <1>4, <1>5, <1>6, <1>7, <1>8, <1>9, <1>11, <1>12 DEF Next

(* So the count of slots of each receiver does not go down.                *)
LEMMA DelayedStep ==
  ASSUME ~RemoveAny, HandlerInv, EmissionInv, [Next]_vars, NEW s \in Signals, NEW r \in Receivers,
         Emitting(s, stack), Emitting(s, stack'), alive' = alive
  PROVE  Live(s, r)' >= Live(s, r)
  <1>1. PICK m, n : m = Cardinality(SlotsOf(slots[s], r)) /\ n = Cardinality(SlotsOf(slots'[s], r))
    OBVIOUS
  <1>2. m = Live(s, r) /\ n = Live(s, r)'
    BY <1>1 DEF Live
  <1>3. m \in Nat /\ n \in Nat
    <2>1. TypeOK /\ TypeOK'
      BY HandlerInvNext DEF HandlerInv
    <2>2. slots[s] \in [Lists -> Seq(Slot)] /\ slots'[s] \in [Lists -> Seq(Slot)]
      BY <2>1 DEF TypeOK
    <2>3. QED
      BY <1>1, <2>2, SlotsOfFinite
  <1>4. slots'[s] = slots[s] \/ NoFewer(slots[s], slots'[s])
    <2>1. CASE Next
      BY <2>1, EmissionKeepsSlots
    <2>2. CASE UNCHANGED vars
      BY <2>2 DEF vars, connVars
    <2>3. QED
      BY <2>1, <2>2
  <1>5. m <= n
    <2>1. CASE slots'[s] = slots[s]
      <3>1. m = n
        BY <1>1, <2>1
      <3>2. QED
        BY <1>3, <3>1
    <2>2. CASE NoFewer(slots[s], slots'[s])
      BY <1>1, <2>2 DEF NoFewer
    <2>3. QED
      BY <1>4, <2>1, <2>2
  <1>6. n >= m
    BY <1>3, <1>5
  <1>7. QED
    BY <1>2, <1>6

(* While a signal is being emitted none of its slots goes away, except     *)
(* those of destroyed receivers.                                           *)
THEOREM Delayed ==
  ASSUME ~RemoveAny, ~Reemit
  PROVE  Spec => DisconnectionDelayed
  <1>1. HandlerInv /\ EmissionInv /\ [Next]_vars
          => [\A s \in Signals, r \in Receivers :
                Emitting(s, stack) /\ Emitting(s, stack') /\ alive' = alive => Live(s, r)' >= Live(s, r)]_vars
    BY DelayedStep
  <1>2. QED
    BY <1>1, EmissionInvariant, PTL DEF Spec, DisconnectionDelayed
-----------------------------------------------------------------------------
(* The requests for q among the first k of a queue *)
AskedFor(queue, q, k) == {i \in 1 .. k : queue[i] = q}

(* One more request of the queue                                           *)
LEMMA AskedNext ==
  ASSUME NEW queue, NEW q, NEW k \in Nat
  PROVE  /\ IsFiniteSet(AskedFor(queue, q, k)) /\ Cardinality(AskedFor(queue, q, k)) \in Nat
         /\ Cardinality(AskedFor(queue, q, k + 1)) =
              IF queue[k + 1] = q THEN Cardinality(AskedFor(queue, q, k)) + 1
              ELSE Cardinality(AskedFor(queue, q, k))
  <1>1. PICK A, B, j : A = AskedFor(queue, q, k) /\ B = AskedFor(queue, q, k + 1) /\ j = k + 1
    OBVIOUS
  <1>2. A \in SUBSET (1 .. k) /\ IsFiniteSet(1 .. k)
    BY <1>1, FS_Interval DEF AskedFor
  <1>3. IsFiniteSet(A)
    BY <1>2, FS_Subset
  <1>4. Cardinality(A) \in Nat
    BY <1>3, FS_CardinalityType
  <1>5. j \notin A /\ \A i : i \in 1 .. k + 1 <=> i \in 1 .. k \/ i = j
    BY <1>1, <1>2
  <1>6. B = IF queue[j] = q THEN A \cup {j} ELSE A
    BY <1>1, <1>5 DEF AskedFor
  <1>7. Cardinality(A \cup {j}) = Cardinality(A) + 1
    BY <1>3, <1>5, FS_AddElement
  <1>8. QED
    BY <1>1, <1>3, <1>4, <1>6, <1>7

(* An empty queue asks for nothing.                                        *)
LEMMA AskedNone ==
  ASSUME NEW queue, NEW q
  PROVE  Cardinality(AskedFor(queue, q, 0)) = 0
  <1>1. AskedFor(queue, q, 0) = {}
    BY DEF AskedFor
  <1>2. QED
    BY <1>1, FS_EmptySet

(* What is left of c after a were asked to go *)
Left(c, a) == IF a < c THEN c - a ELSE 0

(* Asking once more takes one of those left, if any is.                    *)
LEMMA LeftNext ==
  ASSUME NEW c \in Nat, NEW a \in Nat
  PROVE  /\ Left(c, a) \in Nat /\ Left(c, 0) = c
         /\ Left(c, a + 1) = IF Left(c, a) > 0 THEN Left(c, a) - 1 ELSE Left(c, a)
  BY DEF Left

(* The delayed disconnections, in order, each take away one slot of their  *)
(* receiver, if there is one.                                              *)
LEMMA QueueLive ==
  ASSUME slots \in AllSlots, NEW s \in Signals, ~RemoveAny, NEW queue, NEW n \in Nat,
         \A k \in 1 .. n : MayRemove(s, queue[k]), NEW st, Consistent(s, st), NEW q
  PROVE  Cardinality(SlotsOf(DisconnectAll(st, queue)[n].lists, q))
           = Left(Cardinality(SlotsOf(st.lists, q)), Cardinality(AskedFor(queue, q, n)))
  <1>1. PICK D : D = DisconnectAll(st, queue)
    OBVIOUS
  <1>2. /\ D[0] = st
        /\ \A k \in Nat : D[k + 1] = disconnectNow(D[k], queue[k + 1])
    BY <1>1, DisconnectAllIs DEF Consistent
  <1>3. \A k \in 0 .. n : Consistent(s, D[k])
    BY <1>1, ConsistentQueue
  <1>4. PICK c : c = Cardinality(SlotsOf(st.lists, q))
    OBVIOUS
  <1>5. c \in Nat
    <2>1. st.lists \in [Lists -> Seq(Slot)]
      BY DEF Consistent, State
    <2>2. QED
      BY <1>4, <2>1, SlotsOfFinite
  <1> DEFINE Card(k)  == Cardinality(SlotsOf(D[k].lists, q))
             Asked(k) == Cardinality(AskedFor(queue, q, k))
             S == {k \in Nat : k <= n => Card(k) = Left(c, Asked(k))}
  <1>6. 0 \in S
    <2>1. Card(0) = c
      BY <1>2, <1>4
    <2>2. Asked(0) = 0
      BY AskedNone
    <2>3. Left(c, 0) = c
      BY <1>5, LeftNext
    <2>4. QED
      BY <2>1, <2>2, <2>3
  <1>7. ASSUME NEW k \in Nat, k \in S
        PROVE  k + 1 \in S
    <2>1. SUFFICES ASSUME k + 1 <= n
                   PROVE  Card(k + 1) = Left(c, Asked(k + 1))
      OBVIOUS
    <2>2. k \in 0 .. n /\ k + 1 \in 1 .. n /\ Card(k) = Left(c, Asked(k))
      BY <1>7, <2>1
    <2>3. PICK r : r = queue[k + 1]
      OBVIOUS
    <2>4. Consistent(s, D[k]) /\ MayRemove(s, r)
      BY <1>3, <2>2, <2>3
    <2>5. OneLess(D[k].lists, disconnectNow(D[k], r).lists, r)
      BY <2>4, DisconnectedOne
    <2>6. D[k + 1] = disconnectNow(D[k], r)
      BY <1>2, <2>3
    <2>7. OneLess(D[k].lists, D[k + 1].lists, r)
      BY <2>5, <2>6
    <2>8. Card(k + 1) = IF q = r /\ Card(k) > 0 THEN Card(k) - 1 ELSE Card(k)
      BY <2>7 DEF OneLess
    <2>9. Asked(k) \in Nat /\ Asked(k + 1) = IF r = q THEN Asked(k) + 1 ELSE Asked(k)
      BY <2>3, AskedNext
    <2> HIDE DEF Card, Asked
    <2>10. Left(c, Asked(k) + 1) =
             IF Left(c, Asked(k)) > 0 THEN Left(c, Asked(k)) - 1 ELSE Left(c, Asked(k))
      BY <1>5, <2>9, LeftNext
    <2>11. QED
      BY <2>2, <2>8, <2>9, <2>10
  <1>8. n \in S
    <2> HIDE DEF S
    <2> QED
      BY <1>6, <1>7, NatSetInduction
  <1>9. QED
    BY <1>1, <1>4, <1>8

(* The end of an emission does all that its queue asks.                    *)
LEMMA ReturnDoesAll ==
  ASSUME ~RemoveAny, HandlerInv, emitReturns, NEW s \in Signals, NEW r \in Receivers, s = Sig,
         NEW queue, queue = delayed[s]["fn"] \o delayed[s]["dg"]
  PROVE  Live(s, r)' = Left(Live(s, r), Cardinality({i \in DOMAIN queue : queue[i] = r}))
  <1>1. TypeOK /\ Tables /\ DelayedFit
    BY DEF HandlerInv, Tables
  <1>2. slots \in AllSlots /\ Consistent(s, StateOf(s))
    BY <1>1, ConsistentNow
  <1>3. queue \in Seq(Receivers) /\ Len(queue) \in Nat /\ \A k \in 1 .. Len(queue) : MayRemove(s, queue[k])
    BY <1>1, QueueFit
  <1>4. PICK n, begin, st : n = Len(queue) /\ begin = StateOf(s) /\ st = DisconnectAll(begin, queue)[n]
    OBVIOUS
  <1>5. n \in Nat /\ DOMAIN queue = 1 .. n /\ \A k \in 1 .. n : MayRemove(s, queue[k])
    BY <1>3, <1>4, LenProperties
  <1>6. Consistent(s, begin) /\ begin.lists = slots[s]
    BY <1>2, <1>4 DEF StateOf
  <1>7. Cardinality(SlotsOf(st.lists, r))
          = Left(Cardinality(SlotsOf(begin.lists, r)), Cardinality(AskedFor(queue, r, n)))
    <2>1. Cardinality(SlotsOf(DisconnectAll(begin, queue)[n].lists, r))
            = Left(Cardinality(SlotsOf(begin.lists, r)), Cardinality(AskedFor(queue, r, n)))
      BY ONLY ~RemoveAny, SignalAssumption, s \in Signals, <1>2, <1>5, <1>6, QueueLive
    <2>2. QED
      BY <1>4, <2>1
  <1>8. Requested(s, queue, st)
    BY <1>4 DEF Requested
  <1>9. st.lists \in [Lists -> Seq(Slot)] /\ slots' = [slots EXCEPT ![s] = Unmarked(s, st.lists)]
    BY <1>8, QueueDone
  <1>10. PICK a, b : a = st.lists /\ b = Unmarked(s, st.lists)
    OBVIOUS
  <1>11. SlotsOf(a, r) = SlotsOf(b, r)
    <2>1. a \in [Lists -> Seq(Slot)] /\ b \in [Lists -> Seq(Slot)] /\ SameSlots(a, b)
      BY <1>9, <1>10, UnmarkedSame
    <2>2. QED
      BY <2>1, Same
  <1>12. slots'[s] = b
    BY <1>2, <1>9, <1>10 DEF AllSlots
  <1>13. AskedFor(queue, r, n) = {i \in DOMAIN queue : queue[i] = r}
    BY <1>5 DEF AskedFor
  <1>14. Live(s, r) = Cardinality(SlotsOf(slots[s], r)) /\ Live(s, r)' = Cardinality(SlotsOf(slots'[s], r))
    BY DEF Live
  <1>15. QED
    BY <1>6, <1>7, <1>10, <1>11, <1>12, <1>13, <1>14

(* When an emission ends, each delayed request takes away one slot of its  *)
(* own receiver, if there is one, and nothing else.                        *)
THEOREM DelayedDone ==
  ASSUME ~RemoveAny
  PROVE  Spec => DelayedDisconnectsDone
  <1>1. HandlerInv /\ [Next]_vars
          => [emitReturns => \A s \in Signals, r \in Receivers : s = Sig =>
                LET queue == delayed[s]["fn"] \o delayed[s]["dg"]
                    asked == Cardinality({i \in DOMAIN queue : queue[i] = r})
                IN  Live(s, r)' = IF asked < Live(s, r) THEN Live(s, r) - asked ELSE 0]_vars
    BY ReturnDoesAll DEF Left
  <1>2. QED
    BY <1>1, HandlerInvariant, PTL DEF Spec, DelayedDisconnectsDone
=============================================================================
