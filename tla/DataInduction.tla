--------------------------- MODULE DataInduction ---------------------------
(***************************************************************************)
(* Induction over the natural numbers and definition by recursion, stated  *)
(* about sets and functions: what a loop of the code computes is proved    *)
(* from these.                                                             *)
(***************************************************************************)
EXTENDS Integers, FiniteSetTheorems, TLAPS

(* A set of natural numbers has a least element. *)
LEMMA LeastNat ==
  ASSUME NEW T \in SUBSET Nat, T # {}
  PROVE  \E x \in T : \A y \in T : x <= y
  <1> DEFINE R == {ss \in Nat \X Nat : ss[1] < ss[2]}
  <1>1. IsWellFoundedOn(R, Nat)
    BY NatLessThanWellFounded DEF OpToRel
  <1>2. PICK x \in T : \A y \in T : ~(<<y, x>> \in R)
    <2> HIDE DEF R
    <2> QED
      BY <1>1, WFMin
  <1>3. ASSUME NEW y \in T
        PROVE  x <= y
    <2>1. <<y, x>> \in Nat \X Nat /\ ~(<<y, x>> \in R)
      <3> HIDE DEF R
      <3> QED
        BY <1>2
    <2>2. ~(<<y, x>>[1] < <<y, x>>[2])
      BY <2>1
    <2>3. QED
      BY <2>2
  <1>4. QED
    BY <1>3

(* Whatever holds of 0, and of n + 1 if it holds of n, holds of every n. *)
LEMMA NatSetInduction ==
  ASSUME NEW S, 0 \in S, \A n \in Nat : n \in S => n + 1 \in S
  PROVE  Nat \subseteq S
  <1>1. SUFFICES ASSUME Nat \ S # {}
                 PROVE  FALSE
    OBVIOUS
  <1>2. PICK x \in Nat \ S : \A y \in Nat \ S : x <= y
    BY <1>1, LeastNat
  <1>3. x - 1 \in Nat /\ x - 1 \in S
    BY <1>2
  <1>4. QED
    BY <1>2, <1>3

(* f[k] is x after k rounds of a loop that starts with x = a and turns x   *)
(* into step[<<k, x>>].                                                    *)
IsLoop(f, S, a, step) ==
  /\ f \in [Nat -> S]
  /\ f[0] = a
  /\ \A k \in Nat : f[k + 1] = step[<<k, f[k]>>]

(* There is such an f: the least set of pairs that contains <<0, a>> and,  *)
(* with a pair, the one the loop makes of it.                              *)
LEMMA Recursion ==
  ASSUME NEW S, NEW a \in S, NEW step \in [Nat \X S -> S]
  PROVE  \E f : IsLoop(f, S, a, step)
  <1> DEFINE Closed(R) == /\ <<0, a>> \in R
                          /\ \A k \in Nat, x \in S : <<k, x>> \in R => <<k + 1, step[<<k, x>>]>> \in R
             G == {p \in Nat \X S : \A R \in SUBSET (Nat \X S) : Closed(R) => p \in R}
             One(k) == \E x \in S : <<k, x>> \in G /\ \A y \in S : <<k, y>> \in G => y = x
             D == {k \in Nat : One(k)}
  <1>1. Closed(G)
    <2>1. <<0, a>> \in G
      OBVIOUS
    <2>2. ASSUME NEW k \in Nat, NEW x \in S, <<k, x>> \in G
          PROVE  <<k + 1, step[<<k, x>>]>> \in G
      <3>1. <<k, x>> \in Nat \X S /\ step[<<k, x>>] \in S
        OBVIOUS
      <3>2. <<k + 1, step[<<k, x>>]>> \in Nat \X S
        BY <3>1
      <3>3. ASSUME NEW R \in SUBSET (Nat \X S), Closed(R)
            PROVE  <<k + 1, step[<<k, x>>]>> \in R
        BY <2>2, <3>3
      <3>4. QED
        BY <3>2, <3>3
    <2>3. QED
      BY <2>1, <2>2
  <1>2. \A R \in SUBSET (Nat \X S) : Closed(R) => G \subseteq R
    OBVIOUS
  <1>3. G \subseteq Nat \X S
    OBVIOUS
  <1>4. 0 \in D
    <2>1. <<0, a>> \in G
      BY <1>1
    <2>2. ASSUME NEW y \in S, <<0, y>> \in G, y # a
          PROVE  FALSE
      <3> DEFINE R == G \ {<<0, y>>}
      <3>1. Closed(R)
        <4>1. <<0, a>> \in R
          BY <2>1, <2>2
        <4>2. ASSUME NEW k \in Nat, NEW x \in S, <<k, x>> \in R
              PROVE  <<k + 1, step[<<k, x>>]>> \in R
          <5>1. <<k + 1, step[<<k, x>>]>> \in G
            BY <1>1, <4>2
          <5>2. k + 1 # 0
            OBVIOUS
          <5>3. QED
            BY <5>1, <5>2
        <4>3. QED
          BY <4>1, <4>2
      <3>2. R \in SUBSET (Nat \X S)
        BY <1>3
      <3>3. <<0, y>> \in R
        <4> HIDE DEF G, R
        <4> QED
          BY <1>2, <3>1, <3>2, <2>2
      <3>4. QED
        BY <3>3
    <2>3. One(0)
      <3> HIDE DEF G
      <3> QED
        BY <2>1, <2>2
    <2>4. QED
      BY <2>3
  <1>5. ASSUME NEW k \in Nat, k \in D
        PROVE  k + 1 \in D
    <2> HIDE DEF G
    <2>1. PICK x \in S : <<k, x>> \in G /\ \A y \in S : <<k, y>> \in G => y = x
      BY <1>5
    <2> DEFINE z == step[<<k, x>>]
    <2>2. z \in S /\ <<k + 1, z>> \in G
      BY <1>1, <2>1
    <2>3. ASSUME NEW y \in S, <<k + 1, y>> \in G, y # z
          PROVE  FALSE
      <3> DEFINE R == G \ {<<k + 1, y>>}
      <3>1. <<0, a>> \in R
        BY <1>1
      <3>2. ASSUME NEW j \in Nat, NEW x1 \in S, <<j, x1>> \in R
            PROVE  <<j + 1, step[<<j, x1>>]>> \in R
        <4>1. <<j + 1, step[<<j, x1>>]>> \in G /\ <<j, x1>> \in G
          BY <1>1, <3>2
        <4>2. CASE j = k
          <5>1. x1 = x
            BY <2>1, <4>1, <4>2
          <5>2. QED
            BY <4>1, <4>2, <5>1, <2>3
        <4>3. CASE j # k
          BY <4>1, <4>3
        <4>4. QED
          BY <4>2, <4>3
      <3>3. R \in SUBSET (Nat \X S) /\ Closed(R)
        BY <1>3, <3>1, <3>2
      <3>4. <<k + 1, y>> \in R
        <4> HIDE DEF R
        <4> QED
          BY <1>2, <3>3, <2>3
      <3>5. QED
        BY <3>4
    <2>4. One(k + 1)
      <3> HIDE DEF z
      <3> QED
        BY <2>2, <2>3
    <2>5. QED
      BY <2>4
  <1>6. \A k \in Nat : One(k)
    <2>1. Nat \subseteq D
      <3> HIDE DEF D
      <3> QED
        BY <1>4, <1>5, NatSetInduction
    <2>2. QED
      BY <2>1
  <1> DEFINE f == [k \in Nat |-> CHOOSE x \in S : <<k, x>> \in G]
  <1>7. ASSUME NEW k \in Nat
        PROVE  /\ f[k] \in S /\ <<k, f[k]>> \in G
               /\ \A y \in S : <<k, y>> \in G => y = f[k]
    <2> HIDE DEF G
    <2>1. QED
      BY <1>6
  <1>8. f[0] = a
    <2> HIDE DEF G, f
    <2> QED
      BY <1>1, <1>7
  <1>9. ASSUME NEW k \in Nat
        PROVE  f[k + 1] = step[<<k, f[k]>>]
    <2> HIDE DEF G, f
    <2>1. <<k + 1, step[<<k, f[k]>>]>> \in G /\ step[<<k, f[k]>>] \in S
      BY <1>1, <1>7
    <2>2. k + 1 \in Nat
      OBVIOUS
    <2>3. \A y \in S : <<k + 1, y>> \in G => y = f[k + 1]
      BY <1>7, <2>2
    <2>4. QED
      BY <2>1, <2>3
  <1>10. f \in [Nat -> S]
    <2> HIDE DEF G
    <2> QED
      BY <1>7
  <1>11. QED
    <2> HIDE DEF f
    <2> QED
      BY <1>8, <1>9, <1>10 DEF IsLoop
=============================================================================
