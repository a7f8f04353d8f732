----------------------------- MODULE RccProofs -----------------------------
(***************************************************************************)
(* Proofs about Rcc for any files, paths, sizes, hashes and orders of the  *)
(* hash tables: the three tables fit together.                             *)
(***************************************************************************)
EXTENDS Rcc, DataInduction, SequenceTheorems

Name == DOMAIN Widths

Node == [name : Name \cup {NoName}, file : Files \cup {NoFile}, language : Languages \cup {"C"},
         directory : BOOLEAN, children : Seq(Nat),
         nameOffset : Nat, dataOffset : Nat, childOffset : Nat]

Kids(t, i) == ToSet(t[i].children)

(* What addFile builds: children come after their parent, and every node   *)
(* but the root is once a child of one node.                               *)
IsTree(t) ==
  /\ t \in Seq(Node)
  /\ 1 \in DOMAIN t /\ t[1].directory
  /\ \A i \in DOMAIN t : Kids(t, i) \subseteq (i + 1) .. Len(t) /\ IsInjective(t[i].children)
  /\ \A c \in DOMAIN t \ {1} : t[c].name \in Name /\ \E i \in DOMAIN t : c \in Kids(t, i)
  /\ \A i, j \in DOMAIN t : Kids(t, i) \cap Kids(t, j) # {} => i = j

LeafOf(n) == n \in Node /\ n.name \in Name /\ n.children = <<>>

LEMMA InsertedChildren ==
  ASSUME NEW s \in Seq(Nat), NEW at \in 1 .. Len(s) + 1, NEW x \in Nat
  PROVE  /\ InsertAt(s, at, x) \in Seq(Nat)
         /\ ToSet(InsertAt(s, at, x)) = ToSet(s) \cup {x}
         /\ IsInjective(s) /\ x \notin ToSet(s) => IsInjective(InsertAt(s, at, x))
  <1> DEFINE r == InsertAt(s, at, x)
  <1>1. r = [k \in 1 .. Len(s) + 1 |-> IF k < at THEN s[k] ELSE IF k = at THEN x ELSE s[k - 1]]
    <2> DEFINE u == SubSeq(s, 1, at - 1)
               v == SubSeq(s, at, Len(s))
    <2>1. u \in Seq(Nat) /\ Len(u) = at - 1 /\ \A k \in 1 .. at - 1 : u[k] = s[k]
      OBVIOUS
    <2>2. v \in Seq(Nat) /\ Len(v) = Len(s) + 1 - at /\ \A k \in 1 .. Len(s) + 1 - at : v[k] = s[at + k - 1]
      OBVIOUS
    <2>3. r = (u \o <<x>>) \o v
      BY DEF InsertAt
    <2> HIDE DEF u, v, r
    <2> DEFINE ux == u \o <<x>>
    <2>4. ux \in Seq(Nat) /\ Len(ux) = at /\ \A k \in 1 .. at : ux[k] = IF k < at THEN s[k] ELSE x
      BY <2>1
    <2>5. r = ux \o v
      BY <2>3
    <2> HIDE DEF ux
    <2>6. Len(s) \in Nat
      OBVIOUS
    <2>7. /\ r \in Seq(Nat)
          /\ Len(r) = Len(ux) + Len(v)
          /\ \A k \in 1 .. Len(ux) + Len(v) : r[k] = IF k <= Len(ux) THEN ux[k] ELSE v[k - Len(ux)]
      BY <2>2, <2>4, <2>5, ConcatProperties
    <2>8. Len(r) = Len(s) + 1
      BY <2>2, <2>4, <2>6, <2>7
    <2>9. ASSUME NEW k \in 1 .. Len(s) + 1
          PROVE  r[k] = IF k < at THEN s[k] ELSE IF k = at THEN x ELSE s[k - 1]
      <3>1. CASE k <= at
        BY <2>2, <2>4, <2>6, <2>7, <3>1
      <3>2. CASE ~(k <= at)
        <4>1. r[k] = v[k - at] /\ k - at \in 1 .. Len(s) + 1 - at
          BY <2>2, <2>4, <2>6, <2>7, <3>2
        <4>2. at + (k - at) - 1 = k - 1
          BY <2>6
        <4>3. r[k] = s[k - 1]
          BY <2>2, <4>1, <4>2
        <4>4. QED
          BY <4>3, <3>2
      <3>3. QED
        BY <3>1, <3>2
    <2>10. QED
      BY <2>7, <2>8, <2>9
  <1>2. Len(s) \in Nat /\ DOMAIN s = 1 .. Len(s)
    OBVIOUS
  <1>3. r \in Seq(Nat) /\ DOMAIN r = 1 .. Len(s) + 1
    BY <1>1, <1>2
  <1>4. ToSet(r) = ToSet(s) \cup {x}
    <2>1. ASSUME NEW k \in 1 .. Len(s) + 1
          PROVE  r[k] \in ToSet(s) \cup {x}
      <3>1. CASE k < at
        <4>1. k \in DOMAIN s
          BY <3>1, <1>2
        <4>2. r[k] = s[k]
          BY <3>1, <1>1
        <4>3. QED
          BY <4>1, <4>2 DEF ToSet
      <3>2. CASE k = at
        BY <3>2, <1>1
      <3>3. CASE k > at
        <4>1. k - 1 \in DOMAIN s
          BY <3>3, <1>2
        <4>2. r[k] = s[k - 1]
          BY <3>3, <1>1
        <4>3. QED
          BY <4>1, <4>2 DEF ToSet
      <3>4. QED
        BY <3>1, <3>2, <3>3
    <2>2. ASSUME NEW k \in DOMAIN s
          PROVE  s[k] \in ToSet(r)
      <3>1. CASE k < at
        <4>1. k \in DOMAIN r /\ r[k] = s[k]
          BY <3>1, <1>1, <1>2
        <4>2. QED
          BY <4>1 DEF ToSet
      <3>2. CASE ~(k < at)
        <4>1. k + 1 \in DOMAIN r /\ r[k + 1] = s[k]
          BY <3>2, <1>1, <1>2
        <4>2. QED
          BY <4>1 DEF ToSet
      <3>3. QED
        BY <3>1, <3>2
    <2>3. x \in ToSet(r)
      <3>1. at \in DOMAIN r /\ r[at] = x
        BY <1>1
      <3>2. QED
        BY <3>1 DEF ToSet
    <2>4. QED
      <3> HIDE DEF r
      <3> QED BY <2>1, <2>2, <2>3, <1>3 DEF ToSet
  <1>5. ASSUME IsInjective(s), x \notin ToSet(s)
        PROVE  IsInjective(r)
    <2>1. SUFFICES ASSUME NEW a \in 1 .. Len(s) + 1, NEW b \in 1 .. Len(s) + 1, r[a] = r[b]
                   PROVE  a = b
      BY <1>3 DEF IsInjective
    <2>2. \A k \in DOMAIN s : s[k] # x
      BY <1>5 DEF ToSet
    <2>3. \A k, l \in 1 .. Len(s) : s[k] = s[l] => k = l
      BY <1>5, <1>2 DEF IsInjective
    <2> HIDE DEF r
    <2>4. \A k \in 1 .. Len(s) + 1 : r[k] = IF k < at THEN s[k] ELSE IF k = at THEN x ELSE s[k - 1]
      BY <1>1
    <2>5. CASE a = at \/ b = at
      <3>1. ASSUME NEW k \in 1 .. Len(s) + 1, k # at
            PROVE  r[k] # x
        <4> DEFINE l == IF k < at THEN k ELSE k - 1
        <4>1. l \in DOMAIN s
          BY <1>2, <3>1
        <4>2. r[k] = s[l]
          BY <2>4, <3>1
        <4>3. QED
          BY <2>2, <4>1, <4>2
      <3>2. r[at] = x
        BY <2>4
      <3>3. QED
        BY <2>1, <2>5, <3>1, <3>2
    <2>6. CASE a # at /\ b # at
      <3> DEFINE back(k) == IF k < at THEN k ELSE k - 1
      <3>1. back(a) \in 1 .. Len(s) /\ back(b) \in 1 .. Len(s)
        BY <1>2, <2>6
      <3>2. r[a] = s[back(a)] /\ r[b] = s[back(b)]
        BY <2>4, <2>6
      <3>3. back(a) = back(b)
        BY <2>1, <2>3, <3>1, <3>2
      <3>4. QED
        BY <3>3, <2>6
    <2>7. QED
      BY <2>5, <2>6
  <1>6. QED
    BY <1>3, <1>4, <1>5

SameData(m, n) == m.name = n.name /\ m.file = n.file /\ m.language = n.language
                  /\ m.directory = n.directory

(* u is t with a new child n of p.                                         *)
Grown(t, u, p, n) ==
  /\ IsTree(u) /\ Len(u) = Len(t) + 1
  /\ u[Len(t) + 1] = n
  /\ \A j \in DOMAIN t : SameData(u[j], t[j])
  /\ \A j \in DOMAIN t : Kids(u, j) = IF j = p THEN Kids(t, j) \cup {Len(t) + 1} ELSE Kids(t, j)

LEMMA InsertGrows ==
  ASSUME NEW t, IsTree(t), NEW p \in DOMAIN t, NEW n, LeafOf(n), NEW at \in Positions(t, p)
  PROVE  Grown(t, Insert(t, p, n, at), p, n)
  <1> DEFINE cs == InsertAt(t[p].children, at, Len(t) + 1)
             v == [t EXCEPT ![p].children = cs]
             u == Append(v, n)
  <1>1. t \in Seq(Node) /\ Len(t) \in Nat /\ DOMAIN t = 1 .. Len(t) /\ 1 \in DOMAIN t
    BY DEF IsTree
  <1>2. n \in Node /\ n.name \in Name /\ n.children = <<>>
    BY DEF LeafOf
  <1>3. t[p] \in Node /\ t[p].children \in Seq(Nat)
    <2>1. t[p] \in Node
      BY <1>1
    <2>2. QED
      BY <2>1 DEF Node
  <1>4. at \in 1 .. Len(t[p].children) + 1
    BY DEF Positions
  <1>5. Kids(t, p) \subseteq (p + 1) .. Len(t) /\ IsInjective(t[p].children)
    BY DEF IsTree
  <1>6. Len(t) + 1 \notin ToSet(t[p].children)
    BY <1>1, <1>5 DEF Kids
  <1>7. cs \in Seq(Nat) /\ ToSet(cs) = ToSet(t[p].children) \cup {Len(t) + 1} /\ IsInjective(cs)
    <2>1. Len(t) + 1 \in Nat
      BY <1>1
    <2>2. QED
      BY <1>3, <1>4, <1>5, <1>6, <2>1, InsertedChildren
  <1>8. Insert(t, p, n, at) = u
    BY DEF Insert
  <1> HIDE DEF cs
  <1>9. v \in Seq(Node) /\ Len(v) = Len(t) /\ v[p] = [t[p] EXCEPT !.children = cs]
        /\ \A j \in DOMAIN t : j # p => v[j] = t[j]
    <2>1. [t[p] EXCEPT !.children = cs] \in Node
      BY <1>3, <1>7 DEF Node
    <2>2. v = [t EXCEPT ![p] = [t[p] EXCEPT !.children = cs]]
      OBVIOUS
    <2>3. QED
      BY <1>1, <2>1, <2>2
  <1> HIDE DEF v
  <1>10. u \in Seq(Node) /\ Len(u) = Len(t) + 1 /\ u[Len(t) + 1] = n
         /\ \A j \in DOMAIN t : u[j] = v[j]
    BY <1>1, <1>2, <1>9
  <1> HIDE DEF u
  <1>11. DOMAIN u = 1 .. Len(t) + 1
    BY <1>10
  <1>12. \A j \in DOMAIN t : j # p => u[j] = t[j]
    BY <1>9, <1>10
  <1>13. u[p] = [t[p] EXCEPT !.children = cs]
    BY <1>9, <1>10
  <1>14. SameData(u[p], t[p]) /\ u[p].children = cs
    BY <1>3, <1>13 DEF SameData, Node
  <1>15. \A j \in DOMAIN t : SameData(u[j], t[j])
    BY <1>12, <1>14 DEF SameData
  <1>16. \A j \in DOMAIN t : Kids(u, j) = IF j = p THEN Kids(t, j) \cup {Len(t) + 1} ELSE Kids(t, j)
    BY <1>7, <1>12, <1>14 DEF Kids
  <1>17. Kids(u, Len(t) + 1) = {}
    BY <1>2, <1>10 DEF Kids, ToSet
  <1>18. IsTree(u)
    <2>1. u \in Seq(Node) /\ 1 \in DOMAIN u /\ u[1].directory
      BY <1>1, <1>10, <1>11, <1>15 DEF IsTree, SameData
    <2>2. ASSUME NEW i \in DOMAIN u
          PROVE  Kids(u, i) \subseteq (i + 1) .. Len(u) /\ IsInjective(u[i].children)
      <3>1. CASE i = Len(t) + 1
        BY <1>2, <1>10, <1>17, <3>1 DEF IsInjective
      <3>2. CASE i = p
        BY <1>1, <1>5, <1>7, <1>10, <1>14, <1>16, <3>2
      <3>3. CASE i # Len(t) + 1 /\ i # p
        <4>1. i \in DOMAIN t
          BY <1>1, <1>11, <3>3
        <4>2. Kids(u, i) = Kids(t, i) /\ u[i] = t[i]
          BY <1>12, <1>16, <4>1, <3>3
        <4>3. Kids(t, i) \subseteq (i + 1) .. Len(t) /\ IsInjective(t[i].children)
          BY <4>1 DEF IsTree
        <4>4. QED
          BY <1>1, <1>10, <4>2, <4>3
      <3>4. QED
        BY <3>1, <3>2, <3>3
    <2>3. ASSUME NEW c \in DOMAIN u \ {1}
          PROVE  u[c].name \in Name /\ \E i \in DOMAIN u : c \in Kids(u, i)
      <3>1. CASE c = Len(t) + 1
        BY <1>1, <1>2, <1>10, <1>11, <1>16, <3>1
      <3>2. CASE c # Len(t) + 1
        <4>1. c \in DOMAIN t \ {1}
          BY <1>1, <1>11, <3>2
        <4>2. PICK i \in DOMAIN t : c \in Kids(t, i)
          BY <4>1 DEF IsTree
        <4>3. t[c].name \in Name
          BY <4>1 DEF IsTree
        <4>4. u[c].name = t[c].name
          BY <1>15, <4>1 DEF SameData
        <4>5. i \in DOMAIN u /\ c \in Kids(u, i)
          BY <1>1, <1>11, <1>16, <4>2
        <4>6. QED
          BY <4>3, <4>4, <4>5
      <3>3. QED
        BY <3>1, <3>2
    <2>4. ASSUME NEW i \in DOMAIN u, NEW j \in DOMAIN u, NEW c \in Kids(u, i) \cap Kids(u, j)
          PROVE  i = j
      <3>1. i \in DOMAIN t /\ j \in DOMAIN t
        BY <1>1, <1>11, <1>17, <2>4
      <3>2. CASE c = Len(t) + 1
        <4>1. \A k \in DOMAIN t : Len(t) + 1 \notin Kids(t, k)
          BY <1>1 DEF IsTree
        <4>2. QED
          BY <1>16, <2>4, <3>1, <3>2, <4>1
      <3>3. CASE c # Len(t) + 1
        <4>1. c \in Kids(t, i) \cap Kids(t, j)
          BY <1>16, <2>4, <3>1, <3>3
        <4>2. QED
          BY <3>1, <4>1 DEF IsTree
      <3>4. QED
        BY <3>2, <3>3
    <2>5. QED
      BY <2>1, <2>2, <2>3, <2>4 DEF IsTree
  <1>19. QED
    BY <1>8, <1>10, <1>15, <1>16, <1>18 DEF Grown

-----------------------------------------------------------------------------
(* A path for every node: the one of its parent and its own name.          *)
Labelled(t, path) ==
  /\ path \in [DOMAIN t -> Seq(Name)]
  /\ path[1] = <<>>
  /\ \A i \in DOMAIN t : \A c \in Kids(t, i) : path[c] = Append(path[i], t[c].name)

Resources(t, path) ==
  {<<path[i], t[i].language, t[i].file>> : i \in {j \in DOMAIN t : ~t[j].directory}}

(* addFile is at directory d after a part p of a path, and has built t.    *)
Reached(t, d, p, rs) ==
  /\ IsTree(t) /\ d \in DOMAIN t
  /\ \E path : Labelled(t, path) /\ path[d] = p /\ Resources(t, path) = rs

(* Of a new child                                                          *)
LEMMA GrownReached ==
  ASSUME NEW t, NEW d, NEW p, NEW rs, Reached(t, d, p, rs), NEW n, LeafOf(n), NEW u, Grown(t, u, d, n)
  PROVE  Reached(u, Len(t) + 1, Append(p, n.name),
                 IF n.directory THEN rs ELSE rs \cup {<<Append(p, n.name), n.language, n.file>>})
  <1>1. IsTree(t) /\ d \in DOMAIN t
    BY DEF Reached
  <1>2. PICK path : Labelled(t, path) /\ path[d] = p /\ Resources(t, path) = rs
    BY DEF Reached
  <1>3. t \in Seq(Node) /\ Len(t) \in Nat /\ DOMAIN t = 1 .. Len(t) /\ 1 \in DOMAIN t
    BY <1>1 DEF IsTree
  <1>4. IsTree(u) /\ Len(u) = Len(t) + 1 /\ DOMAIN u = 1 .. Len(t) + 1 /\ u[Len(t) + 1] = n
    <2>1. IsTree(u) /\ Len(u) = Len(t) + 1 /\ u[Len(t) + 1] = n
      BY DEF Grown
    <2>2. u \in Seq(Node)
      BY <2>1 DEF IsTree
    <2>3. QED
      BY <2>1, <2>2
  <1>5. path \in [DOMAIN t -> Seq(Name)] /\ path[1] = <<>>
        /\ \A i \in DOMAIN t : \A c \in Kids(t, i) : path[c] = Append(path[i], t[c].name)
    BY <1>2 DEF Labelled
  <1>6. p \in Seq(Name) /\ Append(p, n.name) \in Seq(Name)
    BY <1>1, <1>2, <1>5 DEF LeafOf
  <1> DEFINE new == [i \in DOMAIN u |-> IF i = Len(t) + 1 THEN Append(p, n.name) ELSE path[i]]
  <1>7. new \in [DOMAIN u -> Seq(Name)] /\ new[Len(t) + 1] = Append(p, n.name)
        /\ \A i \in DOMAIN t : new[i] = path[i]
    BY <1>3, <1>4, <1>5, <1>6
  <1> HIDE DEF new
  <1>8. Labelled(u, new)
    <2>1. new[1] = <<>>
      BY <1>3, <1>5, <1>7
    <2>2. ASSUME NEW i \in DOMAIN u, NEW c \in Kids(u, i)
          PROVE  new[c] = Append(new[i], u[c].name)
      <3>1. i \in DOMAIN t
        <4>1. c \in (i + 1) .. Len(u)
          BY <1>4 DEF IsTree
        <4>2. QED
          BY <1>3, <1>4, <4>1
      <3>2. Kids(u, i) = IF i = d THEN Kids(t, i) \cup {Len(t) + 1} ELSE Kids(t, i)
        BY <3>1 DEF Grown
      <3>3. CASE c \in Kids(t, i)
        <4>1. c \in DOMAIN t
          <5>1. c \in (i + 1) .. Len(t)
            BY <1>1, <3>1, <3>3 DEF IsTree
          <5>2. QED
            BY <1>3, <3>1, <5>1
        <4>2. u[c].name = t[c].name
          BY <4>1 DEF Grown, SameData
        <4>3. QED
          BY <1>5, <1>7, <3>1, <3>3, <4>1, <4>2
      <3>4. CASE c \notin Kids(t, i)
        <4>1. i = d /\ c = Len(t) + 1
          BY <2>2, <3>2, <3>4
        <4>2. QED
          BY <1>2, <1>4, <1>7, <3>1, <4>1
      <3>5. QED
        BY <3>3, <3>4
    <2>3. QED
      BY <1>7, <2>1, <2>2 DEF Labelled
  <1>9. Resources(u, new) = IF n.directory THEN rs ELSE rs \cup {<<Append(p, n.name), n.language, n.file>>}
    <2> DEFINE entry(s, q, i) == <<q[i], s[i].language, s[i].file>>
    <2>1. \A i \in DOMAIN t : entry(u, new, i) = entry(t, path, i) /\ u[i].directory = t[i].directory
      BY <1>7 DEF Grown, SameData
    <2>2. entry(u, new, Len(t) + 1) = <<Append(p, n.name), n.language, n.file>>
      BY <1>4, <1>7
    <2>3. DOMAIN u = DOMAIN t \cup {Len(t) + 1}
      BY <1>3, <1>4
    <2>4. Resources(u, new) = {entry(u, new, i) : i \in {j \in DOMAIN u : ~u[j].directory}}
      BY DEF Resources
    <2>5. Resources(t, path) = {entry(t, path, i) : i \in {j \in DOMAIN t : ~t[j].directory}}
      BY DEF Resources
    <2> HIDE DEF entry
    <2>6. QED
      BY <1>2, <1>4, <2>1, <2>2, <2>3, <2>4, <2>5
  <1>10. Len(t) + 1 \in DOMAIN u
    BY <1>3, <1>4
  <1>11. QED
    BY <1>4, <1>7, <1>8, <1>9, <1>10 DEF Reached

LEMMA NodeRecord ==
  ASSUME NEW A, NEW B, NEW C, NEW D, NEW E, NEW F,
         NEW a \in A, NEW b \in B, NEW c \in C, NEW d \in D, NEW e \in E, NEW x \in F
  PROVE  [name |-> a, file |-> b, language |-> c, directory |-> d, children |-> e,
          nameOffset |-> x, dataOffset |-> x, childOffset |-> x]
           \in [name : A, file : B, language : C, directory : D, children : E,
                nameOffset : F, dataOffset : F, childOffset : F]
  OBVIOUS

(* A new object                                                            *)
LEMMA NodeMade ==
  ASSUME NEW name \in Name \cup {NoName}, NEW file \in Files \cup {NoFile}, NEW language \in Languages \cup {"C"},
         NEW directory \in BOOLEAN, NEW n, n = RCCFileInfo(name, file, language, directory)
  PROVE  /\ n \in Node /\ n.children = <<>>
         /\ n.name = name /\ n.file = file /\ n.language = language
         /\ (directory => n.directory) /\ (~directory => ~n.directory)
  <1>1. <<>> \in Seq(Nat) /\ 0 \in Nat
    OBVIOUS
  <1>2. n = [name |-> name, file |-> file, language |-> language, directory |-> directory,
             children |-> <<>>, nameOffset |-> 0, dataOffset |-> 0, childOffset |-> 0]
    BY DEF RCCFileInfo
  <1>3. n \in Node
    <2> DEFINE A == Name \cup {NoName}
               B == Files \cup {NoFile}
               C == Languages \cup {"C"}
               E == Seq(Nat)
               e == <<>>
    <2>1. file \in B /\ language \in C /\ name \in A /\ e \in E
      BY <1>1
    <2>2. n = [name |-> name, file |-> file, language |-> language, directory |-> directory,
               children |-> e, nameOffset |-> 0, dataOffset |-> 0, childOffset |-> 0]
      BY <1>2
    <2>3. Node = [name : A, file : B, language : C, directory : BOOLEAN, children : E,
                  nameOffset : Nat, dataOffset : Nat, childOffset : Nat]
      BY DEF Node
    <2> HIDE DEF A, B, C, E, e
    <2>4. QED
      BY <1>1, <2>1, <2>2, <2>3, NodeRecord
  <1>4. QED
    BY <1>2, <1>3

LEMMA NewNode ==
  ASSUME NEW name \in Name, NEW file \in Files \cup {NoFile}, NEW language \in Languages \cup {"C"},
         NEW directory \in BOOLEAN, NEW n, n = RCCFileInfo(name, file, language, directory)
  PROVE  /\ LeafOf(n)
         /\ n.name = name /\ n.file = file /\ n.language = language
         /\ (directory => n.directory) /\ (~directory => ~n.directory)
  <1>1. name \in Name \cup {NoName}
    OBVIOUS
  <1>2. /\ n \in Node /\ n.children = <<>>
        /\ n.name = name /\ n.file = file /\ n.language = language
        /\ (directory => n.directory) /\ (~directory => ~n.directory)
    BY <1>1, NodeMade
  <1>3. QED
    BY <1>2 DEF LeafOf

(* A directory of the path is entered.                                     *)
LEMMA EnteredReached ==
  ASSUME NEW t, NEW d, NEW p, NEW rs, Reached(t, d, p, rs), NEW name \in Name,
         NEW e \in Entered(t, d, name)
  PROVE  /\ Reached(e[1], e[2], Append(p, name), rs)
         /\ e = <<e[1], e[2]>>
  <1>1. IsTree(t) /\ d \in DOMAIN t /\ t \in Seq(Node)
    BY DEF Reached, IsTree
  <1>2. CASE ChildrenNamed(t, d, name) # {}
    <2> DEFINE c == Child(t, d, name)
    <2>1. e = <<t, c>>
      BY <1>2 DEF Entered
    <2>2. c \in Kids(t, d) /\ t[c].name = name
      <3> DEFINE T == ChildrenNamed(t, d, name)
      <3>1. T \subseteq Nat /\ \A x \in T : x <= Len(t)
        <4>1. Kids(t, d) \subseteq (d + 1) .. Len(t)
          BY <1>1 DEF IsTree
        <4>2. T \subseteq Kids(t, d)
          BY DEF ChildrenNamed, Kids
        <4>3. d \in Nat /\ Len(t) \in Nat
          BY <1>1
        <4>4. QED
          BY <4>1, <4>2, <4>3
      <3>2. PICK c0 \in T : \A x \in T : x <= c0
        <4> DEFINE U == {Len(t) - x : x \in T}
        <4>1. U \in SUBSET Nat /\ U # {}
          BY <1>1, <1>2, <3>1
        <4>2. PICK y \in U : \A z \in U : y <= z
          <5> HIDE DEF U
          <5> QED
            BY <4>1, LeastNat
        <4>3. PICK c0 \in T : y = Len(t) - c0
          BY <4>2
        <4>4. \A x \in T : Len(t) - c0 <= Len(t) - x
          BY <4>2, <4>3
        <4>5. \A x \in T : x <= c0
          BY <1>1, <3>1, <4>4
        <4>6. QED
          BY <4>5
      <3>3. c = CHOOSE x \in T : \A y \in T : y <= x
        BY DEF Child
      <3>4. c \in T
        <4> HIDE DEF T
        <4> QED
          BY <3>2, <3>3
      <3>5. QED
        BY <3>4 DEF ChildrenNamed, Kids
    <2> HIDE DEF c
    <2>3. PICK path : Labelled(t, path) /\ path[d] = p /\ Resources(t, path) = rs
      BY DEF Reached
    <2>4. path[c] = Append(p, name)
      BY <1>1, <2>2, <2>3 DEF Labelled
    <2>5. c \in DOMAIN t
      <3>1. c \in (d + 1) .. Len(t)
        BY <1>1, <2>2 DEF IsTree
      <3>2. d \in Nat /\ DOMAIN t = 1 .. Len(t)
        BY <1>1
      <3>3. QED
        BY <3>1, <3>2
    <2>6. QED
      BY <1>1, <2>1, <2>3, <2>4, <2>5 DEF Reached
  <1>3. CASE ChildrenNamed(t, d, name) = {}
    <2> DEFINE n == RCCFileInfo(name, NoFile, "C", TRUE)
    <2>1. PICK at \in Positions(t, d) : e = <<Insert(t, d, n, at), Len(t) + 1>>
      BY <1>3 DEF Entered
    <2>2. LeafOf(n) /\ n.directory /\ n.name = name
      <3>1. NoFile \in Files \cup {NoFile} /\ "C" \in Languages \cup {"C"} /\ TRUE \in BOOLEAN
        OBVIOUS
      <3> DEFINE file == NoFile
                 language == "C"
                 directory == TRUE
      <3> HIDE DEF directory
      <3>2. n = RCCFileInfo(name, file, language, directory)
        BY DEF directory
      <3> HIDE DEF n, file, language
      <3>3. directory
        BY DEF directory
      <3>4. file \in Files \cup {NoFile} /\ language \in Languages \cup {"C"} /\ directory \in BOOLEAN
        BY <3>1 DEF file, language, directory
      <3>5. LeafOf(n) /\ n.name = name /\ (directory => n.directory)
        BY <3>2, <3>4, NewNode
      <3>6. QED
        BY <3>3, <3>5
    <2> HIDE DEF n
    <2>3. Grown(t, Insert(t, d, n, at), d, n)
      BY <1>1, <2>2, InsertGrows
    <2>4. Reached(Insert(t, d, n, at), Len(t) + 1, Append(p, name), rs)
      <3> DEFINE u == Insert(t, d, n, at)
      <3>1. Grown(t, u, d, n)
        BY <2>3
      <3> HIDE DEF u
      <3>2. Reached(u, Len(t) + 1, Append(p, n.name),
                    IF n.directory THEN rs ELSE rs \cup {<<Append(p, n.name), n.language, n.file>>})
        BY <2>2, <3>1, GrownReached
      <3>3. QED
        BY <2>2, <3>2 DEF u
    <2>5. QED
      BY <2>1, <2>4
  <1>4. QED
    BY <1>2, <1>3

(* The file is put into the directory reached.                             *)
LEMMA FileReached ==
  ASSUME NEW t, NEW d, NEW p, NEW rs, Reached(t, d, p, rs), NEW n, LeafOf(n), ~n.directory,
         NEW at \in Positions(t, d)
  PROVE  \E i : Reached(Insert(t, d, n, at), i, Append(p, n.name),
                        rs \cup {<<Append(p, n.name), n.language, n.file>>})
  <1>1. IsTree(t) /\ d \in DOMAIN t
    BY DEF Reached
  <1>2. Grown(t, Insert(t, d, n, at), d, n)
    BY <1>1, InsertGrows
  <1>3. QED
    BY <1>2, GrownReached

(* A loop of n rounds that starts with a and does step[<<k, x>>] in round k *)
IsLoopTo(f, S, a, n, step) ==
  f \in [0 .. n -> S] /\ f[0] = a /\ \A k \in 1 .. n : f[k] = step[<<k, f[k - 1]>>]

LEMMA LoopTo ==
  ASSUME NEW S, NEW a \in S, NEW n \in Nat, NEW step \in [(1 .. n) \X S -> S]
  PROVE  \E f : IsLoopTo(f, S, a, n, step)
  <1> DEFINE on == [y \in Nat \X S |-> IF y[1] < n THEN step[<<y[1] + 1, y[2]>>] ELSE y[2]]
  <1>1. on \in [Nat \X S -> S]
    <2>1. ASSUME NEW y \in Nat \X S
          PROVE  (IF y[1] < n THEN step[<<y[1] + 1, y[2]>>] ELSE y[2]) \in S
      <3>1. CASE y[1] < n
        <4>1. <<y[1] + 1, y[2]>> \in (1 .. n) \X S
          BY <3>1
        <4>2. QED
          BY <3>1, <4>1
      <3>2. CASE ~(y[1] < n)
        BY <3>2
      <3>3. QED
        BY <3>1, <3>2
    <2>2. QED
      BY <2>1
  <1>2. PICK g : g \in [Nat -> S] /\ g[0] = a /\ \A k \in Nat : g[k + 1] = on[<<k, g[k]>>]
    <2> HIDE DEF on
    <2>1. PICK g : IsLoop(g, S, a, on)
      BY <1>1, Recursion
    <2>2. QED
      BY <2>1 DEF IsLoop
  <1> DEFINE f == [k \in 0 .. n |-> g[k]]
  <1>3. f \in [0 .. n -> S] /\ f[0] = a
    BY <1>2
  <1>4. ASSUME NEW k \in 1 .. n
        PROVE  f[k] = step[<<k, f[k - 1]>>]
    <2>1. k - 1 \in Nat /\ (k - 1) + 1 = k /\ k - 1 < n /\ k - 1 \in 0 .. n
      OBVIOUS
    <2>2. g[k] = on[<<k - 1, g[k - 1]>>]
      <3> HIDE DEF on
      <3> QED BY <1>2, <2>1
    <2>3. <<k - 1, g[k - 1]>> \in Nat \X S
      BY <1>2, <2>1
    <2>4. on[<<k - 1, g[k - 1]>>] = step[<<k, g[k - 1]>>]
      BY <2>1, <2>3
    <2>5. f[k] = g[k] /\ f[k - 1] = g[k - 1]
      BY <2>1
    <2>6. QED
      BY <2>2, <2>4, <2>5
  <1>5. QED
    <2> HIDE DEF f
    <2> QED BY <1>3, <1>4 DEF IsLoopTo

(* The directories of a path, one after the other                          *)
LEMMA DirectoriesReached ==
  ASSUME NEW t, NEW rs, Reached(t, 1, <<>>, rs), NEW alias \in Seq(Name) \ {<<>>},
         NEW e \in DirectoriesOf(t, alias)
  PROVE  Reached(e[1], e[2], SubSeq(alias, 1, Len(alias) - 1), rs)
  <1> DEFINE n == Len(alias) - 1
             P == {x \in Seq(Node) \X Nat : \E p : Reached(x[1], x[2], p, rs)}
             Enter(k, S) == UNION {Entered(x[1], x[2], alias[k]) : x \in S}
             Def(g) == [k \in 0 .. n |-> IF k = 0 THEN {<<t, 1>>} ELSE Enter(k, g[k - 1])]
             step == [y \in (1 .. n) \X SUBSET P |-> Enter(y[1], y[2])]
  <1>1. n \in Nat /\ Len(alias) \in Nat /\ \A k \in 1 .. n : alias[k] \in Name
    BY EmptySeq
  <1>2. ASSUME NEW x, NEW p, Reached(x[1], x[2], p, rs), x = <<x[1], x[2]>>
        PROVE  x \in P
    <2>1. x[1] \in Seq(Node) /\ x[2] \in DOMAIN x[1]
      BY <1>2 DEF Reached, IsTree
    <2>2. x \in Seq(Node) \X Nat
      BY <1>2, <2>1
    <2>3. QED
      BY <1>2, <2>2
  <1>3. {<<t, 1>>} \in SUBSET P
    BY <1>2
  <1>4. ASSUME NEW k \in 1 .. n, NEW S \in SUBSET P
        PROVE  Enter(k, S) \in SUBSET P
    <2>1. SUFFICES ASSUME NEW x \in S, NEW y \in Entered(x[1], x[2], alias[k])
                   PROVE  y \in P
      OBVIOUS
    <2>2. PICK p : Reached(x[1], x[2], p, rs)
      OBVIOUS
    <2>3. Reached(y[1], y[2], Append(p, alias[k]), rs) /\ y = <<y[1], y[2]>>
      BY <1>1, <2>2, EnteredReached
    <2>4. QED
      BY <1>2, <2>3
  <1>5. step \in [(1 .. n) \X SUBSET P -> SUBSET P]
    <2> HIDE DEF P, Enter
    <2> QED BY <1>4
  <1>6. PICK f \in [0 .. n -> SUBSET P] : f[0] = {<<t, 1>>} /\ \A k \in 1 .. n : f[k] = step[<<k, f[k - 1]>>]
    <2> DEFINE R == SUBSET P
               a == {<<t, 1>>}
    <2> HIDE DEF step, P
    <2>1. n \in Nat /\ a \in R /\ step \in [(1 .. n) \X R -> R]
      BY <1>1, <1>3, <1>5
    <2> HIDE DEF R, a, n
    <2>2. \E f : IsLoopTo(f, R, a, n, step)
      BY <2>1, LoopTo
    <2>3. QED
      BY <2>2 DEF R, a, IsLoopTo
  <1>7. f = Def(f)
    <2> HIDE DEF P, Enter
    <2>1. ASSUME NEW k \in 1 .. n
          PROVE  f[k] = Enter(k, f[k - 1])
      <3> HIDE DEF n, step
      <3>1. <<k, f[k - 1]>> \in (1 .. n) \X SUBSET P
        <4>1. k - 1 \in 0 .. n
          BY <1>1
        <4>2. QED
          BY <1>6, <4>1
      <3>2. step[<<k, f[k - 1]>>] = Enter(k, f[k - 1])
        BY <3>1 DEF step
      <3>3. QED
        BY <1>6, <3>2
    <2> HIDE DEF step
    <2>2. ASSUME NEW k \in 0 .. n
          PROVE  f[k] = IF k = 0 THEN {<<t, 1>>} ELSE Enter(k, f[k - 1])
      BY <1>1, <1>6, <2>1
    <2>3. QED
      BY <1>6, <2>2
  <1> DEFINE F == CHOOSE g : g = Def(g)
  <1>8. DirectoriesOf(t, alias) = F[n]
    BY DEF DirectoriesOf
  <1>9. F = Def(F)
    <2> HIDE DEF Def
    <2> QED BY <1>7
  <1> HIDE DEF F
  <1>10. F[0] = {<<t, 1>>} /\ \A k \in 1 .. n : F[k] = Enter(k, F[k - 1])
    <2> HIDE DEF Enter, n
    <2>1. \A k \in 0 .. n : F[k] = IF k = 0 THEN {<<t, 1>>} ELSE Enter(k, F[k - 1])
      BY <1>9
    <2>2. QED
      BY <1>1, <2>1
  <1> DEFINE Good(k) == \A x \in F[k] : x = <<x[1], x[2]>> /\ Reached(x[1], x[2], SubSeq(alias, 1, k), rs)
             T == {k \in Nat : k <= n => Good(k)}
  <1>11. 0 \in T
    <2>1. SubSeq(alias, 1, 0) = <<>>
      OBVIOUS
    <2>2. ASSUME NEW x \in F[0]
          PROVE  x = <<x[1], x[2]>> /\ Reached(x[1], x[2], SubSeq(alias, 1, 0), rs)
      <3>1. x = <<t, 1>>
        BY <1>10
      <3>2. QED
        BY <2>1, <3>1
    <2>3. QED
      BY <2>2
  <1>12. ASSUME NEW k \in Nat, k \in T
         PROVE  k + 1 \in T
    <2>1. SUFFICES ASSUME k + 1 <= n, NEW y \in F[k + 1]
                   PROVE  y = <<y[1], y[2]>> /\ Reached(y[1], y[2], SubSeq(alias, 1, k + 1), rs)
      BY <1>1
    <2>2. k + 1 \in 1 .. n /\ (k + 1) - 1 = k
      BY <1>1, <2>1
    <2>3. F[k + 1] = Enter(k + 1, F[k])
      BY <1>10, <2>2
    <2>4. PICK x \in F[k] : y \in Entered(x[1], x[2], alias[k + 1])
      BY <2>1, <2>3
    <2>5. Reached(x[1], x[2], SubSeq(alias, 1, k), rs)
      BY <1>12, <2>1, <2>4, <1>1
    <2>6. y = <<y[1], y[2]>> /\ Reached(y[1], y[2], Append(SubSeq(alias, 1, k), alias[k + 1]), rs)
      BY <1>1, <2>2, <2>4, <2>5, EnteredReached
    <2>7. Append(SubSeq(alias, 1, k), alias[k + 1]) = SubSeq(alias, 1, k + 1)
      BY <1>1, <2>2, SubSeqRecursiveSecond
    <2>8. QED
      BY <2>6, <2>7
  <1>13. n \in T
    <2> HIDE DEF T, n
    <2> QED BY <1>1, <1>11, <1>12, NatSetInduction
  <1>14. QED
    BY <1>1, <1>8, <1>13

(* t is a tree with the resources rs.                                      *)
Holds(t, rs) == Reached(t, 1, <<>>, rs)

LEMMA ReachedHolds ==
  ASSUME NEW t, NEW d, NEW p, NEW rs, Reached(t, d, p, rs)
  PROVE  Holds(t, rs)
  <1>1. PICK path : Labelled(t, path) /\ Resources(t, path) = rs
    BY DEF Reached
  <1>2. path[1] = <<>> /\ IsTree(t) /\ 1 \in DOMAIN t
    BY <1>1 DEF Labelled, Reached, IsTree
  <1>3. QED
    BY <1>1, <1>2 DEF Holds, Reached

(* addFile adds its resource.                                              *)
LEMMA AddedHolds ==
  ASSUME NEW t, NEW rs, Holds(t, rs), NEW alias \in Seq(Name) \ {<<>>}, NEW f \in Files,
         NEW language \in Languages, NEW u \in Added(t, alias, RCCFileInfo(Last(alias), f, language, FALSE))
  PROVE  Holds(u, rs \cup {<<alias, language, f>>})
  <1> DEFINE n == RCCFileInfo(Last(alias), f, language, FALSE)
  <1>1. Len(alias) \in Nat \ {0} /\ Last(alias) = alias[Len(alias)] /\ Last(alias) \in Name
    BY EmptySeq DEF Last
  <1>2. LeafOf(n) /\ n.name = Last(alias) /\ n.file = f /\ n.language = language /\ ~n.directory
    <2> DEFINE name == Last(alias)
               directory == FALSE
    <2>1. name \in Name /\ f \in Files \cup {NoFile} /\ language \in Languages \cup {"C"} /\ directory \in BOOLEAN
      BY <1>1
    <2>2. ~directory
      OBVIOUS
    <2>3. n = RCCFileInfo(name, f, language, directory)
      OBVIOUS
    <2> HIDE DEF name, directory, n
    <2>4. LeafOf(n) /\ n.name = name /\ n.file = f /\ n.language = language /\ (~directory => ~n.directory)
      BY <2>1, <2>3, NewNode
    <2>5. QED
      BY <2>2, <2>4 DEF name
  <1>3. PICK e \in DirectoriesOf(t, alias) : \E at \in Positions(e[1], e[2]) : u = Insert(e[1], e[2], n, at)
    BY DEF Added
  <1> HIDE DEF n
  <1>4. PICK at \in Positions(e[1], e[2]) : u = Insert(e[1], e[2], n, at)
    BY <1>3
  <1> DEFINE p == SubSeq(alias, 1, Len(alias) - 1)
  <1>5. Reached(e[1], e[2], p, rs)
    BY DirectoriesReached DEF Holds
  <1>6. Append(p, Last(alias)) = alias
    <2>1. Append(SubSeq(alias, 1, Len(alias) - 1), alias[Len(alias)]) = SubSeq(alias, 1, Len(alias))
      <3> DEFINE n1 == Len(alias)
      <3>1. 1 \in 1 .. Len(alias) /\ n1 \in 1 .. Len(alias)
        BY <1>1
      <3>2. SubSeq(alias, 1, n1) = SubSeq(alias, 1, n1 - 1) \o <<alias[n1]>>
        <4> HIDE DEF n1
        <4> QED BY <3>1, SubSeqRecursiveSecond
      <3>3. SubSeq(alias, 1, n1 - 1) \in Seq(Name) /\ alias[n1] \in Name
        BY <1>1
      <3>4. QED
        BY <3>2, <3>3, AppendIsConcat
    <2>2. SubSeq(alias, 1, Len(alias)) = alias
      BY SubSeqFull
    <2>3. QED
      BY <1>1, <2>1, <2>2
  <1> HIDE DEF p
  <1>7. PICK i : Reached(Insert(e[1], e[2], n, at), i, Append(p, n.name),
                         rs \cup {<<Append(p, n.name), n.language, n.file>>})
    BY <1>2, <1>5, FileReached
  <1>8. QED
    BY <1>2, <1>4, <1>6, <1>7, ReachedHolds

-----------------------------------------------------------------------------
(* What does not change once the files are read                            *)
SameTree(t, u) ==
  /\ u \in Seq(Node) /\ Len(u) = Len(t)
  /\ \A i \in DOMAIN t : SameData(u[i], t[i]) /\ u[i].children = t[i].children

LEMMA SameTreeHolds ==
  ASSUME NEW t, NEW u, IsTree(t), SameTree(t, u)
  PROVE  /\ IsTree(u) /\ DOMAIN u = DOMAIN t
         /\ \A i \in DOMAIN t : Kids(u, i) = Kids(t, i)
         /\ \A rs : Holds(t, rs) => Holds(u, rs)
  <1>1. t \in Seq(Node) /\ u \in Seq(Node) /\ Len(u) = Len(t) /\ DOMAIN u = DOMAIN t /\ 1 \in DOMAIN t
    BY DEF SameTree, IsTree
  <1>2. \A i \in DOMAIN t : Kids(u, i) = Kids(t, i) /\ u[i].children = t[i].children
    BY DEF SameTree, Kids
  <1>3. \A i \in DOMAIN t : u[i].name = t[i].name /\ u[i].directory = t[i].directory
                            /\ u[i].language = t[i].language /\ u[i].file = t[i].file
    BY DEF SameTree, SameData
  <1>4. IsTree(u)
    <2>1. u[1].directory
      BY <1>1, <1>3 DEF IsTree
    <2>2. \A i \in DOMAIN u : Kids(u, i) \subseteq (i + 1) .. Len(u) /\ IsInjective(u[i].children)
      BY <1>1, <1>2 DEF IsTree
    <2>3. \A c \in DOMAIN u \ {1} : u[c].name \in Name /\ \E i \in DOMAIN u : c \in Kids(u, i)
      BY <1>1, <1>2, <1>3 DEF IsTree
    <2>4. \A i, j \in DOMAIN u : Kids(u, i) \cap Kids(u, j) # {} => i = j
      BY <1>1, <1>2 DEF IsTree
    <2>5. QED
      BY <1>1, <2>1, <2>2, <2>3, <2>4 DEF IsTree
  <1>5. ASSUME NEW path, Labelled(t, path)
        PROVE  Labelled(u, path) /\ Resources(u, path) = Resources(t, path)
    <2>1. \A i \in DOMAIN t : \A c \in Kids(t, i) : c \in DOMAIN t
      <3>1. SUFFICES ASSUME NEW i \in DOMAIN t, NEW c \in Kids(t, i)
                     PROVE  c \in DOMAIN t
        OBVIOUS
      <3>2. c \in (i + 1) .. Len(t)
        BY DEF IsTree
      <3>3. i \in Nat /\ DOMAIN t = 1 .. Len(t)
        BY <1>1
      <3>4. QED
        BY <3>2, <3>3
    <2>2. Labelled(u, path)
      BY <1>1, <1>2, <1>3, <1>5, <2>1 DEF Labelled
    <2>3. {j \in DOMAIN u : ~u[j].directory} = {j \in DOMAIN t : ~t[j].directory}
      BY <1>1, <1>3
    <2>4. \A i \in DOMAIN t : <<path[i], u[i].language, u[i].file>> = <<path[i], t[i].language, t[i].file>>
      BY <1>3
    <2>5. QED
      <3> DEFINE D == {j \in DOMAIN t : ~t[j].directory}
      <3>1. Resources(u, path) = {<<path[i], u[i].language, u[i].file>> : i \in D}
        BY <2>3 DEF Resources
      <3>2. Resources(t, path) = {<<path[i], t[i].language, t[i].file>> : i \in D}
        BY DEF Resources
      <3>3. \A i \in D : <<path[i], u[i].language, u[i].file>> = <<path[i], t[i].language, t[i].file>>
        BY <2>4
      <3> HIDE DEF D
      <3>4. Resources(u, path) = Resources(t, path)
        BY <3>1, <3>2, <3>3
      <3>5. QED
        BY <2>2, <3>4
  <1>6. ASSUME NEW rs, Holds(t, rs)
        PROVE  Holds(u, rs)
    BY <1>1, <1>4, <1>5, <1>6 DEF Holds, Reached
  <1>7. QED
    BY <1>1, <1>2, <1>4, <1>6

-----------------------------------------------------------------------------
(* The children of each directory, in some order                           *)
IsOrder(order) ==
  /\ order \in [DOMAIN nodes -> Seq(DOMAIN nodes)]
  /\ \A i \in DOMAIN nodes : /\ ToSet(order[i]) = Kids(nodes, i) /\ IsInjective(order[i])
                             /\ Len(order[i]) = Len(nodes[i].children)

WalkState ==
  [first : UNION {[S -> Nat] : S \in SUBSET DOMAIN nodes}, met : Seq(DOMAIN nodes),
   left : Seq(DOMAIN nodes), pending : Seq(DOMAIN nodes)]

IsWalkState(w) ==
  /\ w \in WalkState
  /\ w.met \in Seq(DOMAIN nodes) /\ w.left \in Seq(DOMAIN nodes) /\ w.pending \in Seq(DOMAIN nodes)
  /\ DOMAIN w.first \subseteq DOMAIN nodes /\ w.first \in [DOMAIN w.first -> Nat]

(* Entry first[i] and the next are for the children of i, all of which     *)
(* come after the one for i.                                               *)
FirstOf(all, met, first, order, i) ==
  /\ first[i] >= 1 /\ first[i] - 1 + Len(order[i]) <= Len(all)
  /\ \A a \in DOMAIN order[i] : all[first[i] - 1 + a] = order[i][a]
  /\ \A a \in DOMAIN met : met[a] = i => first[i] > a

(* What was met or is left are the children of the directories done, each  *)
(* once, and the directories among what was met are done or pending.       *)
Walking(all, met, first, pending, order) ==
  /\ IsInjective(all)
  /\ \A c \in DOMAIN nodes : c \in ToSet(all) <=> \E i \in DOMAIN first : c \in Kids(nodes, i)
  /\ IsInjective(pending) /\ \A i \in DOMAIN first : i \notin ToSet(pending)
  /\ \A i \in DOMAIN nodes :
       i \in DOMAIN first \cup ToSet(pending) <=> i = 1 \/ (i \in ToSet(met) /\ nodes[i].directory)
  /\ \A i \in DOMAIN first : FirstOf(all, met, first, order, i)

Walks(w, order) == IsWalkState(w) /\ Walking(w.met \o w.left, w.met, w.first, w.pending, order)

LEMMA WalkStates ==
  ASSUME NEW w
  PROVE  /\ w \in WalkState => IsWalkState(w)
         /\ \A first, met, left, pending :
              /\ first \in [DOMAIN first -> Nat] /\ DOMAIN first \subseteq DOMAIN nodes
              /\ met \in Seq(DOMAIN nodes) /\ left \in Seq(DOMAIN nodes) /\ pending \in Seq(DOMAIN nodes)
              /\ w = [first |-> first, met |-> met, left |-> left, pending |-> pending]
              => w \in WalkState
  <1> DEFINE F == UNION {[S -> Nat] : S \in SUBSET DOMAIN nodes}
             Q == Seq(DOMAIN nodes)
  <1>1. WalkState = [first : F, met : Q, left : Q, pending : Q]
    BY DEF WalkState
  <1>2. \A g \in F : DOMAIN g \subseteq DOMAIN nodes /\ g \in [DOMAIN g -> Nat]
    <2>1. SUFFICES ASSUME NEW S \in SUBSET DOMAIN nodes, NEW g \in [S -> Nat]
                   PROVE  DOMAIN g \subseteq DOMAIN nodes /\ g \in [DOMAIN g -> Nat]
      OBVIOUS
    <2>2. DOMAIN g = S
      OBVIOUS
    <2>3. QED
      BY <2>2
  <1>3. \A g : g \in [DOMAIN g -> Nat] /\ DOMAIN g \subseteq DOMAIN nodes => g \in F
    OBVIOUS
  <1> HIDE DEF F
  <1>4. w \in WalkState => IsWalkState(w)
    <2>1. SUFFICES ASSUME w \in WalkState
                   PROVE  IsWalkState(w)
      OBVIOUS
    <2> HIDE DEF Q
    <2>2. w.first \in F /\ w.met \in Q /\ w.left \in Q /\ w.pending \in Q
      BY <1>1, <2>1
    <2>3. QED
      BY <1>2, <2>1, <2>2 DEF IsWalkState, Q
  <1>5. ASSUME NEW first, NEW met, NEW left, NEW pending,
               first \in F, met \in Q, left \in Q, pending \in Q,
               w = [first |-> first, met |-> met, left |-> left, pending |-> pending]
        PROVE  w \in WalkState
    <2> HIDE DEF Q
    <2> QED BY <1>1, <1>5
  <1>6. QED
    BY <1>3, <1>4, <1>5

(* The fields after a round                                                *)
LEMMA Met ==
  ASSUME NEW w, IsWalkState(w), w.left # <<>>, NEW v, v = MeetChild(w)
  PROVE  /\ v \in WalkState
         /\ v.first = w.first /\ v.left = Tail(w.left) /\ v.met = Append(w.met, Head(w.left))
         /\ v.pending = IF nodes[Head(w.left)].directory THEN Append(w.pending, Head(w.left)) ELSE w.pending
  <1> DEFINE met == Append(w.met, Head(w.left))
             left == Tail(w.left)
             pending == IF nodes[Head(w.left)].directory THEN Append(w.pending, Head(w.left)) ELSE w.pending
  <1>1. v = [w EXCEPT !.left = left, !.met = met, !.pending = pending]
    BY DEF MeetChild
  <1>2. Head(w.left) \in DOMAIN nodes
    BY DEF IsWalkState
  <1>3. met \in Seq(DOMAIN nodes) /\ left \in Seq(DOMAIN nodes) /\ pending \in Seq(DOMAIN nodes)
    <2>1. w.met \in Seq(DOMAIN nodes) /\ w.left \in Seq(DOMAIN nodes) /\ w.pending \in Seq(DOMAIN nodes)
      BY DEF IsWalkState
    <2>2. met \in Seq(DOMAIN nodes)
      BY <1>2, <2>1
    <2>3. left \in Seq(DOMAIN nodes)
      BY <2>1, HeadTailProperties
    <2>4. Append(w.pending, Head(w.left)) \in Seq(DOMAIN nodes)
      BY <1>2, <2>1
    <2>5. QED
      BY <2>1, <2>2, <2>3, <2>4
  <1> HIDE DEF met, left, pending
  <1>4. v = [first |-> w.first, met |-> met, left |-> left, pending |-> pending]
    BY <1>1 DEF IsWalkState, WalkState
  <1>5. v \in WalkState
    BY <1>3, <1>4, WalkStates DEF IsWalkState
  <1>6. QED
    BY <1>4, <1>5 DEF met, left, pending

LEMMA WithAt ==
  ASSUME NEW f, NEW x, NEW y
  PROVE  /\ With(f, x, y)[x] = y
         /\ \A z \in DOMAIN f : z # x => With(f, x, y)[z] = f[z]
  BY DEF With

LEMMA WithType ==
  ASSUME NEW f, f \in [DOMAIN f -> Nat], NEW x, NEW y \in Nat
  PROVE  /\ DOMAIN With(f, x, y) = DOMAIN f \cup {x}
         /\ With(f, x, y) \in [DOMAIN With(f, x, y) -> Nat]
  <1> DEFINE g == With(f, x, y)
  <1>1. g = [z \in DOMAIN f \cup {x} |-> IF z = x THEN y ELSE f[z]]
    BY DEF With
  <1> HIDE DEF g
  <1>2. \A z \in DOMAIN f : f[z] \in Nat
    OBVIOUS
  <1>3. DOMAIN g = DOMAIN f \cup {x} /\ \A z \in DOMAIN g : g[z] \in Nat
    <2>1. DOMAIN g = DOMAIN f \cup {x}
      BY <1>1
    <2>2. \A z \in DOMAIN g : g[z] = IF z = x THEN y ELSE f[z]
      BY <1>1
    <2>3. QED
      BY <1>2, <2>1, <2>2
  <1>4. g = [z \in DOMAIN g |-> g[z]]
    BY <1>1, <1>3
  <1>5. g \in [DOMAIN g -> Nat]
    BY <1>3, <1>4
  <1>6. QED
    BY <1>3, <1>5 DEF g

LEMMA Popped ==
  ASSUME NEW w, IsWalkState(w), w.pending # <<>>, NEW order, IsOrder(order), NEW v, v = PopDirectory(w, order)
  PROVE  /\ v \in WalkState
         /\ v.first = With(w.first, Last(w.pending), 1 + Len(w.met))
         /\ v.left = order[Last(w.pending)] /\ v.met = w.met /\ v.pending = Front(w.pending)
  <1> DEFINE first == With(w.first, Last(w.pending), 1 + Len(w.met))
             left == order[Last(w.pending)]
             pending == Front(w.pending)
  <1>1. v = [w EXCEPT !.pending = pending, !.left = left, !.first = first]
    BY DEF PopDirectory
  <1>2. Last(w.pending) \in DOMAIN nodes /\ 1 + Len(w.met) \in Nat
    BY EmptySeq DEF IsWalkState, Last
  <1>3. first \in [DOMAIN first -> Nat] /\ DOMAIN first \subseteq DOMAIN nodes
    <2>1. w.first \in [DOMAIN w.first -> Nat] /\ DOMAIN w.first \subseteq DOMAIN nodes
      BY DEF IsWalkState
    <2>2. first \in [DOMAIN first -> Nat] /\ DOMAIN first = DOMAIN w.first \cup {Last(w.pending)}
      BY <1>2, <2>1, WithType
    <2>3. QED
      BY <1>2, <2>1, <2>2
  <1>4. left \in Seq(DOMAIN nodes) /\ pending \in Seq(DOMAIN nodes)
    <2>1. left \in Seq(DOMAIN nodes)
      BY <1>2 DEF IsOrder
    <2>2. w.pending \in Seq(DOMAIN nodes)
      BY DEF IsWalkState
    <2> DEFINE q == w.pending
    <2>3. pending = SubSeq(q, 1, Len(q) - 1)
      BY DEF Front
    <2>4. SubSeq(q, 1, Len(q) - 1) \in Seq(DOMAIN nodes)
      <3> HIDE DEF q
      <3>1. q \in Seq(DOMAIN nodes)
        BY <2>2 DEF q
      <3>2. QED
        BY <3>1
    <2>5. QED
      BY <2>1, <2>3, <2>4
  <1> HIDE DEF first, left, pending
  <1>5. v = [first |-> first, met |-> w.met, left |-> left, pending |-> pending]
    BY <1>1 DEF IsWalkState, WalkState
  <1>6. v \in WalkState
    BY <1>3, <1>4, <1>5, WalkStates DEF IsWalkState
  <1>7. QED
    BY <1>5, <1>6 DEF first, left, pending

(* A sequence with a new last element, without its last, and shifted       *)
LEMMA AppendedSet ==
  ASSUME NEW S, NEW s \in Seq(S), NEW x \in S
  PROVE  /\ ToSet(Append(s, x)) = ToSet(s) \cup {x}
         /\ IsInjective(s) /\ x \notin ToSet(s) => IsInjective(Append(s, x))
  <1>1. Append(s, x) \in Seq(S) /\ Len(Append(s, x)) = Len(s) + 1 /\ Append(s, x)[Len(s) + 1] = x
        /\ \A k \in 1 .. Len(s) : Append(s, x)[k] = s[k]
    OBVIOUS
  <1>2. Len(s) \in Nat /\ DOMAIN s = 1 .. Len(s) /\ DOMAIN Append(s, x) = 1 .. Len(s) + 1
    BY <1>1
  <1> DEFINE r == Append(s, x)
  <1> HIDE DEF r
  <1>3. r[Len(s) + 1] = x /\ \A k \in 1 .. Len(s) : r[k] = s[k]
    BY <1>1 DEF r
  <1>4. DOMAIN r = 1 .. Len(s) + 1
    BY <1>2 DEF r
  <1>5. ToSet(r) = ToSet(s) \cup {x}
    BY <1>2, <1>3, <1>4 DEF ToSet
  <1>6. ASSUME IsInjective(s), x \notin ToSet(s)
        PROVE  IsInjective(r)
    BY <1>2, <1>3, <1>4, <1>6 DEF IsInjective, ToSet
  <1>7. QED
    BY <1>5, <1>6 DEF r

LEMMA FrontSet ==
  ASSUME NEW S, NEW s \in Seq(S), s # <<>>, IsInjective(s)
  PROVE  /\ Last(s) \in ToSet(s) /\ ToSet(Front(s)) = ToSet(s) \ {Last(s)} /\ IsInjective(Front(s))
  <1>1. Len(s) \in Nat \ {0} /\ DOMAIN s = 1 .. Len(s)
    BY EmptySeq
  <1> DEFINE r == Front(s)
  <1>2. Len(r) = Len(s) - 1 /\ DOMAIN r = 1 .. Len(s) - 1 /\ \A k \in 1 .. Len(s) - 1 : r[k] = s[k]
    BY <1>1 DEF Front
  <1>3. Last(s) = s[Len(s)]
    BY DEF Last
  <1> HIDE DEF r
  <1>4. \A k \in 1 .. Len(s) - 1 : s[k] # s[Len(s)]
    BY <1>1 DEF IsInjective
  <1>5. ToSet(r) = ToSet(s) \ {Last(s)}
    BY <1>1, <1>2, <1>3, <1>4 DEF ToSet
  <1>6. IsInjective(r)
    BY <1>1, <1>2 DEF IsInjective
  <1>7. Last(s) \in ToSet(s)
    BY <1>1, <1>3 DEF ToSet
  <1>8. QED
    BY <1>5, <1>6, <1>7 DEF r

LEMMA ConcatSet ==
  ASSUME NEW S, NEW s \in Seq(S), NEW r \in Seq(S)
  PROVE  /\ ToSet(s \o r) = ToSet(s) \cup ToSet(r)
         /\ IsInjective(s) /\ IsInjective(r) /\ ToSet(s) \cap ToSet(r) = {} => IsInjective(s \o r)
  <1> DEFINE u == s \o r
  <1>1. u \in Seq(S) /\ Len(u) = Len(s) + Len(r)
        /\ \A i \in 1 .. Len(s) + Len(r) : u[i] = IF i <= Len(s) THEN s[i] ELSE r[i - Len(s)]
    BY ConcatProperties
  <1> HIDE DEF u
  <1>2. Len(s) \in Nat /\ Len(r) \in Nat /\ DOMAIN s = 1 .. Len(s) /\ DOMAIN r = 1 .. Len(r)
        /\ DOMAIN u = 1 .. Len(s) + Len(r)
    BY <1>1
  <1>3. \A i \in DOMAIN s : i \in DOMAIN u /\ u[i] = s[i]
    BY <1>1, <1>2
  <1>4. ASSUME NEW i \in DOMAIN r
        PROVE  Len(s) + i \in DOMAIN u /\ u[Len(s) + i] = r[i]
    <2>1. Len(s) + i \in 1 .. Len(s) + Len(r) /\ ~(Len(s) + i <= Len(s)) /\ (Len(s) + i) - Len(s) = i
      BY <1>2
    <2>2. QED
      BY <1>1, <1>2, <2>1
  <1>5. ASSUME NEW i \in DOMAIN u
        PROVE  (i \in DOMAIN s /\ u[i] = s[i]) \/ (i - Len(s) \in DOMAIN r /\ u[i] = r[i - Len(s)])
    BY <1>1, <1>2
  <1>6. ToSet(u) = ToSet(s) \cup ToSet(r)
    <2>1. \A x \in ToSet(u) : x \in ToSet(s) \cup ToSet(r)
      BY <1>5 DEF ToSet
    <2>2. \A x \in ToSet(s) : x \in ToSet(u)
      BY <1>3 DEF ToSet
    <2>3. \A x \in ToSet(r) : x \in ToSet(u)
      BY <1>4 DEF ToSet
    <2>4. QED
      BY <2>1, <2>2, <2>3
  <1>7. ASSUME IsInjective(s), IsInjective(r), ToSet(s) \cap ToSet(r) = {}
        PROVE  IsInjective(u)
    <2>1. SUFFICES ASSUME NEW a \in DOMAIN u, NEW b \in DOMAIN u, u[a] = u[b]
                   PROVE  a = b
      BY DEF IsInjective
    <2>2. \A i \in DOMAIN s, j \in DOMAIN r : s[i] # r[j]
      BY <1>7 DEF ToSet
    <2>3. CASE a \in DOMAIN s /\ u[a] = s[a]
      <3>1. b \in DOMAIN s /\ u[b] = s[b]
        BY <1>5, <2>1, <2>2, <2>3
      <3>2. QED
        BY <1>7, <2>1, <2>3, <3>1 DEF IsInjective
    <2>4. CASE a - Len(s) \in DOMAIN r /\ u[a] = r[a - Len(s)]
      <3>1. b - Len(s) \in DOMAIN r /\ u[b] = r[b - Len(s)]
        BY <1>5, <2>1, <2>2, <2>4
      <3>2. a - Len(s) = b - Len(s)
        BY <1>7, <2>1, <2>4, <3>1 DEF IsInjective
      <3>3. QED
        BY <1>2, <3>2
    <2>5. QED
      BY <1>5, <2>3, <2>4
  <1>8. QED
    BY <1>6, <1>7 DEF u

LEMMA HeadOnce ==
  ASSUME NEW S, NEW s \in Seq(S), NEW r \in Seq(S), r # <<>>, IsInjective(s \o r)
  PROVE  Head(r) \notin ToSet(s)
  <1>1. SUFFICES ASSUME NEW a \in DOMAIN s, s[a] = Head(r)
                 PROVE  FALSE
    BY DEF ToSet
  <1> DEFINE u == s \o r
             m == Len(s)
             l == Len(r)
  <1>2. m \in Nat /\ l \in Nat \ {0} /\ DOMAIN s = 1 .. m /\ Head(r) = r[1]
    BY EmptySeq
  <1>3. u \in Seq(S) /\ Len(u) = m + l /\ \A i \in 1 .. m + l : u[i] = IF i <= m THEN s[i] ELSE r[i - m]
    BY ConcatProperties
  <1>4. IsInjective(u)
    OBVIOUS
  <1> HIDE DEF u, m, l
  <1>5. DOMAIN u = 1 .. m + l
    BY <1>3
  <1>6. a \in DOMAIN u /\ u[a] = Head(r)
    BY <1>1, <1>2, <1>3, <1>5
  <1>7. m + 1 \in 1 .. m + l /\ ~(m + 1 <= m) /\ (m + 1) - m = 1
    BY <1>2
  <1>8. m + 1 \in DOMAIN u /\ u[m + 1] = Head(r)
    BY <1>2, <1>3, <1>5, <1>7
  <1>9. a = m + 1
    BY <1>4, <1>6, <1>8 DEF IsInjective
  <1>10. QED
    BY <1>1, <1>2, <1>9

LEMMA HeadMoves ==
  ASSUME NEW S, NEW s \in Seq(S), NEW r \in Seq(S), r # <<>>
  PROVE  Append(s, Head(r)) \o Tail(r) = s \o r
  <1>1. Head(r) \in S /\ Tail(r) \in Seq(S) /\ r = <<Head(r)>> \o Tail(r)
    BY HeadTailProperties
  <1>2. Append(s, Head(r)) = s \o <<Head(r)>>
    BY <1>1, AppendIsConcat
  <1>3. <<Head(r)>> \in Seq(S)
    BY <1>1
  <1>4. (s \o <<Head(r)>>) \o Tail(r) = s \o (<<Head(r)>> \o Tail(r))
    BY <1>1, <1>3, ConcatAssociative
  <1>5. QED
    BY <1>1, <1>2, <1>4

(* A child is met.                                                         *)
LEMMA MetWalks ==
  ASSUME IsTree(nodes), NEW order, IsOrder(order), NEW w, Walks(w, order), w.left # <<>>
  PROVE  /\ Walks(MeetChild(w), order)
         /\ MeetChild(w).first = w.first /\ Len(MeetChild(w).met) = Len(w.met) + 1
  <1> DEFINE v == MeetChild(w)
             c == Head(w.left)
             all == w.met \o w.left
  <1>1. IsWalkState(w) /\ Walking(all, w.met, w.first, w.pending, order)
    BY DEF Walks
  <1>2. /\ v \in WalkState /\ v.first = w.first /\ v.left = Tail(w.left) /\ v.met = Append(w.met, c)
        /\ v.pending = IF nodes[c].directory THEN Append(w.pending, c) ELSE w.pending
    BY <1>1, Met
  <1> HIDE DEF v
  <1>3. w.met \in Seq(DOMAIN nodes) /\ w.left \in Seq(DOMAIN nodes) /\ w.pending \in Seq(DOMAIN nodes)
    BY <1>1 DEF IsWalkState
  <1>4. v.met \o v.left = all
    BY <1>2, <1>3, HeadMoves
  <1>5. c \in DOMAIN nodes /\ c \in ToSet(w.left) /\ c \in ToSet(all)
    <2>1. c = w.left[1] /\ 1 \in DOMAIN w.left /\ c \in DOMAIN nodes
      BY <1>3, EmptySeq
    <2>2. c \in ToSet(w.left)
      BY <2>1 DEF ToSet
    <2>3. QED
      BY <1>3, <2>1, <2>2, ConcatSet
  <1>6. c \notin ToSet(w.met)
    <2>1. IsInjective(all)
      BY <1>1 DEF Walking
    <2>2. QED
      BY <1>3, <2>1, HeadOnce
  <1>7. c # 1
    <2>1. PICK i \in DOMAIN w.first : c \in Kids(nodes, i)
      BY <1>1, <1>5 DEF Walking
    <2>2. i \in DOMAIN nodes
      BY <1>1, <2>1 DEF IsWalkState
    <2>3. c \in (i + 1) .. Len(nodes) /\ i \in Nat \ {0}
      BY <2>1, <2>2 DEF IsTree
    <2>4. QED
      BY <2>3
  <1>8. c \notin DOMAIN w.first \cup ToSet(w.pending)
    BY <1>1, <1>5, <1>6, <1>7 DEF Walking
  <1>9. ToSet(v.met) = ToSet(w.met) \cup {c}
    BY <1>2, <1>3, <1>5, AppendedSet
  <1>10. /\ ToSet(v.pending) = IF nodes[c].directory THEN ToSet(w.pending) \cup {c} ELSE ToSet(w.pending)
         /\ IsInjective(v.pending)
    <2>1. IsInjective(w.pending)
      BY <1>1 DEF Walking
    <2>2. ToSet(Append(w.pending, c)) = ToSet(w.pending) \cup {c} /\ IsInjective(Append(w.pending, c))
      BY <1>3, <1>5, <1>8, <2>1, AppendedSet
    <2>3. QED
      BY <1>2, <2>1, <2>2
  <1>11. \A i \in DOMAIN w.first : FirstOf(all, v.met, w.first, order, i)
    <2>1. SUFFICES ASSUME NEW i \in DOMAIN w.first
                   PROVE  FirstOf(all, v.met, w.first, order, i)
      OBVIOUS
    <2>2. FirstOf(all, w.met, w.first, order, i)
      BY <1>1 DEF Walking
    <2>3. ASSUME NEW a \in DOMAIN v.met, v.met[a] = i
          PROVE  w.first[i] > a
      <3>1. i # c
        BY <1>8
      <3>2. a \in DOMAIN w.met /\ w.met[a] = i
        BY <1>2, <1>3, <1>5, <2>3, <3>1
      <3>3. QED
        BY <2>2, <3>2 DEF FirstOf
    <2>4. QED
      BY <2>2, <2>3 DEF FirstOf
  <1>12. Walking(all, v.met, v.first, v.pending, order)
    <2>1. IsInjective(all) /\ \A d \in DOMAIN nodes : d \in ToSet(all) <=> \E i \in DOMAIN v.first : d \in Kids(nodes, i)
      BY <1>1, <1>2 DEF Walking
    <2>2. \A i \in DOMAIN v.first : i \notin ToSet(v.pending)
      BY <1>1, <1>2, <1>8, <1>10 DEF Walking
    <2>3. \A i \in DOMAIN nodes :
            i \in DOMAIN v.first \cup ToSet(v.pending) <=> i = 1 \/ (i \in ToSet(v.met) /\ nodes[i].directory)
      <3>1. \A i \in DOMAIN nodes :
              i \in DOMAIN w.first \cup ToSet(w.pending) <=> i = 1 \/ (i \in ToSet(w.met) /\ nodes[i].directory)
        BY <1>1 DEF Walking
      <3>2. QED
        BY <1>2, <1>9, <1>10, <3>1
    <2>4. QED
      BY <1>2, <1>10, <1>11, <2>1, <2>2, <2>3 DEF Walking
  <1>13. Walks(v, order)
    BY <1>2, <1>4, <1>12, WalkStates DEF Walks
  <1>14. Len(v.met) = Len(w.met) + 1
    BY <1>2, <1>3, <1>5
  <1>15. QED
    BY <1>2, <1>13, <1>14 DEF v

(* The next directory is popped.                                           *)
LEMMA PopWalks ==
  ASSUME IsTree(nodes), NEW order, IsOrder(order), NEW w, Walks(w, order), w.left = <<>>, w.pending # <<>>
  PROVE  /\ Walks(PopDirectory(w, order), order)
         /\ DOMAIN PopDirectory(w, order).first = DOMAIN w.first \cup {Last(w.pending)}
         /\ Last(w.pending) \notin DOMAIN w.first
         /\ PopDirectory(w, order).met = w.met
  <1> DEFINE v == PopDirectory(w, order)
             dir == Last(w.pending)
             met == w.met
             kids == order[dir]
             all == met \o kids
  <1>1. IsWalkState(w) /\ met \in Seq(DOMAIN nodes) /\ w.pending \in Seq(DOMAIN nodes)
    BY DEF Walks, IsWalkState
  <1>2. Walking(met, met, w.first, w.pending, order)
    <2>1. met \o w.left = met
      BY <1>1, ConcatEmptySeq
    <2>2. QED
      BY <2>1 DEF Walks
  <1>3. v \in WalkState /\ v.first = With(w.first, dir, 1 + Len(met))
        /\ v.left = kids /\ v.met = met /\ v.pending = Front(w.pending)
    BY <1>1, Popped
  <1> HIDE DEF v
  <1>4. /\ dir \in ToSet(w.pending) /\ ToSet(v.pending) = ToSet(w.pending) \ {dir} /\ IsInjective(v.pending)
        /\ dir \in DOMAIN nodes
    <2>1. IsInjective(w.pending)
      BY <1>2 DEF Walking
    <2>2. dir \in ToSet(w.pending) /\ ToSet(v.pending) = ToSet(w.pending) \ {dir} /\ IsInjective(v.pending)
      BY <1>1, <1>3, <2>1, FrontSet
    <2>3. dir \in DOMAIN nodes
      BY <1>1, EmptySeq DEF Last
    <2>4. QED
      BY <2>2, <2>3
  <1>5. dir \notin DOMAIN w.first
    BY <1>2, <1>4 DEF Walking
  <1>6. Len(met) \in Nat /\ 1 + Len(met) \in Nat /\ DOMAIN met = 1 .. Len(met)
    BY <1>1
  <1>7. /\ DOMAIN v.first = DOMAIN w.first \cup {dir} /\ v.first[dir] = 1 + Len(met)
        /\ \A z \in DOMAIN w.first : v.first[z] = w.first[z]
    <2>1. w.first \in [DOMAIN w.first -> Nat]
      BY <1>1 DEF IsWalkState
    <2> HIDE DEF met, dir
    <2> DEFINE y == 1 + Len(met)
               f == w.first
    <2>2. y \in Nat /\ f \in [DOMAIN f -> Nat] /\ v.first = With(f, dir, y)
      BY <1>3, <1>6, <2>1
    <2> HIDE DEF y, f
    <2>3. DOMAIN With(f, dir, y) = DOMAIN f \cup {dir}
      BY <2>2, WithType
    <2>4. With(f, dir, y)[dir] = y /\ \A z \in DOMAIN f : z # dir => With(f, dir, y)[z] = f[z]
      BY WithAt
    <2>5. QED
      BY <1>5, <2>2, <2>3, <2>4 DEF y, f
  <1>8. kids \in Seq(DOMAIN nodes) /\ ToSet(kids) = Kids(nodes, dir) /\ IsInjective(kids)
    BY <1>4 DEF IsOrder
  <1> HIDE DEF kids, met, dir
  <1>9. /\ all \in Seq(DOMAIN nodes) /\ Len(all) = Len(met) + Len(kids) /\ Len(kids) \in Nat
        /\ DOMAIN kids = 1 .. Len(kids)
        /\ \A k \in 1 .. Len(met) + Len(kids) : all[k] = IF k <= Len(met) THEN met[k] ELSE kids[k - Len(met)]
    BY <1>1, <1>8, ConcatProperties
  <1>10. ToSet(all) = ToSet(met) \cup Kids(nodes, dir)
    BY <1>1, <1>8, ConcatSet
  <1>11. IsInjective(all)
    <2>1. IsInjective(met) /\ \A c \in DOMAIN nodes : c \in ToSet(met) <=> \E i \in DOMAIN w.first : c \in Kids(nodes, i)
      BY <1>2 DEF Walking
    <2>2. ASSUME NEW c \in ToSet(met) \cap Kids(nodes, dir)
          PROVE  FALSE
      <3>1. c \in DOMAIN nodes
        BY <1>1 DEF ToSet
      <3>2. PICK i \in DOMAIN w.first : c \in Kids(nodes, i)
        BY <2>1, <3>1
      <3>3. i \in DOMAIN nodes
        BY <1>1 DEF IsWalkState
      <3>4. i = dir
        BY <1>4, <2>2, <3>2, <3>3 DEF IsTree
      <3>5. QED
        BY <1>5, <3>4
    <2>3. QED
      BY <1>1, <1>8, <2>1, <2>2, ConcatSet
  <1> HIDE DEF all
  <1>12. ASSUME NEW i \in DOMAIN v.first
         PROVE  FirstOf(all, met, v.first, order, i)
    <2>1. CASE i = dir
      <3>1. v.first[i] = 1 + Len(met) /\ order[i] = kids
        BY <1>7, <2>1 DEF kids
      <3>2. v.first[i] >= 1 /\ v.first[i] - 1 + Len(order[i]) <= Len(all)
        BY <1>6, <1>9, <3>1
      <3>3. ASSUME NEW a \in DOMAIN kids
            PROVE  all[Len(met) + a] = kids[a]
        <4>1. Len(met) + a \in 1 .. Len(met) + Len(kids) /\ ~(Len(met) + a <= Len(met)) /\ (Len(met) + a) - Len(met) = a
          BY <1>6, <1>9
        <4>2. QED
          BY <1>9, <4>1
      <3>4. \A a \in DOMAIN order[i] : all[v.first[i] - 1 + a] = order[i][a]
        <4>1. v.first[i] - 1 = Len(met)
          BY <1>6, <3>1
        <4>2. QED
          BY <3>1, <3>3, <4>1
      <3>5. \A a \in DOMAIN met : v.first[i] > a
        BY <1>6, <3>1
      <3>6. QED
        BY <3>2, <3>4, <3>5 DEF FirstOf
    <2>2. CASE i # dir
      <3>1. i \in DOMAIN w.first /\ v.first[i] = w.first[i] /\ w.first[i] \in Nat /\ i \in DOMAIN nodes
        BY <1>1, <1>7, <2>2 DEF IsWalkState
      <3> DEFINE x == v.first[i]
                 os == order[i]
      <3>2. FirstOf(met, met, v.first, order, i)
        <4>1. FirstOf(met, met, w.first, order, i)
          BY <1>2, <3>1 DEF Walking
        <4>2. QED
          BY <3>1, <4>1 DEF FirstOf
      <3>3. x >= 1 /\ x - 1 + Len(os) <= Len(met) /\ \A a \in DOMAIN os : met[x - 1 + a] = os[a]
        BY <3>2 DEF FirstOf
      <3>4. os \in Seq(DOMAIN nodes) /\ Len(os) \in Nat /\ DOMAIN os = 1 .. Len(os)
        BY <3>1 DEF IsOrder
      <3> HIDE DEF os
      <3>5. x \in Nat
        BY <3>1
      <3> HIDE DEF x
      <3>6. x - 1 + Len(os) <= Len(all)
        BY <1>6, <1>9, <3>3, <3>4, <3>5
      <3>7. ASSUME NEW a \in DOMAIN os
            PROVE  all[x - 1 + a] = os[a]
        <4>1. x - 1 + a \in 1 .. Len(met) + Len(kids) /\ x - 1 + a <= Len(met)
          BY <1>6, <1>9, <3>3, <3>4, <3>5
        <4>2. all[x - 1 + a] = met[x - 1 + a]
          BY <1>9, <4>1
        <4>3. QED
          BY <3>3, <4>2
      <3>8. QED
        BY <3>2, <3>3, <3>6, <3>7 DEF FirstOf, x, os
    <2>3. QED
      BY <2>1, <2>2
  <1>13. Walking(all, met, v.first, v.pending, order)
    <2>1. \A d \in DOMAIN nodes : d \in ToSet(all) <=> \E i \in DOMAIN v.first : d \in Kids(nodes, i)
      <3>1. \A d \in DOMAIN nodes : d \in ToSet(met) <=> \E i \in DOMAIN w.first : d \in Kids(nodes, i)
        BY <1>2 DEF Walking
      <3>2. QED
        BY <1>7, <1>10, <3>1
    <2>2. \A i \in DOMAIN v.first : i \notin ToSet(v.pending)
      BY <1>2, <1>4, <1>7 DEF Walking
    <2>3. \A i \in DOMAIN nodes :
            i \in DOMAIN v.first \cup ToSet(v.pending) <=> i = 1 \/ (i \in ToSet(met) /\ nodes[i].directory)
      <3>1. \A i \in DOMAIN nodes :
              i \in DOMAIN w.first \cup ToSet(w.pending) <=> i = 1 \/ (i \in ToSet(met) /\ nodes[i].directory)
        BY <1>2 DEF Walking
      <3>2. DOMAIN v.first \cup ToSet(v.pending) = DOMAIN w.first \cup ToSet(w.pending)
        BY <1>4, <1>7
      <3>3. QED
        BY <3>1, <3>2
    <2>4. QED
      BY <1>4, <1>11, <1>12, <2>1, <2>2, <2>3 DEF Walking
  <1>14. Walks(v, order)
    BY <1>3, <1>13, WalkStates DEF Walks, all
  <1>15. QED
    BY <1>3, <1>5, <1>7, <1>14 DEF v, met, dir

LEMMA StartWalks ==
  ASSUME IsTree(nodes), NEW order, IsOrder(order)
  PROVE  /\ Starting \in WalkState /\ Walks(Starting, order)
         /\ DOMAIN Starting.first = {} /\ Starting.met = <<>>
  <1>1. 1 \in DOMAIN nodes /\ nodes[1].directory
    BY DEF IsTree
  <1>2. <<>> \in Seq(DOMAIN nodes) /\ <<1>> \in Seq(DOMAIN nodes)
    BY <1>1
  <1> DEFINE none == <<>>
             one == <<1>>
  <1>3. DOMAIN none = {} /\ none \in [DOMAIN none -> Nat] /\ DOMAIN none \subseteq DOMAIN nodes
    OBVIOUS
  <1>4. Starting = [first |-> none, met |-> none, left |-> none, pending |-> one]
    BY DEF Starting
  <1>5. none \o none = none /\ ToSet(none) = {} /\ IsInjective(none)
    BY <1>2, ConcatEmptySeq DEF ToSet, IsInjective
  <1>6. ToSet(one) = {1} /\ IsInjective(one)
    BY DEF ToSet, IsInjective
  <1>7. none \in Seq(DOMAIN nodes) /\ one \in Seq(DOMAIN nodes)
    BY <1>2
  <1> HIDE DEF none, one
  <1>8. Starting \in WalkState
    BY <1>3, <1>4, <1>7, WalkStates
  <1>9. IsWalkState(Starting)
    BY <1>8, WalkStates
  <1>10. Walking(none, none, none, one, order)
    BY <1>1, <1>3, <1>5, <1>6 DEF Walking
  <1>11. Starting.first = none /\ Starting.met = none /\ Starting.left = none /\ Starting.pending = one
    BY <1>4
  <1>12. Walks(Starting, order)
    BY <1>5, <1>9, <1>10, <1>11 DEF Walks
  <1>13. QED
    BY <1>3, <1>8, <1>11, <1>12 DEF none

LEMMA StepWalks ==
  ASSUME IsTree(nodes), NEW order, IsOrder(order), NEW w, w \in WalkState, Walks(w, order)
  PROVE  WalkStep(w, order) \in WalkState /\ Walks(WalkStep(w, order), order)
  <1>1. \A v : Walks(v, order) => v \in WalkState
    BY DEF Walks, IsWalkState
  <1>2. CASE w.left # <<>>
    BY <1>1, <1>2, MetWalks DEF WalkStep
  <1>3. CASE w.left = <<>> /\ w.pending # <<>>
    BY <1>1, <1>3, PopWalks DEF WalkStep
  <1>4. CASE w.left = <<>> /\ w.pending = <<>>
    BY <1>4 DEF WalkStep
  <1>5. QED
    BY <1>2, <1>3, <1>4

(* The rounds of a walk                                                    *)
LEMMA WalkRounds ==
  ASSUME IsTree(nodes), NEW order, IsOrder(order)
  PROVE  \E f : /\ f[0] = Starting /\ \A k \in Nat : f[k + 1] = WalkStep(f[k], order)
                /\ \A k \in Nat : Walks(f[k], order)
                /\ Walk(order) = f[2 * Len(nodes)]
  <1> DEFINE W == {w \in WalkState : Walks(w, order)}
             step == [p \in Nat \X W |-> WalkStep(p[2], order)]
             Def(g) == [k \in Nat |-> IF k = 0 THEN Starting ELSE WalkStep(g[k - 1], order)]
             F == CHOOSE g : g = Def(g)
  <1>1. Starting \in W
    BY StartWalks
  <1>2. step \in [Nat \X W -> W]
    <2>1. ASSUME NEW p \in Nat \X W
          PROVE  WalkStep(p[2], order) \in W
      BY StepWalks
    <2> HIDE DEF W
    <2>2. QED
      BY <2>1
  <1>3. PICK g : g \in [Nat -> W] /\ g[0] = Starting /\ \A k \in Nat : g[k + 1] = step[<<k, g[k]>>]
    <2> HIDE DEF step, W
    <2>1. PICK g : IsLoop(g, W, Starting, step)
      BY <1>1, <1>2, Recursion
    <2>2. QED
      BY <2>1 DEF IsLoop
  <1>4. \A k \in Nat : g[k + 1] = WalkStep(g[k], order)
    <2>1. SUFFICES ASSUME NEW k \in Nat
                   PROVE  g[k + 1] = WalkStep(g[k], order)
      OBVIOUS
    <2> HIDE DEF W
    <2>2. <<k, g[k]>> \in Nat \X W
      BY <1>3
    <2>3. step[<<k, g[k]>>] = WalkStep(g[k], order)
      BY <2>2
    <2>4. QED
      BY <1>3, <2>3
  <1>5. g = Def(g)
    <2> HIDE DEF step, W
    <2>1. ASSUME NEW k \in Nat
          PROVE  g[k] = IF k = 0 THEN Starting ELSE WalkStep(g[k - 1], order)
      <3>1. CASE k = 0
        BY <1>3, <3>1
      <3>2. CASE k # 0
        <4>1. k - 1 \in Nat /\ (k - 1) + 1 = k
          BY <3>2
        <4>2. QED
          BY <1>4, <4>1, <3>2
      <3>3. QED
        BY <3>1, <3>2
    <2>2. QED
      BY <1>3, <2>1
  <1>6. F = Def(F)
    <2> HIDE DEF Def
    <2> QED BY <1>5
  <1>7. Walk(order) = F[2 * Len(nodes)]
    BY DEF Walk
  <1> HIDE DEF F
  <1>8. F[0] = Starting
    BY <1>6
  <1>9. \A k \in Nat : F[k + 1] = WalkStep(F[k], order)
    <2>1. SUFFICES ASSUME NEW k \in Nat
                   PROVE  F[k + 1] = WalkStep(F[k], order)
      OBVIOUS
    <2>2. k + 1 \in Nat /\ k + 1 # 0 /\ (k + 1) - 1 = k
      OBVIOUS
    <2>3. QED
      BY <1>6, <2>2
  <1>10. \A k \in Nat : F[k] \in W
    <2> DEFINE S == {k \in Nat : F[k] \in W}
    <2>1. 0 \in S
      <3> HIDE DEF W
      <3> QED BY <1>1, <1>8
    <2>2. \A k \in Nat : k \in S => k + 1 \in S
      BY <1>9, StepWalks
    <2>3. Nat \subseteq S
      <3> HIDE DEF S
      <3> QED
        BY <2>1, <2>2, NatSetInduction
    <2>4. QED
      BY <2>3
  <1>11. QED
    BY <1>7, <1>8, <1>9, <1>10

LEMMA InjectiveLength ==
  ASSUME NEW T, IsFiniteSet(T), NEW s \in Seq(T), IsInjective(s)
  PROVE  Len(s) <= Cardinality(T)
  <1>1. Len(s) \in Nat /\ s \in [1 .. Len(s) -> T]
    OBVIOUS
  <1>2. Cardinality(T) \in Nat
    BY FS_CardinalityType
  <1> DEFINE S == 1 .. Len(s)
  <1>3. IsFiniteSet(S) /\ Cardinality(S) = Len(s)
    BY <1>1, FS_Interval
  <1>4. \A x, y \in S : s[x] = s[y] => x = y
    BY <1>1 DEF IsInjective
  <1>5. s \in [S -> T]
    BY <1>1
  <1> HIDE DEF S
  <1>6. ~(Cardinality(T) < Cardinality(S))
    BY <1>3, <1>4, <1>5, FS_PigeonHole
  <1>7. QED
    BY <1>1, <1>2, <1>3, <1>6

Ended(w) == w.left = <<>> /\ w.pending = <<>>
Rounds(w) == Cardinality(DOMAIN w.first) + Len(w.met)

(* A walk has a round for each directory and for each child.               *)
LEMMA RoundsBound ==
  ASSUME IsTree(nodes), NEW order, NEW w, Walks(w, order)
  PROVE  Rounds(w) \in Nat /\ Rounds(w) < 2 * Len(nodes)
         /\ IsFiniteSet(DOMAIN w.first) /\ Cardinality(DOMAIN w.first) \in Nat
  <1>1. nodes \in Seq(Node) /\ Len(nodes) \in Nat \ {0} /\ DOMAIN nodes = 1 .. Len(nodes)
    BY EmptySeq DEF IsTree
  <1>2. IsWalkState(w) /\ Walking(w.met \o w.left, w.met, w.first, w.pending, order)
    BY DEF Walks
  <1>3. IsFiniteSet(DOMAIN nodes) /\ Cardinality(DOMAIN nodes) = Len(nodes)
    BY <1>1, FS_Interval
  <1>4. /\ IsFiniteSet(DOMAIN w.first) /\ Cardinality(DOMAIN w.first) \in Nat
        /\ Cardinality(DOMAIN w.first) <= Len(nodes)
    <2>1. DOMAIN w.first \in SUBSET DOMAIN nodes
      BY <1>2 DEF IsWalkState
    <2>2. QED
      BY <1>3, <2>1, FS_Subset, FS_CardinalityType
  <1> DEFINE met == w.met
             all == w.met \o w.left
             T == DOMAIN nodes \ {1}
  <1>5. IsFiniteSet(T) /\ Cardinality(T) = Len(nodes) - 1
    <2> DEFINE D == DOMAIN nodes
    <2>1. IsFiniteSet(D) /\ Cardinality(D) = Len(nodes) /\ 1 \in D
      BY <1>1, <1>3
    <2>2. T = D \ {1}
      OBVIOUS
    <2> HIDE DEF D, T
    <2>3. QED
      BY <2>1, <2>2, FS_RemoveElement
  <1>6. met \in Seq(DOMAIN nodes) /\ w.left \in Seq(DOMAIN nodes)
    BY <1>2 DEF IsWalkState
  <1>7. IsInjective(all) /\ \A c \in DOMAIN nodes : c \in ToSet(all) <=> \E i \in DOMAIN w.first : c \in Kids(nodes, i)
    BY <1>2 DEF Walking
  <1>8. /\ all \in Seq(DOMAIN nodes) /\ Len(all) = Len(met) + Len(w.left) /\ Len(met) \in Nat /\ Len(w.left) \in Nat
        /\ \A k \in 1 .. Len(met) : k \in DOMAIN all /\ all[k] = met[k]
    <2>1. all \in Seq(DOMAIN nodes) /\ Len(all) = Len(met) + Len(w.left)
          /\ \A k \in 1 .. Len(met) + Len(w.left) : all[k] = IF k <= Len(met) THEN met[k] ELSE w.left[k - Len(met)]
      <3> DEFINE D == DOMAIN nodes
                 left == w.left
      <3>1. met \in Seq(D) /\ left \in Seq(D) /\ all = met \o left
        BY <1>6
      <3> HIDE DEF D, met, left, all
      <3>2. /\ all \in Seq(D) /\ Len(all) = Len(met) + Len(left)
            /\ \A k \in 1 .. Len(met) + Len(left) : all[k] = IF k <= Len(met) THEN met[k] ELSE left[k - Len(met)]
        BY <3>1, ConcatProperties
      <3>3. QED
        BY <3>2 DEF D, left
    <2>2. Len(met) \in Nat /\ Len(w.left) \in Nat
      BY <1>6
    <2> HIDE DEF all, met
    <2>3. DOMAIN all = 1 .. Len(all)
      BY <2>1
    <2>4. QED
      BY <2>1, <2>2, <2>3
  <1> HIDE DEF all
  <1>9. DOMAIN met = 1 .. Len(met)
    BY <1>6
  <1>10. IsInjective(met)
    <2>1. SUFFICES ASSUME NEW a \in 1 .. Len(met), NEW b \in 1 .. Len(met), met[a] = met[b]
                   PROVE  a = b
      BY <1>9 DEF IsInjective
    <2>2. a \in DOMAIN all /\ b \in DOMAIN all /\ all[a] = all[b]
      BY <1>8, <2>1
    <2>3. QED
      BY <1>7, <2>2 DEF IsInjective
  <1>11. ASSUME NEW k \in 1 .. Len(met)
         PROVE  met[k] \in T
    <2>1. met[k] \in ToSet(all) /\ met[k] \in DOMAIN nodes
      <3>1. k \in DOMAIN all /\ all[k] = met[k]
        BY <1>8
      <3>2. all[k] \in ToSet(all)
        BY <3>1 DEF ToSet
      <3>3. met[k] \in DOMAIN nodes
        BY <1>6, <1>9
      <3>4. QED
        BY <3>1, <3>2, <3>3
    <2>2. PICK i \in DOMAIN w.first : met[k] \in Kids(nodes, i)
      BY <1>7, <2>1
    <2>3. i \in DOMAIN nodes
      BY <1>2 DEF IsWalkState
    <2>4. met[k] \in (i + 1) .. Len(nodes) /\ i \in Nat \ {0}
      BY <1>1, <2>2, <2>3 DEF IsTree
    <2>5. QED
      BY <2>1, <2>4
  <1>12. met \in Seq(T)
    <2>1. met = [k \in 1 .. Len(met) |-> met[k]]
      BY <1>6
    <2>2. QED
      BY <1>8, <1>11, <2>1
  <1>13. Len(met) <= Len(nodes) - 1
    <2> HIDE DEF met, T
    <2> QED BY <1>5, <1>10, <1>12, InjectiveLength
  <1>14. QED
    BY <1>1, <1>4, <1>8, <1>13 DEF Rounds

(* A walk ends, with every directory done.                                 *)
LEMMA WalkEnds ==
  ASSUME IsTree(nodes), NEW order, IsOrder(order)
  PROVE  Walks(Walk(order), order) /\ Ended(Walk(order))
  <1>1. PICK f : /\ f[0] = Starting /\ \A k \in Nat : f[k + 1] = WalkStep(f[k], order)
                 /\ \A k \in Nat : Walks(f[k], order)
                 /\ Walk(order) = f[2 * Len(nodes)]
    BY WalkRounds
  <1> DEFINE T == {k \in Nat : Ended(f[k]) \/ Rounds(f[k]) = k}
             n == 2 * Len(nodes)
  <1>2. n \in Nat
    BY DEF IsTree
  <1>3. 0 \in T
    <2>1. DOMAIN f[0].first = {} /\ f[0].met = <<>>
      BY <1>1, StartWalks
    <2>2. Cardinality(DOMAIN f[0].first) = 0
      BY <2>1, FS_EmptySet
    <2>3. Len(f[0].met) = 0
      BY <2>1
    <2>4. QED
      BY <2>2, <2>3 DEF Rounds
  <1>4. ASSUME NEW k \in Nat, k \in T
        PROVE  k + 1 \in T
    <2>1. Walks(f[k], order) /\ f[k + 1] = WalkStep(f[k], order)
      BY <1>1
    <2> DEFINE w == f[k]
               v == f[k + 1]
    <2>2. Walks(w, order) /\ v = WalkStep(w, order)
      BY <2>1
    <2>3. CASE Ended(w)
      <3>1. v = w
        BY <2>2, <2>3 DEF Ended, WalkStep
      <3>2. QED
        BY <2>3, <3>1
    <2> HIDE DEF w, v
    <2>4. Rounds(w) \in Nat /\ IsFiniteSet(DOMAIN w.first) /\ Cardinality(DOMAIN w.first) \in Nat
      BY <2>2, RoundsBound
    <2>5. Len(w.met) \in Nat
      BY <2>2 DEF Walks, IsWalkState
    <2>6. CASE w.left # <<>>
      <3>1. v = MeetChild(w)
        BY <2>2, <2>6 DEF WalkStep
      <3>2. v.first = w.first /\ Len(v.met) = Len(w.met) + 1
        BY <2>2, <2>6, <3>1, MetWalks
      <3>3. Rounds(v) = Rounds(w) + 1
        BY <2>4, <2>5, <3>2 DEF Rounds
      <3>4. ~Ended(w)
        BY <2>6 DEF Ended
      <3>5. QED
        BY <1>4, <3>3, <3>4 DEF w, v
    <2>7. CASE w.left = <<>> /\ w.pending # <<>>
      <3>1. v = PopDirectory(w, order)
        BY <2>2, <2>7 DEF WalkStep
      <3>2. DOMAIN v.first = DOMAIN w.first \cup {Last(w.pending)} /\ Last(w.pending) \notin DOMAIN w.first
            /\ v.met = w.met
        BY <2>2, <2>7, <3>1, PopWalks
      <3>3. Cardinality(DOMAIN v.first) = Cardinality(DOMAIN w.first) + 1
        BY <2>4, <3>2, FS_AddElement
      <3>4. Rounds(v) = Rounds(w) + 1
        BY <2>4, <2>5, <3>2, <3>3 DEF Rounds
      <3>5. ~Ended(w)
        BY <2>7 DEF Ended
      <3>6. QED
        BY <1>4, <3>4, <3>5 DEF w, v
    <2>8. QED
      BY <2>3, <2>6, <2>7 DEF Ended, w
  <1>5. n \in T
    <2> HIDE DEF T, n
    <2> QED BY <1>2, <1>3, <1>4, NatSetInduction
  <1>6. Rounds(f[n]) < n
    BY <1>1, <1>2, RoundsBound
  <1>7. Ended(f[n])
    BY <1>2, <1>5, <1>6
  <1>8. QED
    BY <1>1, <1>2, <1>7

-----------------------------------------------------------------------------
(* What a walk meets: the children of the root and of the directories met. *)
IsMet(t, S) ==
  /\ S \subseteq DOMAIN t
  /\ \A c \in DOMAIN t :
       c \in S <=> \E p \in DOMAIN t : c \in Kids(t, p) /\ (p = 1 \/ (p \in S /\ t[p].directory))

LEMMA MetWithin ==
  ASSUME NEW t, IsTree(t), NEW S, IsMet(t, S), NEW R, IsMet(t, R)
  PROVE  S \subseteq R
  <1>1. SUFFICES ASSUME S \ R # {}
                 PROVE  FALSE
    OBVIOUS
  <1>2. t \in Seq(Node) /\ DOMAIN t = 1 .. Len(t) /\ Len(t) \in Nat
    BY DEF IsTree
  <1> DEFINE D == S \ R
  <1>3. D \in SUBSET Nat /\ D # {}
    BY <1>1, <1>2 DEF IsMet
  <1> HIDE DEF D
  <1>4. PICK c \in D : \A y \in D : c <= y
    BY <1>3, LeastNat
  <1>5. c \in S /\ c \notin R /\ c \in DOMAIN t
    BY <1>4 DEF D, IsMet
  <1>6. PICK p \in DOMAIN t : c \in Kids(t, p) /\ (p = 1 \/ (p \in S /\ t[p].directory))
    BY <1>5 DEF IsMet
  <1>7. c \in (p + 1) .. Len(t)
    BY <1>6 DEF IsTree
  <1>8. p \notin D
    BY <1>2, <1>3, <1>4, <1>7
  <1>9. p = 1 \/ (p \in R /\ t[p].directory)
    BY <1>6, <1>8 DEF D
  <1>10. QED
    BY <1>5, <1>6, <1>9 DEF IsMet

LEMMA SameTreeMet ==
  ASSUME NEW t, NEW u, IsTree(t), SameTree(t, u), NEW S, IsMet(u, S)
  PROVE  IsMet(t, S)
  <1>1. DOMAIN u = DOMAIN t /\ \A i \in DOMAIN t : Kids(u, i) = Kids(t, i)
    BY SameTreeHolds
  <1>2. \A i \in DOMAIN t : u[i].directory = t[i].directory
    BY DEF SameTree, SameData
  <1>3. QED
    BY <1>1, <1>2 DEF IsMet

(* A walk that has ended                                                   *)
Walked(order, met, first) ==
  /\ met \in Seq(DOMAIN nodes) /\ IsInjective(met) /\ IsMet(nodes, ToSet(met))
  /\ first \in [DOMAIN first -> Nat] /\ DOMAIN first \subseteq DOMAIN nodes
  /\ \A i \in DOMAIN nodes : i \in DOMAIN first <=> i = 1 \/ (i \in ToSet(met) /\ nodes[i].directory)
  /\ \A i \in DOMAIN first : FirstOf(met, met, first, order, i)

LEMMA WalkMeetsAll ==
  ASSUME IsTree(nodes), NEW order, IsOrder(order)
  PROVE  Walked(order, Walk(order).met, Walk(order).first)
  <1> DEFINE w == Walk(order)
             met == w.met
             first == w.first
  <1>1. Walks(w, order) /\ Ended(w)
    BY WalkEnds
  <1> HIDE DEF w
  <1>2. met \in Seq(DOMAIN nodes) /\ DOMAIN first \subseteq DOMAIN nodes /\ first \in [DOMAIN first -> Nat]
    BY <1>1 DEF Walks, IsWalkState
  <1>3. met \o w.left = met
    BY <1>1, <1>2, ConcatEmptySeq DEF Ended
  <1>4. Walking(met, met, first, <<>>, order)
    BY <1>1, <1>3 DEF Walks, Ended
  <1>5. ToSet(<<>>) = {}
    BY DEF ToSet
  <1> HIDE DEF met, first
  <1>6. \A i \in DOMAIN nodes : i \in DOMAIN first <=> i = 1 \/ (i \in ToSet(met) /\ nodes[i].directory)
    BY <1>4, <1>5 DEF Walking
  <1>7. \A c \in DOMAIN nodes : c \in ToSet(met) <=> \E i \in DOMAIN first : c \in Kids(nodes, i)
    BY <1>4 DEF Walking
  <1>8. IsInjective(met) /\ \A i \in DOMAIN first : FirstOf(met, met, first, order, i)
    BY <1>4 DEF Walking
  <1>9. ToSet(met) \subseteq DOMAIN nodes
    BY <1>2 DEF ToSet
  <1>10. IsMet(nodes, ToSet(met))
    BY <1>2, <1>6, <1>7, <1>9 DEF IsMet
  <1>11. QED
    BY <1>2, <1>6, <1>8, <1>10 DEF Walked, met, first, w

LEMMA AsHashed ==
  ASSUME IsTree(nodes)
  PROVE  IsOrder(HashOrder)
  <1>1. nodes \in Seq(Node) /\ DOMAIN nodes = 1 .. Len(nodes) /\ Len(nodes) \in Nat
    BY DEF IsTree
  <1>2. ASSUME NEW i \in DOMAIN nodes
        PROVE  nodes[i].children \in Seq(DOMAIN nodes)
    <2> DEFINE s == nodes[i].children
    <2>1. nodes[i] \in Node
      BY <1>1
    <2>2. s \in Seq(Nat)
      BY <2>1 DEF Node
    <2>3. ToSet(s) \subseteq (i + 1) .. Len(nodes)
      BY DEF IsTree, Kids
    <2> HIDE DEF s
    <2>4. s \in [1 .. Len(s) -> Nat] /\ Len(s) \in Nat /\ DOMAIN s = 1 .. Len(s)
      BY <2>2
    <2>5. \A k \in 1 .. Len(s) : s[k] \in DOMAIN nodes
      BY <1>1, <2>3, <2>4 DEF ToSet
    <2>6. s = [k \in 1 .. Len(s) |-> s[k]]
      BY <2>4
    <2>7. s \in Seq(DOMAIN nodes)
      <3> DEFINE D == DOMAIN nodes
      <3> HIDE DEF D
      <3>1. \A k \in 1 .. Len(s) : s[k] \in D
        BY <2>5 DEF D
      <3>2. s \in Seq(D)
        BY <2>4, <2>6, <3>1
      <3>3. QED
        BY <3>2 DEF D
    <2>8. QED
      BY <2>7 DEF s
  <1>3. HashOrder \in [DOMAIN nodes -> Seq(DOMAIN nodes)] /\ \A i \in DOMAIN nodes : HashOrder[i] = nodes[i].children
    BY <1>2 DEF HashOrder
  <1>4. QED
    BY <1>3 DEF IsOrder, IsTree, Kids

-----------------------------------------------------------------------------
(* Sorting by hash                                                         *)
HashAt(s, i) == Hash[nodes[s[i]].name]
UpTo(s, i) == {j \in DOMAIN s : \/ HashAt(s, j) < HashAt(s, i)
                                \/ HashAt(s, j) = HashAt(s, i) /\ j <= i}

LEMMA RankGrows ==
  ASSUME NEW s, NEW n \in Nat, DOMAIN s = 1 .. n, \A i \in 1 .. n : HashAt(s, i) \in Nat
  PROVE  /\ \A i \in 1 .. n : Rank(s, i) \in 1 .. n
         /\ \A i, j \in 1 .. n : i # j /\ i \in UpTo(s, j) => Rank(s, i) < Rank(s, j)
         /\ \A i, j \in 1 .. n : i \in UpTo(s, j) \/ j \in UpTo(s, i)
         /\ \A i, j \in 1 .. n : i \in UpTo(s, j) => HashAt(s, i) <= HashAt(s, j)
  <1>1. \A i : Rank(s, i) = Cardinality(UpTo(s, i))
    BY DEF Rank, UpTo, HashAt
  <1>2. ASSUME NEW i \in 1 .. n
        PROVE  /\ IsFiniteSet(UpTo(s, i)) /\ Cardinality(UpTo(s, i)) \in 1 .. n
    <2> DEFINE S == 1 .. n
               U == UpTo(s, i)
    <2>1. IsFiniteSet(S) /\ Cardinality(S) = n
      BY FS_Interval
    <2>2. U \subseteq S /\ i \in U
      BY DEF UpTo
    <2> HIDE DEF S, U
    <2>3. IsFiniteSet(U) /\ Cardinality(U) <= n /\ Cardinality(U) \in Nat
      BY <2>1, <2>2, FS_Subset, FS_CardinalityType
    <2>4. Cardinality(U) # 0
      BY <2>2, <2>3, FS_EmptySet
    <2>5. QED
      BY <2>3, <2>4 DEF U
  <1>3. ASSUME NEW i \in 1 .. n, NEW j \in 1 .. n, i # j, i \in UpTo(s, j)
        PROVE  Cardinality(UpTo(s, i)) < Cardinality(UpTo(s, j))
    <2>1. UpTo(s, i) \subseteq UpTo(s, j) /\ j \notin UpTo(s, i) /\ j \in UpTo(s, j)
      <3>1. HashAt(s, i) \in Nat /\ HashAt(s, j) \in Nat
        OBVIOUS
      <3>2. \/ HashAt(s, i) < HashAt(s, j)
            \/ HashAt(s, i) = HashAt(s, j) /\ i < j
        BY <1>3 DEF UpTo
      <3>3. j \notin UpTo(s, i) /\ j \in UpTo(s, j)
        BY <3>1, <3>2 DEF UpTo
      <3>4. ASSUME NEW k \in UpTo(s, i)
            PROVE  k \in UpTo(s, j)
        <4>1. k \in 1 .. n /\ HashAt(s, k) \in Nat
          BY DEF UpTo
        <4>2. \/ HashAt(s, k) < HashAt(s, i)
              \/ HashAt(s, k) = HashAt(s, i) /\ k <= i
          BY DEF UpTo
        <4>3. \/ HashAt(s, k) < HashAt(s, j)
              \/ HashAt(s, k) = HashAt(s, j) /\ k <= j
          <5> HIDE DEF HashAt
          <5> QED BY <3>1, <3>2, <4>1, <4>2
        <4>4. QED
          BY <4>1, <4>3 DEF UpTo
      <3>5. QED
        BY <3>3, <3>4
    <2> DEFINE A == UpTo(s, i)
               B == UpTo(s, j)
    <2>2. IsFiniteSet(B) /\ Cardinality(A) \in 1 .. n /\ Cardinality(B) \in 1 .. n
      BY <1>2
    <2>3. A \subseteq B /\ j \notin A /\ j \in B
      BY <2>1
    <2> HIDE DEF A, B
    <2>4. A \in SUBSET B /\ A # B
      BY <2>3
    <2>5. Cardinality(A) <= Cardinality(B) /\ Cardinality(A) # Cardinality(B)
      BY <2>2, <2>4, FS_Subset
    <2>6. QED
      BY <2>2, <2>5 DEF A, B
  <1>4. ASSUME NEW i \in 1 .. n, NEW j \in 1 .. n
        PROVE  /\ i \in UpTo(s, j) \/ j \in UpTo(s, i)
               /\ i \in UpTo(s, j) => HashAt(s, i) <= HashAt(s, j)
    <2>1. HashAt(s, i) \in Nat /\ HashAt(s, j) \in Nat
      OBVIOUS
    <2>2. QED
      BY <2>1 DEF UpTo
  <1>5. QED
    BY <1>1, <1>2, <1>3, <1>4

(* Every rank is the one of an entry.                                      *)
LEMMA RankOnto ==
  ASSUME NEW s, NEW n \in Nat, DOMAIN s = 1 .. n, \A i \in 1 .. n : HashAt(s, i) \in Nat
  PROVE  /\ \A r \in 1 .. n : \E i \in 1 .. n : Rank(s, i) = r
         /\ \A i, j \in 1 .. n : Rank(s, i) = Rank(s, j) => i = j
  <1> DEFINE S == 1 .. n
             rank == [i \in S |-> Rank(s, i)]
  <1>1. \A i \in S : Rank(s, i) \in S
    BY RankGrows
  <1>2. \A i, j \in S : Rank(s, i) = Rank(s, j) => i = j
    <2>1. SUFFICES ASSUME NEW i \in S, NEW j \in S, i # j
                   PROVE  Rank(s, i) # Rank(s, j)
      OBVIOUS
    <2>2. Rank(s, i) < Rank(s, j) \/ Rank(s, j) < Rank(s, i)
      BY <2>1, RankGrows
    <2>3. Rank(s, i) \in Int /\ Rank(s, j) \in Int
      BY <1>1
    <2>4. QED
      BY <2>2, <2>3
  <1>3. IsFiniteSet(S)
    BY FS_Interval
  <1> HIDE DEF S
  <1>4. rank \in [S -> S] /\ \A i \in S : rank[i] = Rank(s, i)
    BY <1>1
  <1>5. rank \in Injection(S, S)
    BY <1>2, <1>4 DEF Injection, IsInjective
  <1> HIDE DEF rank
  <1>6. rank \in Surjection(S, S)
    BY <1>3, <1>5, FS_Injection
  <1>7. \A r \in S : \E i \in S : rank[i] = r
    BY <1>6 DEF Surjection
  <1>8. QED
    BY <1>2, <1>4, <1>7 DEF S

LEMMA SortedChildren ==
  ASSUME NEW s \in Seq(DOMAIN nodes), IsInjective(s), \A i \in 1 .. Len(s) : HashAt(s, i) \in Nat
  PROVE  /\ Sorted(s) \in Seq(DOMAIN nodes) /\ Len(Sorted(s)) = Len(s)
         /\ ToSet(Sorted(s)) = ToSet(s) /\ IsInjective(Sorted(s))
         /\ \A a, b \in 1 .. Len(s) : a < b => HashAt(Sorted(s), a) <= HashAt(Sorted(s), b)
  <1> DEFINE n == Len(s)
             pos == [r \in 1 .. n |-> CHOOSE i \in DOMAIN s : Rank(s, i) = r]
             t == Sorted(s)
             D == DOMAIN nodes
  <1>1. n \in Nat /\ DOMAIN s = 1 .. n /\ s \in [1 .. n -> D]
    OBVIOUS
  <1>2. \A r \in 1 .. n : pos[r] \in 1 .. n /\ Rank(s, pos[r]) = r
    <2>1. SUFFICES ASSUME NEW r \in 1 .. n
                   PROVE  pos[r] \in 1 .. n /\ Rank(s, pos[r]) = r
      OBVIOUS
    <2>2. \E i \in 1 .. n : Rank(s, i) = r
      BY <1>1, RankOnto
    <2>3. pos[r] = CHOOSE i \in DOMAIN s : Rank(s, i) = r
      OBVIOUS
    <2>4. QED
      BY <1>1, <2>2, <2>3
  <1>3. t = [r \in 1 .. n |-> s[pos[r]]]
    BY <1>1 DEF Sorted
  <1> HIDE DEF pos, t, D, n
  <1>4. \A r \in 1 .. n : t[r] = s[pos[r]] /\ t[r] \in D
    BY <1>1, <1>2, <1>3
  <1>5. DOMAIN t = 1 .. n
    BY <1>3
  <1>6. t \in Seq(D) /\ Len(t) = n
    <2>1. t = [r \in 1 .. n |-> t[r]]
      BY <1>3
    <2>2. t \in Seq(D)
      BY <1>1, <1>4, <2>1
    <2>3. QED
      BY <1>1, <1>5, <2>2
  <1>7. \A i \in 1 .. n : HashAt(s, i) \in Nat
    BY DEF n
  <1>8. \A i, j \in 1 .. n : Rank(s, i) = Rank(s, j) => i = j
    BY <1>1, <1>7, RankOnto
  <1>9. ToSet(t) = ToSet(s)
    <2>1. \A r \in DOMAIN t : \E k \in DOMAIN s : s[k] = t[r]
      BY <1>1, <1>2, <1>4, <1>5
    <2>2. ASSUME NEW k \in DOMAIN s
          PROVE  \E r \in DOMAIN t : t[r] = s[k]
      <3>1. Rank(s, k) \in 1 .. n
        BY <1>1, <1>7, RankGrows
      <3>2. pos[Rank(s, k)] = k
        BY <1>1, <1>2, <1>8, <3>1
      <3>3. QED
        BY <1>4, <1>5, <3>1, <3>2
    <2>3. QED
      BY <2>1, <2>2 DEF ToSet
  <1>10. IsInjective(t)
    <2>1. SUFFICES ASSUME NEW a \in 1 .. n, NEW b \in 1 .. n, t[a] = t[b]
                   PROVE  a = b
      BY <1>5 DEF IsInjective
    <2>2. pos[a] = pos[b]
      BY <1>1, <1>2, <1>4, <2>1 DEF IsInjective
    <2>3. QED
      BY <1>2, <2>2
  <1>11. ASSUME NEW a \in 1 .. n, NEW b \in 1 .. n, a < b
         PROVE  HashAt(t, a) <= HashAt(t, b)
    <2>1. HashAt(t, a) = HashAt(s, pos[a]) /\ HashAt(t, b) = HashAt(s, pos[b])
      BY <1>4 DEF HashAt
    <2>2. pos[a] \in 1 .. n /\ pos[b] \in 1 .. n /\ Rank(s, pos[a]) = a /\ Rank(s, pos[b]) = b
      BY <1>2
    <2>3. pos[a] # pos[b]
      BY <1>11, <2>2
    <2>4. pos[a] \in UpTo(s, pos[b]) \/ pos[b] \in UpTo(s, pos[a])
      BY <1>1, <1>7, <2>2, RankGrows
    <2>5. ~(pos[b] \in UpTo(s, pos[a]))
      <3>1. pos[b] \in UpTo(s, pos[a]) => b < a
        BY <1>1, <1>7, <2>2, <2>3, RankGrows
      <3>2. QED
        BY <1>1, <1>11, <3>1
    <2>6. HashAt(s, pos[a]) <= HashAt(s, pos[b])
      BY <1>1, <1>7, <2>2, <2>4, <2>5, RankGrows
    <2>7. QED
      BY <2>1, <2>6
  <1>12. QED
    BY <1>6, <1>9, <1>10, <1>11 DEF t, n, D

LEMMA ChildrenHashed ==
  ASSUME IsTree(nodes), NEW i \in DOMAIN nodes, NEW c \in Kids(nodes, i)
  PROVE  c \in DOMAIN nodes /\ nodes[c].name \in Name /\ Hash[nodes[c].name] \in Nat
  <1>1. c \in (i + 1) .. Len(nodes) /\ DOMAIN nodes = 1 .. Len(nodes) /\ Len(nodes) \in Nat
    BY DEF IsTree
  <1>2. c \in DOMAIN nodes \ {1}
    BY <1>1
  <1>3. nodes[c].name \in Name
    BY <1>2 DEF IsTree
  <1>4. QED
    BY <1>2, <1>3, RccAssumption DEF Name

LEMMA AsSorted ==
  ASSUME IsTree(nodes)
  PROVE  /\ IsOrder(ByHash)
         /\ \A i \in DOMAIN nodes : \A a, b \in 1 .. Len(nodes[i].children) :
              a < b => Hash[nodes[ByHash[i][a]].name] <= Hash[nodes[ByHash[i][b]].name]
  <1>1. IsOrder(HashOrder) /\ \A i \in DOMAIN nodes : HashOrder[i] = nodes[i].children
    BY AsHashed DEF HashOrder
  <1>2. ASSUME NEW i \in DOMAIN nodes
        PROVE  /\ ByHash[i] \in Seq(DOMAIN nodes) /\ ToSet(ByHash[i]) = Kids(nodes, i) /\ IsInjective(ByHash[i])
               /\ Len(ByHash[i]) = Len(nodes[i].children)
               /\ \A a, b \in 1 .. Len(nodes[i].children) :
                    a < b => Hash[nodes[ByHash[i][a]].name] <= Hash[nodes[ByHash[i][b]].name]
    <2> DEFINE s == nodes[i].children
    <2>1. s \in Seq(DOMAIN nodes) /\ IsInjective(s) /\ ToSet(s) = Kids(nodes, i)
      BY <1>1 DEF IsOrder
    <2>2. ByHash[i] = Sorted(s)
      BY DEF ByHash
    <2>3. ASSUME NEW k \in 1 .. Len(s)
          PROVE  HashAt(s, k) \in Nat
      <3>1. s[k] \in Kids(nodes, i)
        <4> HIDE DEF s
        <4> QED BY <2>1 DEF ToSet
      <3>2. QED
        BY <3>1, ChildrenHashed DEF HashAt
    <2> HIDE DEF s
    <2>4. /\ Sorted(s) \in Seq(DOMAIN nodes) /\ Len(Sorted(s)) = Len(s)
          /\ ToSet(Sorted(s)) = ToSet(s) /\ IsInjective(Sorted(s))
          /\ \A a, b \in 1 .. Len(s) : a < b => HashAt(Sorted(s), a) <= HashAt(Sorted(s), b)
      BY <2>1, <2>3, SortedChildren
    <2>5. QED
      BY <2>1, <2>2, <2>4 DEF HashAt, s
  <1>3. ByHash \in [DOMAIN nodes -> Seq(DOMAIN nodes)]
    <2>1. DOMAIN ByHash = DOMAIN nodes /\ ByHash = [i \in DOMAIN nodes |-> Sorted(nodes[i].children)]
      BY DEF ByHash
    <2> HIDE DEF ByHash
    <2>2. QED
      BY <1>2, <2>1
  <1>4. QED
    BY <1>2, <1>3 DEF IsOrder

-----------------------------------------------------------------------------
(* A table of data: each entry at a position of its own, all before e      *)
IsTable(T, X, e) ==
  /\ T \in Seq(Nat \X X) /\ e \in Nat
  /\ \A k \in DOMAIN T : T[k][1] < e
  /\ \A j, k \in DOMAIN T : T[j][1] = T[k][1] => j = k

LEMMA TableGrows ==
  ASSUME NEW T, NEW X, NEW e, IsTable(T, X, e), NEW x \in X, NEW w \in Nat \ {0}
  PROVE  /\ IsTable(Append(T, <<e, x>>), X, e + w)
         /\ At(Append(T, <<e, x>>), e) = {x}
         /\ \A o : At(T, o) # {} => At(Append(T, <<e, x>>), o) = At(T, o)
  <1> DEFINE U == Append(T, <<e, x>>)
             n == Len(T)
  <1>1. T \in Seq(Nat \X X) /\ e \in Nat /\ n \in Nat /\ DOMAIN T = 1 .. n
    BY DEF IsTable
  <1>2. U \in Seq(Nat \X X) /\ DOMAIN U = 1 .. n + 1 /\ U[n + 1] = <<e, x>> /\ \A k \in 1 .. n : U[k] = T[k]
    BY <1>1
  <1> HIDE DEF U, n
  <1>3. U[n + 1][1] = e /\ U[n + 1][2] = x
    BY <1>2
  <1>4. \A k \in 1 .. n : U[k][1] \in Nat /\ U[k][1] < e
    <2>1. SUFFICES ASSUME NEW k \in 1 .. n
                   PROVE  U[k][1] \in Nat /\ U[k][1] < e
      OBVIOUS
    <2>2. T[k] \in Nat \X X
      BY <1>1
    <2>3. T[k][1] < e
      BY <1>1 DEF IsTable
    <2>4. QED
      BY <1>2, <2>2, <2>3
  <1>5. IsTable(U, X, e + w)
    <2>1. \A k \in DOMAIN U : U[k][1] < e + w
      <3>1. SUFFICES ASSUME NEW k \in 1 .. n + 1
                     PROVE  U[k][1] < e + w
        BY <1>2
      <3>2. k \in 1 .. n \/ k = n + 1
        BY <1>1
      <3>3. QED
        BY <1>1, <1>3, <1>4, <3>2
    <2>2. ASSUME NEW j \in DOMAIN U, NEW k \in DOMAIN U, U[j][1] = U[k][1]
          PROVE  j = k
      <3>1. j \in 1 .. n \/ j = n + 1
        BY <1>1, <1>2
      <3>2. k \in 1 .. n \/ k = n + 1
        BY <1>1, <1>2
      <3>3. CASE j \in 1 .. n /\ k \in 1 .. n
        BY <1>1, <1>2, <2>2, <3>3 DEF IsTable
      <3>4. QED
        BY <1>3, <1>4, <1>1, <2>2, <3>1, <3>2, <3>3
    <2>3. QED
      BY <1>1, <1>2, <2>1, <2>2 DEF IsTable
  <1>6. At(U, e) = {x}
    <2>1. {k \in DOMAIN U : U[k][1] = e} = {n + 1}
      BY <1>1, <1>2, <1>3, <1>4
    <2>2. QED
      BY <1>3, <2>1 DEF At
  <1>7. ASSUME NEW o, At(T, o) # {}
        PROVE  At(U, o) = At(T, o)
    <2>1. PICK k \in DOMAIN T : T[k][1] = o
      BY <1>7 DEF At
    <2>2. o # e
      BY <1>1, <1>2, <1>4, <2>1
    <2>3. {j \in DOMAIN U : U[j][1] = o} = {j \in DOMAIN T : T[j][1] = o}
      BY <1>1, <1>2, <1>3, <2>2
    <2>4. \A j \in {i \in DOMAIN T : T[i][1] = o} : U[j] = T[j]
      BY <1>1, <1>2
    <2> DEFINE J == {i \in DOMAIN T : T[i][1] = o}
    <2>5. At(U, o) = {U[j][2] : j \in J} /\ At(T, o) = {T[j][2] : j \in J}
      BY <2>3 DEF At
    <2>6. \A j \in J : U[j][2] = T[j][2]
      BY <2>4
    <2> HIDE DEF J
    <2>7. QED
      BY <2>5, <2>6
  <1>8. QED
    BY <1>5, <1>6, <1>7 DEF U

LEMMA TableEntry ==
  ASSUME NEW T, NEW X, NEW e, IsTable(T, X, e), NEW k \in DOMAIN T
  PROVE  T[k][1] \in Nat /\ At(T, T[k][1]) = {T[k][2]}
  <1>1. T[k] \in Nat \X X
    BY DEF IsTable
  <1>2. {j \in DOMAIN T : T[j][1] = T[k][1]} = {k}
    BY DEF IsTable
  <1>3. QED
    BY <1>1, <1>2 DEF At

LEMMA EmptyTable ==
  ASSUME NEW X
  PROVE  IsTable(<<>>, X, 0)
  BY DEF IsTable

(* The offsets a node gets                                                 *)
LEMMA DataNoted ==
  ASSUME IsTree(nodes), NEW u, SameTree(nodes, u), NEW i \in DOMAIN nodes, NEW o \in Nat,
         NEW v, v = [u EXCEPT ![i].dataOffset = o]
  PROVE  /\ SameTree(nodes, v) /\ v[i].dataOffset = o
         /\ \A j \in DOMAIN nodes : j # i => v[j].dataOffset = u[j].dataOffset
  <1>1. u \in Seq(Node) /\ Len(u) = Len(nodes) /\ DOMAIN u = DOMAIN nodes /\ u[i] \in Node
    BY DEF SameTree, IsTree
  <1> DEFINE n == [u[i] EXCEPT !.dataOffset = o]
  <1>2. v = [u EXCEPT ![i] = n]
    OBVIOUS
  <1>3. n \in Node
    BY <1>1 DEF Node
  <1>4. n.dataOffset = o /\ SameData(n, u[i]) /\ n.children = u[i].children
    BY <1>1 DEF SameData, Node
  <1> HIDE DEF n
  <1>5. v \in Seq(Node) /\ Len(v) = Len(u) /\ v[i] = n /\ \A j \in DOMAIN nodes : j # i => v[j] = u[j]
    BY <1>1, <1>2, <1>3
  <1>6. ASSUME NEW j \in DOMAIN nodes
        PROVE  SameData(v[j], nodes[j]) /\ v[j].children = nodes[j].children
    <2>1. SameData(u[j], nodes[j]) /\ u[j].children = nodes[j].children
      BY DEF SameTree
    <2>2. QED
      BY <1>4, <1>5, <2>1 DEF SameData
  <1>7. QED
    BY <1>1, <1>4, <1>5, <1>6 DEF SameTree

LEMMA NameNoted ==
  ASSUME IsTree(nodes), NEW u, SameTree(nodes, u), NEW i \in DOMAIN nodes, NEW o \in Nat,
         NEW v, v = [u EXCEPT ![i].nameOffset = o]
  PROVE  /\ SameTree(nodes, v) /\ v[i].nameOffset = o
         /\ \A j \in DOMAIN nodes : v[j].dataOffset = u[j].dataOffset
                                    /\ (j # i => v[j].nameOffset = u[j].nameOffset)
  <1>1. u \in Seq(Node) /\ Len(u) = Len(nodes) /\ DOMAIN u = DOMAIN nodes /\ u[i] \in Node
    BY DEF SameTree, IsTree
  <1> DEFINE n == [u[i] EXCEPT !.nameOffset = o]
  <1>2. v = [u EXCEPT ![i] = n]
    OBVIOUS
  <1>3. n \in Node
    BY <1>1 DEF Node
  <1>4. n.nameOffset = o /\ SameData(n, u[i]) /\ n.children = u[i].children /\ n.dataOffset = u[i].dataOffset
    BY <1>1 DEF SameData, Node
  <1> HIDE DEF n
  <1>5. v \in Seq(Node) /\ Len(v) = Len(u) /\ v[i] = n /\ \A j \in DOMAIN nodes : j # i => v[j] = u[j]
    BY <1>1, <1>2, <1>3
  <1>6. ASSUME NEW j \in DOMAIN nodes
        PROVE  SameData(v[j], nodes[j]) /\ v[j].children = nodes[j].children
    <2>1. SameData(u[j], nodes[j]) /\ u[j].children = nodes[j].children
      BY DEF SameTree
    <2>2. QED
      BY <1>4, <1>5, <2>1 DEF SameData
  <1>7. QED
    BY <1>1, <1>4, <1>5, <1>6 DEF SameTree

-----------------------------------------------------------------------------
(* The contents of the files                                               *)
FilesAreKnown(t) == \A i \in DOMAIN t : ~t[i].directory => t[i].file \in Files

LEMMA EndOfBlobs ==
  ASSUME NEW T \in Seq(Nat \X Files)
  PROVE  /\ End(T, BlobWidth) \in Nat
         /\ \A e \in Nat, f \in Files : /\ BlobWidth[f] \in Nat \ {0}
                                        /\ End(Append(T, <<e, f>>), BlobWidth) = e + BlobWidth[f]
  <1>1. \A f \in Files : BlobWidth[f] \in Nat \ {0}
    BY RccAssumption DEF BlobWidth
  <1>2. End(T, BlobWidth) \in Nat
    <2>1. CASE T = <<>>
      BY <2>1 DEF End
    <2>2. CASE T # <<>>
      <3>1. Last(T) \in Nat \X Files
        BY <2>2, EmptySeq DEF Last
      <3>2. Last(T)[1] \in Nat /\ Last(T)[2] \in Files
        BY <3>1
      <3>3. Last(T)[1] + BlobWidth[Last(T)[2]] \in Nat
        BY <1>1, <3>2
      <3>4. QED
        BY <2>2, <3>3 DEF End
    <2>3. QED
      BY <2>1, <2>2
  <1>3. ASSUME NEW e \in Nat, NEW f \in Files
        PROVE  End(Append(T, <<e, f>>), BlobWidth) = e + BlobWidth[f]
    <2> DEFINE U == Append(T, <<e, f>>)
    <2>1. U # <<>> /\ Last(U) = <<e, f>>
      <3> DEFINE P == Nat \X Files
      <3>1. <<e, f>> \in P /\ T \in Seq(P)
        OBVIOUS
      <3>2. /\ U \in Seq(P) /\ Len(U) = Len(T) + 1 /\ U[Len(T) + 1] = <<e, f>> /\ U # <<>>
        <4> HIDE DEF P
        <4> QED BY <3>1, AppendProperties
      <3>3. QED
        BY <3>2 DEF Last
    <2> HIDE DEF U
    <2>2. Last(U)[1] = e /\ Last(U)[2] = f
      BY <2>1
    <2>3. End(U, BlobWidth) = e + BlobWidth[f]
      BY <2>1, <2>2 DEF End
    <2>4. QED
      BY <2>3 DEF U
  <1>4. QED
    BY <1>1, <1>2, <1>3

Same == {u \in Seq(Node) : SameTree(nodes, u)}
BlobState == [nodes : Same, offset : Nat, table : Seq(Nat \X Files)]

LEMMA BlobFields ==
  ASSUME IsTree(nodes), NEW i \in DOMAIN nodes, FilesAreKnown(nodes),
         NEW s \in BlobState, NEW v, v = writeDataBlob(s, i)
  PROVE  /\ v \in BlobState
         /\ nodes[i].directory => v = s
         /\ ~nodes[i].directory /\ nodes[i].file \notin broken =>
              /\ v.nodes = [s.nodes EXCEPT ![i].dataOffset = s.offset]
              /\ v.offset = s.offset + BlobWidth[nodes[i].file]
              /\ v.table = Append(s.table, <<End(s.table, BlobWidth), nodes[i].file>>)
  <1> DEFINE f == nodes[i].file
             u == [s.nodes EXCEPT ![i].dataOffset = s.offset]
             T == Append(s.table, <<End(s.table, BlobWidth), f>>)
             Q == Seq(Nat \X Files)
  <1>1. BlobState = [nodes : Same, offset : Nat, table : Q]
    BY DEF BlobState
  <1>2. s.nodes \in Same /\ s.offset \in Nat /\ s.table \in Q
    BY DEF BlobState
  <1>3. CASE nodes[i].directory
    BY <1>3 DEF writeDataBlob
  <1>4. ASSUME ~nodes[i].directory
        PROVE  f \in Files /\ u \in Same /\ T \in Q /\ BlobWidth[f] \in Nat
    <2>1. f \in Files
      BY <1>4 DEF FilesAreKnown
    <2>2. SameTree(nodes, u)
      BY <1>2, DataNoted DEF Same
    <2>3. u \in Same
      BY <2>2 DEF Same, SameTree
    <2>4. End(s.table, BlobWidth) \in Nat /\ BlobWidth[f] \in Nat
      BY <1>2, <2>1, EndOfBlobs
    <2>5. T \in Q
      BY <1>2, <2>1, <2>4
    <2>6. QED
      BY <2>1, <2>3, <2>4, <2>5
  <1>5. CASE ~nodes[i].directory /\ f \in broken
    <2>1. v = [[s EXCEPT !.nodes[i].dataOffset = s.offset] EXCEPT !.offset = 0]
      BY <1>5 DEF writeDataBlob
    <2>2. v = [nodes |-> u, offset |-> 0, table |-> s.table]
      BY <1>2, <2>1 DEF BlobState
    <2> HIDE DEF u, f, Q
    <2>3. v \in BlobState
      BY <1>1, <1>2, <1>4, <1>5, <2>2
    <2>4. QED
      BY <1>5, <2>3 DEF f
  <1>6. CASE ~nodes[i].directory /\ f \notin broken
    <2>1. v = [[s EXCEPT !.nodes[i].dataOffset = s.offset]
                 EXCEPT !.offset = @ + BlobWidth[f], !.table = Append(@, <<End(@, BlobWidth), f>>)]
      BY <1>6 DEF writeDataBlob
    <2>2. v = [nodes |-> u, offset |-> s.offset + BlobWidth[f], table |-> T]
      BY <1>2, <2>1 DEF BlobState
    <2> HIDE DEF u, f, T, Q
    <2>3. s.offset + BlobWidth[f] \in Nat
      BY <1>2, <1>4, <1>6
    <2>4. v \in BlobState
      BY <1>1, <1>4, <1>6, <2>2, <2>3
    <2>5. v.nodes = u /\ v.offset = s.offset + BlobWidth[f] /\ v.table = T
      BY <2>2
    <2>6. QED
      BY <1>6, <2>4, <2>5 DEF u, f, T
  <1>7. QED
    BY <1>3, <1>5, <1>6

(* As long as every file can be opened the offset is the end of the table. *)
Blobbed(s) == IsTable(s.table, Files, s.offset) /\ End(s.table, BlobWidth) = s.offset
BlobOf(s, i) == ~nodes[i].directory => At(s.table, s.nodes[i].dataOffset) = {nodes[i].file}

LEMMA BlobStep ==
  ASSUME IsTree(nodes), NEW i \in DOMAIN nodes, FilesAreKnown(nodes), broken = {},
         NEW s \in BlobState, Blobbed(s), NEW v, v = writeDataBlob(s, i)
  PROVE  /\ Blobbed(v) /\ BlobOf(v, i)
         /\ \A j \in DOMAIN nodes : j # i /\ BlobOf(s, j) => BlobOf(v, j)
  <1>1. s.nodes \in Same /\ s.offset \in Nat /\ s.table \in Seq(Nat \X Files)
    BY DEF BlobState
  <1>2. CASE nodes[i].directory
    <2>1. v = s
      BY <1>2, BlobFields
    <2>2. QED
      BY <1>2, <2>1 DEF BlobOf
  <1>3. CASE ~nodes[i].directory
    <2> DEFINE f == nodes[i].file
    <2>1. f \in Files
      BY <1>3 DEF FilesAreKnown
    <2>2. /\ v.nodes = [s.nodes EXCEPT ![i].dataOffset = s.offset]
          /\ v.offset = s.offset + BlobWidth[f]
          /\ v.table = Append(s.table, <<s.offset, f>>)
      BY <1>3, BlobFields DEF Blobbed
    <2>3. SameTree(nodes, s.nodes)
      BY <1>1 DEF Same
    <2>4. /\ v.nodes[i].dataOffset = s.offset
          /\ \A j \in DOMAIN nodes : j # i => v.nodes[j].dataOffset = s.nodes[j].dataOffset
      <3> DEFINE t == s.nodes
                 u == v.nodes
                 o == s.offset
      <3>1. SameTree(nodes, t) /\ o \in Nat /\ u = [t EXCEPT ![i].dataOffset = o]
        BY <1>1, <2>2, <2>3
      <3> HIDE DEF t, u, o
      <3>2. u[i].dataOffset = o /\ \A j \in DOMAIN nodes : j # i => u[j].dataOffset = t[j].dataOffset
        BY <3>1, DataNoted
      <3>3. QED
        BY <3>2 DEF t, u, o
    <2>5. BlobWidth[f] \in Nat \ {0} /\ End(v.table, BlobWidth) = v.offset
      <3> DEFINE T == s.table
                 o == s.offset
      <3>1. T \in Seq(Nat \X Files) /\ o \in Nat
        BY <1>1
      <3>2. v.table = Append(T, <<o, f>>) /\ v.offset = o + BlobWidth[f]
        BY <2>2
      <3> HIDE DEF T, o, f
      <3>3. BlobWidth[f] \in Nat \ {0} /\ End(Append(T, <<o, f>>), BlobWidth) = o + BlobWidth[f]
        BY <2>1, <3>1, EndOfBlobs
      <3>4. QED
        BY <3>2, <3>3
    <2>6. IsTable(s.table, Files, s.offset)
      BY DEF Blobbed
    <2> HIDE DEF f
    <2>7. /\ IsTable(v.table, Files, v.offset) /\ At(v.table, s.offset) = {f}
          /\ \A o : At(s.table, o) # {} => At(v.table, o) = At(s.table, o)
      BY <2>1, <2>2, <2>5, <2>6, TableGrows
    <2>8. Blobbed(v)
      BY <2>5, <2>7 DEF Blobbed
    <2>9. BlobOf(v, i)
      BY <2>4, <2>7 DEF BlobOf, f
    <2>10. ASSUME NEW j \in DOMAIN nodes, j # i, BlobOf(s, j)
           PROVE  BlobOf(v, j)
      BY <2>4, <2>7, <2>10 DEF BlobOf
    <2>11. QED
      BY <2>8, <2>9, <2>10
  <1>4. QED
    BY <1>2, <1>3

(* A loop over a sequence                                                  *)
IsLoopOver(f, S, a, met, step) ==
  /\ f \in [0 .. Len(met) -> S] /\ f[0] = a
  /\ \A k \in 1 .. Len(met) : f[k] = step[<<met[k], f[k - 1]>>]

LEMMA LoopOver ==
  ASSUME NEW S, NEW a \in S, NEW D, NEW met \in Seq(D), NEW step \in [D \X S -> S]
  PROVE  \E f : IsLoopOver(f, S, a, met, step)
  <1> DEFINE n == Len(met)
             round == [y \in (1 .. n) \X S |-> step[<<met[y[1]], y[2]>>]]
  <1>1. n \in Nat /\ \A k \in 1 .. n : met[k] \in D
    OBVIOUS
  <1> HIDE DEF n
  <1>2. round \in [(1 .. n) \X S -> S]
    <2>1. ASSUME NEW y \in (1 .. n) \X S
          PROVE  step[<<met[y[1]], y[2]>>] \in S
      <3>1. <<met[y[1]], y[2]>> \in D \X S
        BY <1>1
      <3>2. QED
        BY <3>1
    <2>2. QED
      BY <2>1
  <1>3. \A y \in (1 .. n) \X S : round[y] = step[<<met[y[1]], y[2]>>]
    OBVIOUS
  <1> HIDE DEF round
  <1>4. PICK f : IsLoopTo(f, S, a, n, round)
    BY <1>1, <1>2, LoopTo
  <1>5. f \in [0 .. n -> S] /\ f[0] = a /\ \A k \in 1 .. n : f[k] = round[<<k, f[k - 1]>>]
    BY <1>4 DEF IsLoopTo
  <1>6. ASSUME NEW k \in 1 .. n
        PROVE  f[k] = step[<<met[k], f[k - 1]>>]
    <2>1. k - 1 \in 0 .. n
      BY <1>1
    <2>2. <<k, f[k - 1]>> \in (1 .. n) \X S
      BY <1>5, <2>1
    <2>3. QED
      BY <1>3, <1>5, <2>2
  <1>7. QED
    BY <1>5, <1>6 DEF IsLoopOver, n

DataWritten(t, table) ==
  \A S : IsMet(t, S) => \A i \in S : ~t[i].directory => At(table, t[i].dataOffset) = {t[i].file}

NamesWritten(t, table) ==
  \A S : IsMet(t, S) => \A i \in S : At(table, t[i].nameOffset) = {t[i].name}

LEMMA SameItself ==
  ASSUME IsTree(nodes)
  PROVE  SameTree(nodes, nodes) /\ nodes \in Same
  BY DEF IsTree, SameTree, SameData, Same

LEMMA BlobsWritten ==
  ASSUME IsTree(nodes), FilesAreKnown(nodes)
  PROVE  /\ Blobs \in BlobState
         /\ broken = {} => DataWritten(Blobs.nodes, Blobs.table)
  <1> DEFINE met == Walk(HashOrder).met
             n == Len(met)
             a == [nodes |-> nodes, offset |-> 0, table |-> <<>>]
             D == DOMAIN nodes
             Def(g) == [k \in 0 .. n |-> IF k = 0 THEN a ELSE writeDataBlob(g[k - 1], met[k])]
             F == CHOOSE g : g = Def(g)
             step == [y \in D \X BlobState |-> writeDataBlob(y[2], y[1])]
  <1>1. Blobs = F[n]
    BY DEF Blobs
  <1>2. Walked(HashOrder, met, Walk(HashOrder).first)
    BY AsHashed, WalkMeetsAll
  <1> HIDE DEF met
  <1>3. met \in Seq(D) /\ IsInjective(met) /\ IsMet(nodes, ToSet(met))
    BY <1>2 DEF Walked
  <1>4. n \in Nat /\ \A k \in 1 .. n : met[k] \in D
    BY <1>3
  <1>5. a \in BlobState
    <2> DEFINE Q == Seq(Nat \X Files)
               e == <<>>
    <2>1. e \in Q /\ nodes \in Same
      BY SameItself
    <2>2. BlobState = [nodes : Same, offset : Nat, table : Q] /\ a = [nodes |-> nodes, offset |-> 0, table |-> e]
      BY DEF BlobState
    <2> HIDE DEF Q, e, a
    <2>3. QED
      BY <2>1, <2>2
  <1>6. ASSUME NEW i \in D, NEW s \in BlobState
        PROVE  writeDataBlob(s, i) \in BlobState
    BY BlobFields
  <1>7. step \in [D \X BlobState -> BlobState] /\ \A i \in D, s \in BlobState : step[<<i, s>>] = writeDataBlob(s, i)
    <2> HIDE DEF D
    <2>1. \A y \in D \X BlobState : writeDataBlob(y[2], y[1]) \in BlobState
      BY <1>6
    <2>2. QED
      BY <2>1
  <1> HIDE DEF step, a, D
  <1>8. PICK f : IsLoopOver(f, BlobState, a, met, step)
    BY <1>3, <1>5, <1>7, LoopOver
  <1>9. f \in [0 .. n -> BlobState] /\ f[0] = a /\ \A k \in 1 .. n : f[k] = step[<<met[k], f[k - 1]>>]
    BY <1>8 DEF IsLoopOver
  <1>10. f = Def(f)
    <2>1. ASSUME NEW k \in 1 .. n
          PROVE  f[k] = writeDataBlob(f[k - 1], met[k])
      <3>1. k - 1 \in 0 .. n
        BY <1>4
      <3>2. f[k - 1] \in BlobState /\ met[k] \in D
        BY <1>4, <1>9, <3>1
      <3>3. QED
        BY <1>7, <1>9, <3>2
    <2> HIDE DEF n
    <2>2. \A k \in 0 .. n : f[k] = IF k = 0 THEN a ELSE writeDataBlob(f[k - 1], met[k])
      BY <1>4, <1>9, <2>1
    <2>3. QED
      BY <1>9, <2>2
  <1>11. F = Def(F)
    <2> HIDE DEF Def
    <2> QED BY <1>10
  <1> HIDE DEF F, n
  <1>12. \A k \in 0 .. n : F[k] = IF k = 0 THEN a ELSE writeDataBlob(F[k - 1], met[k])
    BY <1>11
  <1>13. F[0] = a /\ \A k \in 1 .. n : F[k] = writeDataBlob(F[k - 1], met[k])
    BY <1>4, <1>12
  <1> DEFINE Done(k) == broken = {} => Blobbed(F[k]) /\ \A b \in 1 .. k : BlobOf(F[k], met[b])
             T == {k \in Nat : k <= n => F[k] \in BlobState /\ Done(k)}
  <1>14. 0 \in T
    <2>1. a.offset = 0 /\ a.table = <<>>
      BY DEF a
    <2>2. Blobbed(a)
      BY <2>1, EmptyTable DEF Blobbed, End
    <2>3. QED
      BY <1>5, <1>13, <2>2
  <1>15. ASSUME NEW k \in Nat, k \in T
         PROVE  k + 1 \in T
    <2>1. SUFFICES ASSUME k + 1 <= n
                   PROVE  F[k + 1] \in BlobState /\ Done(k + 1)
      OBVIOUS
    <2> DEFINE i == met[k + 1]
    <2>2. k + 1 \in 1 .. n /\ (k + 1) - 1 = k /\ k <= n
      BY <1>4, <2>1
    <2>3. F[k + 1] = writeDataBlob(F[k], i) /\ i \in D
      BY <1>4, <1>13, <2>2
    <2>4. F[k] \in BlobState /\ Done(k)
      BY <1>15, <2>2
    <2>5. \A b \in 1 .. k : met[b] # i /\ met[b] \in D
      <3>1. SUFFICES ASSUME NEW b \in 1 .. k
                     PROVE  met[b] # i /\ met[b] \in D
        OBVIOUS
      <3>2. b \in 1 .. n /\ b # k + 1
        BY <1>4, <2>2
      <3>3. DOMAIN met = 1 .. n
        BY <1>3 DEF n
      <3>4. QED
        BY <1>3, <1>4, <2>2, <3>2, <3>3 DEF IsInjective
    <2> DEFINE s == F[k]
               v == F[k + 1]
    <2> HIDE DEF i, s, v
    <2>6. v \in BlobState
      BY <1>6, <2>3, <2>4 DEF s, v
    <2>7. ASSUME broken = {}
          PROVE  Blobbed(v) /\ BlobOf(v, i) /\ \A b \in 1 .. k : BlobOf(v, met[b])
      <3>1. Blobbed(s) /\ \A b \in 1 .. k : BlobOf(s, met[b])
        BY <2>4, <2>7 DEF s
      <3>2. v = writeDataBlob(s, i) /\ s \in BlobState /\ i \in DOMAIN nodes
        BY <2>3, <2>4 DEF s, v, D
      <3>3. Blobbed(v) /\ BlobOf(v, i) /\ \A j \in DOMAIN nodes : j # i /\ BlobOf(s, j) => BlobOf(v, j)
        BY <2>7, <3>1, <3>2, BlobStep
      <3>4. QED
        BY <2>5, <3>1, <3>3 DEF D
    <2>8. ASSUME broken = {}
          PROVE  \A b \in 1 .. k + 1 : BlobOf(v, met[b])
      <3>1. \A b \in 1 .. k + 1 : b \in 1 .. k \/ b = k + 1
        OBVIOUS
      <3>2. QED
        BY <2>7, <2>8, <3>1 DEF i
    <2>9. QED
      BY <2>6, <2>7, <2>8 DEF v
  <1>16. n \in T
    <2> HIDE DEF T
    <2> QED BY <1>4, <1>14, <1>15, NatSetInduction
  <1> DEFINE s == F[n]
  <1>17. s \in BlobState /\ Done(n)
    BY <1>4, <1>16
  <1>18. ASSUME broken = {}
         PROVE  DataWritten(s.nodes, s.table)
    <2>1. \A b \in 1 .. n : BlobOf(s, met[b])
      BY <1>17, <1>18
    <2> HIDE DEF s
    <2> DEFINE u == s.nodes
    <2>2. SameTree(nodes, u)
      BY <1>17 DEF BlobState, Same
    <2> HIDE DEF u
    <2>3. SUFFICES ASSUME NEW S, IsMet(u, S), NEW i \in S, ~u[i].directory
                   PROVE  At(s.table, u[i].dataOffset) = {u[i].file}
      BY DEF DataWritten, u
    <2>4. IsMet(nodes, S)
      BY <2>2, <2>3, SameTreeMet
    <2>5. i \in ToSet(met)
      BY <1>3, <2>3, <2>4, MetWithin
    <2>6. PICK b \in 1 .. n : met[b] = i
      <3>1. DOMAIN met = 1 .. n
        BY <1>3 DEF n
      <3>2. QED
        BY <2>5, <3>1 DEF ToSet
    <2>7. i \in DOMAIN nodes
      BY <1>4, <2>6 DEF D
    <2>8. u[i].directory = nodes[i].directory /\ u[i].file = nodes[i].file
      BY <2>2, <2>7 DEF SameTree, SameData
    <2>9. BlobOf(s, i)
      BY <2>1, <2>6
    <2>10. QED
      BY <2>3, <2>8, <2>9 DEF BlobOf, u
  <1>19. QED
    BY <1>1, <1>17, <1>18

-----------------------------------------------------------------------------
(* The names                                                               *)
LEMMA EndOfNames ==
  ASSUME NEW T \in Seq(Nat \X Name)
  PROVE  /\ End(T, NameWidth) \in Nat
         /\ \A e \in Nat, x \in Name : /\ NameWidth[x] \in Nat \ {0}
                                       /\ End(Append(T, <<e, x>>), NameWidth) = e + NameWidth[x]
  <1>1. \A x \in Name : NameWidth[x] \in Nat \ {0}
    BY RccAssumption DEF NameWidth, Name
  <1>2. End(T, NameWidth) \in Nat
    <2>1. CASE T = <<>>
      BY <2>1 DEF End
    <2>2. CASE T # <<>>
      <3>1. Last(T) \in Nat \X Name
        BY <2>2, EmptySeq DEF Last
      <3>2. Last(T)[1] \in Nat /\ Last(T)[2] \in Name
        BY <3>1
      <3>3. Last(T)[1] + NameWidth[Last(T)[2]] \in Nat
        BY <1>1, <3>2
      <3>4. QED
        BY <2>2, <3>3 DEF End
    <2>3. QED
      BY <2>1, <2>2
  <1>3. ASSUME NEW e \in Nat, NEW x \in Name
        PROVE  End(Append(T, <<e, x>>), NameWidth) = e + NameWidth[x]
    <2> DEFINE U == Append(T, <<e, x>>)
    <2>1. U # <<>> /\ Last(U) = <<e, x>>
      <3> DEFINE P == Nat \X Name
      <3>1. <<e, x>> \in P /\ T \in Seq(P)
        OBVIOUS
      <3>2. /\ U \in Seq(P) /\ Len(U) = Len(T) + 1 /\ U[Len(T) + 1] = <<e, x>> /\ U # <<>>
        <4> HIDE DEF P
        <4> QED BY <3>1, AppendProperties
      <3>3. QED
        BY <3>2 DEF Last
    <2> HIDE DEF U
    <2>2. Last(U)[1] = e /\ Last(U)[2] = x
      BY <2>1
    <2>3. End(U, NameWidth) = e + NameWidth[x]
      BY <2>1, <2>2 DEF End
    <2>4. QED
      BY <2>3 DEF U
  <1>4. QED
    BY <1>1, <1>2, <1>3

NameState == [nodes : Same, table : Seq(Nat \X Name)]

(* A name is known to the table, or is put at its end.                     *)
Knows(T, x) == \E k \in DOMAIN T : T[k][2] = x
AsKnown(s, v, i) ==
  /\ v.table = s.table
  /\ \E k \in DOMAIN s.table : /\ s.table[k][2] = nodes[i].name
                               /\ v.nodes = [s.nodes EXCEPT ![i].nameOffset = s.table[k][1]]

LEMMA NameFields ==
  ASSUME IsTree(nodes), NEW i \in DOMAIN nodes, nodes[i].name \in Name,
         NEW s \in NameState, NEW v, v = writeDataName(s, i)
  PROVE  /\ v \in NameState
         /\ Knows(s.table, nodes[i].name) => AsKnown(s, v, i)
         /\ ~Knows(s.table, nodes[i].name) =>
              /\ v.table = Append(s.table, <<End(s.table, NameWidth), nodes[i].name>>)
              /\ v.nodes = [s.nodes EXCEPT ![i].nameOffset = End(s.table, NameWidth)]
  <1> DEFINE x == nodes[i].name
             known == {k \in DOMAIN s.table : s.table[k][2] = x}
             Q == Seq(Nat \X Name)
             T == Append(s.table, <<End(s.table, NameWidth), x>>)
             U(o) == [s.nodes EXCEPT ![i].nameOffset = o]
  <1>1. NameState = [nodes : Same, table : Q]
    BY DEF NameState
  <1>2. s.nodes \in Same /\ s.table \in Q
    BY DEF NameState
  <1>3. \A o \in Nat : U(o) \in Same
    <2>1. SUFFICES ASSUME NEW o \in Nat
                   PROVE  U(o) \in Same
      OBVIOUS
    <2>2. SameTree(nodes, U(o))
      BY <1>2, NameNoted DEF Same
    <2>3. QED
      BY <2>2 DEF Same, SameTree
  <1>4. CASE Knows(s.table, x)
    <2> DEFINE k == CHOOSE c \in known : TRUE
    <2>1. k \in known
      BY <1>4 DEF Knows
    <2>2. v = [s EXCEPT !.nodes[i].nameOffset = s.table[k][1]]
      BY <2>1 DEF writeDataName
    <2> HIDE DEF k
    <2>3. k \in DOMAIN s.table /\ s.table[k][2] = x
      BY <2>1
    <2>4. s.table[k][1] \in Nat
      <3>1. s.table[k] \in Nat \X Name
        BY <1>2, <2>3
      <3>2. QED
        BY <3>1
    <2>5. v = [nodes |-> U(s.table[k][1]), table |-> s.table]
      BY <1>2, <2>2 DEF NameState
    <2>6. v.nodes = U(s.table[k][1]) /\ v.table = s.table
      BY <2>5
    <2>7. v \in NameState
      <3> DEFINE u == U(s.table[k][1])
      <3>1. u \in Same /\ v = [nodes |-> u, table |-> s.table]
        BY <1>3, <2>4, <2>5
      <3> HIDE DEF u, Q
      <3>2. QED
        BY <1>1, <1>2, <3>1
    <2>8. AsKnown(s, v, i)
      BY <2>3, <2>6 DEF AsKnown
    <2>9. QED
      BY <1>4, <2>6, <2>7, <2>8
  <1>5. CASE ~Knows(s.table, x)
    <2> DEFINE e == End(s.table, NameWidth)
               u == U(e)
    <2>1. known = {}
      BY <1>5 DEF Knows
    <2>2. v = [s EXCEPT !.nodes[i].nameOffset = e, !.table = Append(@, <<End(@, NameWidth), x>>)]
      BY <2>1 DEF writeDataName
    <2>3. v = [nodes |-> u, table |-> T]
      BY <1>2, <2>2 DEF NameState
    <2>4. e \in Nat
      BY <1>2, EndOfNames
    <2>5. u \in Same
      BY <1>3, <2>4
    <2>6. T \in Q
      BY <1>2, <2>4
    <2> HIDE DEF Q, T, u
    <2>7. v \in NameState /\ v.nodes = u /\ v.table = T
      BY <1>1, <2>3, <2>5, <2>6
    <2>8. QED
      BY <1>5, <2>7 DEF T, u
  <1>6. QED
    BY <1>4, <1>5

Named(s) == IsTable(s.table, Name, End(s.table, NameWidth))
NameOf(s, i) == At(s.table, s.nodes[i].nameOffset) = {nodes[i].name}

LEMMA NameStep ==
  ASSUME IsTree(nodes), NEW i \in DOMAIN nodes, nodes[i].name \in Name,
         NEW s \in NameState, Named(s), NEW v, v = writeDataName(s, i)
  PROVE  /\ Named(v) /\ NameOf(v, i)
         /\ \A j \in DOMAIN nodes : j # i /\ NameOf(s, j) => NameOf(v, j)
         /\ \A j \in DOMAIN nodes : v.nodes[j].dataOffset = s.nodes[j].dataOffset
  <1> DEFINE x == nodes[i].name
             t == s.nodes
             u == v.nodes
             T == s.table
             e == End(T, NameWidth)
  <1>1. t \in Same /\ T \in Seq(Nat \X Name)
    BY DEF NameState
  <1>2. SameTree(nodes, t) /\ IsTable(T, Name, e) /\ e \in Nat
    BY <1>1, EndOfNames DEF Same, Named
  <1>3. CASE Knows(T, x)
    <2>1. AsKnown(s, v, i) /\ v.table = T
      <3>1. AsKnown(s, v, i)
        BY <1>3, NameFields
      <3>2. QED
        BY <3>1 DEF AsKnown
    <2>2. PICK k \in DOMAIN T : T[k][2] = x /\ u = [t EXCEPT ![i].nameOffset = T[k][1]]
      BY <2>1 DEF AsKnown
    <2> HIDE DEF t, u, T, e
    <2>3. T[k][1] \in Nat /\ At(T, T[k][1]) = {T[k][2]}
      BY <1>2, TableEntry
    <2> DEFINE o == T[k][1]
    <2>4. o \in Nat /\ u = [t EXCEPT ![i].nameOffset = o]
      BY <2>2, <2>3
    <2> HIDE DEF o
    <2>5. /\ u[i].nameOffset = o
          /\ \A j \in DOMAIN nodes : u[j].dataOffset = t[j].dataOffset /\ (j # i => u[j].nameOffset = t[j].nameOffset)
      BY <1>2, <2>4, NameNoted
    <2>6. NameOf(v, i)
      BY <2>1, <2>2, <2>3, <2>5 DEF NameOf, o, u
    <2>7. \A j \in DOMAIN nodes : j # i /\ NameOf(s, j) => NameOf(v, j)
      BY <2>1, <2>5 DEF NameOf, T, t, u
    <2>8. Named(v)
      BY <1>2, <2>1 DEF Named, e
    <2>9. QED
      BY <2>5, <2>6, <2>7, <2>8 DEF t, u
  <1>4. CASE ~Knows(T, x)
    <2> DEFINE V == v.table
    <2>1. V = Append(T, <<e, x>>) /\ u = [t EXCEPT ![i].nameOffset = e]
      BY <1>4, NameFields
    <2> HIDE DEF t, u, T, e, x, V
    <2>2. x \in Name
      BY DEF x
    <2>3. NameWidth[x] \in Nat \ {0} /\ End(V, NameWidth) = e + NameWidth[x]
      BY <1>1, <1>2, <2>1, <2>2, EndOfNames
    <2>4. /\ IsTable(V, Name, e + NameWidth[x]) /\ At(V, e) = {x}
          /\ \A o : At(T, o) # {} => At(V, o) = At(T, o)
      BY <1>2, <2>1, <2>2, <2>3, TableGrows
    <2>5. /\ u[i].nameOffset = e
          /\ \A j \in DOMAIN nodes : u[j].dataOffset = t[j].dataOffset /\ (j # i => u[j].nameOffset = t[j].nameOffset)
      <3>1. SameTree(nodes, t) /\ e \in Nat /\ u = [t EXCEPT ![i].nameOffset = e]
        BY <1>2, <2>1
      <3>2. QED
        BY <3>1, NameNoted
    <2>6. NameOf(v, i)
      BY <2>4, <2>5 DEF NameOf, u, x, V
    <2>7. \A j \in DOMAIN nodes : j # i /\ NameOf(s, j) => NameOf(v, j)
      BY <2>4, <2>5 DEF NameOf, T, t, u, V
    <2>8. Named(v)
      BY <2>3, <2>4 DEF Named, V
    <2>9. QED
      BY <2>5, <2>6, <2>7, <2>8 DEF t, u
  <1>5. QED
    BY <1>3, <1>4

LEMMA NamesAreWritten ==
  ASSUME IsTree(nodes)
  PROVE  /\ Names \in NameState
         /\ NamesWritten(Names.nodes, Names.table)
         /\ \A j \in DOMAIN nodes : Names.nodes[j].dataOffset = nodes[j].dataOffset
  <1> DEFINE met == Walk(HashOrder).met
             n == Len(met)
             a == [nodes |-> nodes, table |-> <<>>]
             D == {i \in DOMAIN nodes : nodes[i].name \in Name}
             Def(g) == [k \in 0 .. n |-> IF k = 0 THEN a ELSE writeDataName(g[k - 1], met[k])]
             F == CHOOSE g : g = Def(g)
             step == [y \in D \X NameState |-> writeDataName(y[2], y[1])]
  <1>1. Names = F[n]
    BY DEF Names
  <1>2. Walked(HashOrder, met, Walk(HashOrder).first)
    BY AsHashed, WalkMeetsAll
  <1> HIDE DEF met
  <1>3. met \in Seq(DOMAIN nodes) /\ IsInjective(met) /\ IsMet(nodes, ToSet(met)) /\ DOMAIN met = 1 .. n /\ n \in Nat
    BY <1>2 DEF Walked
  <1>4. \A k \in 1 .. n : met[k] \in D
    <2>1. SUFFICES ASSUME NEW k \in 1 .. n
                   PROVE  met[k] \in D
      OBVIOUS
    <2>2. met[k] \in DOMAIN nodes /\ met[k] \in ToSet(met)
      BY <1>3 DEF ToSet
    <2>3. PICK p \in DOMAIN nodes : met[k] \in Kids(nodes, p)
      BY <1>3, <2>2 DEF IsMet
    <2>4. nodes[met[k]].name \in Name
      BY <2>3, ChildrenHashed
    <2>5. QED
      BY <2>2, <2>4
  <1>5. met \in Seq(D)
    <2> HIDE DEF D
    <2>1. met = [k \in 1 .. n |-> met[k]]
      BY <1>3
    <2>2. QED
      BY <1>3, <1>4, <2>1
  <1>6. a \in NameState
    <2> DEFINE Q == Seq(Nat \X Name)
               e == <<>>
    <2>1. e \in Q /\ nodes \in Same
      BY SameItself
    <2>2. NameState = [nodes : Same, table : Q] /\ a = [nodes |-> nodes, table |-> e]
      BY DEF NameState
    <2> HIDE DEF Q, e, a
    <2>3. QED
      BY <2>1, <2>2
  <1>7. ASSUME NEW i \in D, NEW s \in NameState
        PROVE  writeDataName(s, i) \in NameState
    BY NameFields
  <1>8. step \in [D \X NameState -> NameState] /\ \A i \in D, s \in NameState : step[<<i, s>>] = writeDataName(s, i)
    <2> HIDE DEF D
    <2>1. \A y \in D \X NameState : writeDataName(y[2], y[1]) \in NameState
      BY <1>7
    <2>2. QED
      BY <2>1
  <1> HIDE DEF step, a, D
  <1>9. PICK f : IsLoopOver(f, NameState, a, met, step)
    BY <1>5, <1>6, <1>8, LoopOver
  <1>10. f \in [0 .. n -> NameState] /\ f[0] = a /\ \A k \in 1 .. n : f[k] = step[<<met[k], f[k - 1]>>]
    BY <1>9 DEF IsLoopOver
  <1>11. f = Def(f)
    <2>1. ASSUME NEW k \in 1 .. n
          PROVE  f[k] = writeDataName(f[k - 1], met[k])
      <3>1. k - 1 \in 0 .. n
        BY <1>3
      <3>2. f[k - 1] \in NameState /\ met[k] \in D
        BY <1>4, <1>10, <3>1
      <3>3. QED
        BY <1>8, <1>10, <3>2
    <2> HIDE DEF n
    <2>2. \A k \in 0 .. n : f[k] = IF k = 0 THEN a ELSE writeDataName(f[k - 1], met[k])
      BY <1>3, <1>10, <2>1
    <2>3. QED
      BY <1>10, <2>2
  <1>12. F = Def(F)
    <2> HIDE DEF Def
    <2> QED BY <1>11
  <1> HIDE DEF F, n
  <1>13. \A k \in 0 .. n : F[k] = IF k = 0 THEN a ELSE writeDataName(F[k - 1], met[k])
    BY <1>12
  <1>14. F[0] = a /\ \A k \in 1 .. n : F[k] = writeDataName(F[k - 1], met[k])
    BY <1>3, <1>13
  <1> DEFINE Done(k) == /\ F[k] \in NameState /\ Named(F[k])
                        /\ \A b \in 1 .. k : NameOf(F[k], met[b])
                        /\ \A j \in DOMAIN nodes : F[k].nodes[j].dataOffset = nodes[j].dataOffset
             T == {k \in Nat : k <= n => Done(k)}
  <1>15. 0 \in T
    <2>1. a.nodes = nodes /\ a.table = <<>>
      BY DEF a
    <2>2. Named(a)
      BY <2>1, EmptyTable DEF Named, End
    <2>3. QED
      BY <1>6, <1>14, <2>1, <2>2
  <1>16. ASSUME NEW k \in Nat, k \in T
         PROVE  k + 1 \in T
    <2>1. SUFFICES ASSUME k + 1 <= n
                   PROVE  Done(k + 1)
      OBVIOUS
    <2> DEFINE i == met[k + 1]
    <2>2. k + 1 \in 1 .. n /\ (k + 1) - 1 = k /\ k <= n
      BY <1>3, <2>1
    <2>3. F[k + 1] = writeDataName(F[k], i) /\ i \in D
      BY <1>4, <1>14, <2>2
    <2>4. Done(k)
      BY <1>16, <2>2
    <2>5. \A b \in 1 .. k : met[b] # i /\ met[b] \in D
      <3>1. SUFFICES ASSUME NEW b \in 1 .. k
                     PROVE  met[b] # i /\ met[b] \in D
        OBVIOUS
      <3>2. b \in 1 .. n /\ b # k + 1
        BY <1>3, <2>2
      <3>3. QED
        BY <1>3, <1>4, <2>2, <3>2 DEF IsInjective
    <2> DEFINE s == F[k]
               v == F[k + 1]
    <2> HIDE DEF i, s, v
    <2>6. i \in DOMAIN nodes /\ nodes[i].name \in Name /\ \A b \in 1 .. k : met[b] \in DOMAIN nodes
      BY <2>3, <2>5 DEF D
    <2>7. v \in NameState
      BY <1>7, <2>3, <2>4 DEF s, v
    <2>8. s \in NameState /\ Named(s) /\ v = writeDataName(s, i)
      BY <2>3, <2>4 DEF s, v
    <2>9. /\ Named(v) /\ NameOf(v, i)
          /\ \A j \in DOMAIN nodes : j # i /\ NameOf(s, j) => NameOf(v, j)
          /\ \A j \in DOMAIN nodes : v.nodes[j].dataOffset = s.nodes[j].dataOffset
      BY <2>6, <2>8, NameStep
    <2>10. \A b \in 1 .. k : NameOf(v, met[b])
      BY <2>4, <2>5, <2>6, <2>9 DEF s
    <2>11. \A b \in 1 .. k + 1 : NameOf(v, met[b])
      <3>1. \A b \in 1 .. k + 1 : b \in 1 .. k \/ b = k + 1
        OBVIOUS
      <3>2. QED
        BY <2>9, <2>10, <3>1 DEF i
    <2>12. \A j \in DOMAIN nodes : v.nodes[j].dataOffset = nodes[j].dataOffset
      BY <2>4, <2>9 DEF s
    <2>13. QED
      BY <2>7, <2>9, <2>11, <2>12 DEF v
  <1>17. n \in T
    <2> HIDE DEF T
    <2> QED BY <1>3, <1>15, <1>16, NatSetInduction
  <1> DEFINE s == F[n]
  <1>18. Done(n)
    BY <1>3, <1>17
  <1>19. NamesWritten(s.nodes, s.table)
    <2>1. s \in NameState /\ \A b \in 1 .. n : NameOf(s, met[b])
      BY <1>18
    <2> HIDE DEF s
    <2> DEFINE u == s.nodes
    <2>2. SameTree(nodes, u)
      BY <2>1 DEF NameState, Same
    <2> HIDE DEF u
    <2>3. SUFFICES ASSUME NEW S, IsMet(u, S), NEW i \in S
                   PROVE  At(s.table, u[i].nameOffset) = {u[i].name}
      BY DEF NamesWritten, u
    <2>4. IsMet(nodes, S)
      BY <2>2, <2>3, SameTreeMet
    <2>5. i \in ToSet(met)
      BY <1>3, <2>3, <2>4, MetWithin
    <2>6. PICK b \in 1 .. n : met[b] = i
      BY <1>3, <2>5 DEF ToSet
    <2>7. i \in DOMAIN nodes
      BY <1>4, <2>6 DEF D
    <2>8. u[i].name = nodes[i].name
      BY <2>2, <2>7 DEF SameTree, SameData
    <2>9. NameOf(s, i)
      BY <2>1, <2>6
    <2>10. QED
      BY <2>8, <2>9 DEF NameOf, u
  <1>20. QED
    BY <1>1, <1>18, <1>19

-----------------------------------------------------------------------------
(* The tree                                                                *)
ChildrenAt(t, order, k) ==
  LET f == t[order[k]].childOffset
      n == Len(t[order[k]].children)
  IN  /\ \A a \in 1 .. n : f + a \in (k + 1) .. Len(order) /\ order[f + a] \in Kids(t, order[k])
      /\ \A c \in Kids(t, order[k]) : \E a \in 1 .. n : order[f + a] = c
      /\ \A a, b \in 1 .. n : a < b => Hash[t[order[f + a]].name] <= Hash[t[order[f + b]].name]

(* Entry k is for node order[k]; the entries a directory refers to are for *)
(* its children, after its own and sorted by hash.                         *)
Numbered(t, struct, order) ==
  /\ order \in Seq(DOMAIN t) /\ Len(order) >= 1 /\ order[1] = 1 /\ IsInjective(order)
  /\ struct = [k \in DOMAIN order |-> DataInfo(t[order[k]])]
  /\ IsMet(t, ToSet(order) \ {1})
  /\ \A k \in DOMAIN order : t[order[k]].directory => ChildrenAt(t, order, k)

(* What the first walk leaves as it was                                    *)
LEMMA OffsetsKept ==
  ASSUME IsTree(nodes), NEW first, first \in [DOMAIN first -> Nat], NEW u,
         u = [i \in DOMAIN nodes |-> IF i \in DOMAIN first THEN [nodes[i] EXCEPT !.childOffset = first[i]] ELSE nodes[i]]
  PROVE  /\ SameTree(nodes, u)
         /\ \A i \in DOMAIN nodes : u[i].dataOffset = nodes[i].dataOffset /\ u[i].nameOffset = nodes[i].nameOffset
         /\ \A i \in DOMAIN nodes \cap DOMAIN first : u[i].childOffset = first[i]
  <1>1. nodes \in Seq(Node) /\ DOMAIN nodes = 1 .. Len(nodes) /\ Len(nodes) \in Nat
    BY DEF IsTree
  <1>2. ASSUME NEW i \in DOMAIN nodes
        PROVE  /\ u[i] \in Node /\ SameData(u[i], nodes[i]) /\ u[i].children = nodes[i].children
               /\ u[i].dataOffset = nodes[i].dataOffset /\ u[i].nameOffset = nodes[i].nameOffset
               /\ i \in DOMAIN first => u[i].childOffset = first[i]
    <2>1. nodes[i] \in Node
      BY <1>1
    <2>2. CASE i \notin DOMAIN first
      BY <2>1, <2>2 DEF SameData
    <2>3. CASE i \in DOMAIN first
      <3> DEFINE o == first[i]
                 n == [nodes[i] EXCEPT !.childOffset = o]
      <3>1. o \in Nat /\ u[i] = n
        BY <2>3
      <3> HIDE DEF o
      <3>2. n \in Node
        BY <2>1, <3>1 DEF Node
      <3>3. /\ SameData(n, nodes[i]) /\ n.children = nodes[i].children /\ n.dataOffset = nodes[i].dataOffset
            /\ n.nameOffset = nodes[i].nameOffset /\ n.childOffset = o
        BY <2>1 DEF SameData, Node
      <3> HIDE DEF n
      <3>4. QED
        BY <3>1, <3>2, <3>3 DEF o
    <2>4. QED
      BY <2>2, <2>3
  <1>3. u \in Seq(Node) /\ Len(u) = Len(nodes)
    <2>1. DOMAIN u = 1 .. Len(nodes) /\ u = [i \in 1 .. Len(nodes) |-> u[i]]
      BY <1>1
    <2>2. \A v : v = [i \in 1 .. Len(nodes) |-> v[i]] /\ (\A i \in 1 .. Len(nodes) : v[i] \in Node)
                => v \in Seq(Node)
      BY <1>1
    <2>3. u \in Seq(Node)
      BY <1>1, <1>2, <2>1, <2>2, Zenon
    <2>4. QED
      BY <1>1, <2>1, <2>3
  <1>4. QED
    BY <1>2, <1>3 DEF SameTree

LEMMA WrittenKept ==
  ASSUME IsTree(nodes), NEW u, SameTree(nodes, u), NEW table
  PROVE  /\ (\A i \in DOMAIN nodes : u[i].dataOffset = nodes[i].dataOffset) /\ DataWritten(nodes, table)
              => DataWritten(u, table)
         /\ (\A i \in DOMAIN nodes : u[i].nameOffset = nodes[i].nameOffset) /\ NamesWritten(nodes, table)
              => NamesWritten(u, table)
  <1>1. \A S : IsMet(u, S) => IsMet(nodes, S)
    BY SameTreeMet
  <1>2. \A S : IsMet(nodes, S) => S \subseteq DOMAIN nodes
    BY DEF IsMet
  <1>3. \A i \in DOMAIN nodes : /\ u[i].directory = nodes[i].directory /\ u[i].file = nodes[i].file
                                /\ u[i].name = nodes[i].name
    BY DEF SameTree, SameData
  <1>4. ASSUME \A i \in DOMAIN nodes : u[i].dataOffset = nodes[i].dataOffset, DataWritten(nodes, table)
        PROVE  DataWritten(u, table)
    <2>1. SUFFICES ASSUME NEW S, IsMet(u, S), NEW i \in S, ~u[i].directory
                   PROVE  At(table, u[i].dataOffset) = {u[i].file}
      BY DEF DataWritten
    <2>2. IsMet(nodes, S) /\ i \in DOMAIN nodes
      BY <1>1, <1>2, <2>1
    <2>3. QED
      BY <1>3, <1>4, <2>1, <2>2 DEF DataWritten
  <1>5. ASSUME \A i \in DOMAIN nodes : u[i].nameOffset = nodes[i].nameOffset, NamesWritten(nodes, table)
        PROVE  NamesWritten(u, table)
    <2>1. SUFFICES ASSUME NEW S, IsMet(u, S), NEW i \in S
                   PROVE  At(table, u[i].nameOffset) = {u[i].name}
      BY DEF NamesWritten
    <2>2. IsMet(nodes, S) /\ i \in DOMAIN nodes
      BY <1>1, <1>2, <2>1
    <2>3. QED
      BY <1>3, <1>5, <2>1, <2>2 DEF NamesWritten
  <1>6. QED
    BY <1>4, <1>5

(* The nodes in the order in which writeDataStructure writes their entries *)
WritingOrder == <<1>> \o Walk(ByHash).met

(* The walk that numbers the directories is the one that writes them.      *)
LEMMA StructureNumbered ==
  ASSUME IsTree(nodes), NEW u, u = ChildOffsets, NEW order, order = WritingOrder,
         NEW struct, struct = [k \in DOMAIN order |-> DataInfo(u[order[k]])]
  PROVE  /\ SameTree(nodes, u)
         /\ \A i \in DOMAIN nodes : u[i].dataOffset = nodes[i].dataOffset /\ u[i].nameOffset = nodes[i].nameOffset
         /\ Numbered(u, struct, order)
  <1> USE DEF WritingOrder
  <1> DEFINE met == Walk(ByHash).met
             first == Walk(ByHash).first
             m == Len(met)
  <1>1. Walked(ByHash, met, first)
    BY AsSorted, WalkMeetsAll
  <1>2. u = [i \in DOMAIN nodes |-> IF i \in DOMAIN first THEN [nodes[i] EXCEPT !.childOffset = first[i]] ELSE nodes[i]]
    BY DEF ChildOffsets
  <1>3. order = <<1>> \o met
    OBVIOUS
  <1> HIDE DEF met, first
  <1>4. met \in Seq(DOMAIN nodes) /\ m \in Nat /\ DOMAIN met = 1 .. m /\ IsInjective(met) /\ IsMet(nodes, ToSet(met))
    BY <1>1 DEF Walked
  <1>5. first \in [DOMAIN first -> Nat] /\ \A i \in DOMAIN first : i \in DOMAIN nodes
    BY <1>1 DEF Walked
  <1> HIDE DEF m
  <1>6. /\ SameTree(nodes, u)
        /\ \A i \in DOMAIN nodes : u[i].dataOffset = nodes[i].dataOffset /\ u[i].nameOffset = nodes[i].nameOffset
        /\ \A i \in DOMAIN nodes \cap DOMAIN first : u[i].childOffset = first[i]
    BY <1>2, <1>5, OffsetsKept
  <1>7. DOMAIN u = DOMAIN nodes /\ \A i \in DOMAIN nodes : Kids(u, i) = Kids(nodes, i)
    BY <1>6, SameTreeHolds
  <1>8. 1 \in DOMAIN nodes /\ DOMAIN nodes = 1 .. Len(nodes) /\ Len(nodes) \in Nat
    BY DEF IsTree
  <1>9. /\ order \in Seq(DOMAIN nodes) /\ Len(order) = m + 1 /\ DOMAIN order = 1 .. m + 1 /\ order[1] = 1
        /\ \A a \in 1 .. m : order[a + 1] = met[a]
    <2> DEFINE one == <<1>>
               D == DOMAIN nodes
    <2>1. one \in Seq(D) /\ Len(one) = 1 /\ one[1] = 1
      BY <1>8
    <2>2. order = one \o met /\ met \in Seq(D)
      BY <1>3, <1>4
    <2> HIDE DEF one, D
    <2>3. /\ order \in Seq(D) /\ Len(order) = Len(one) + Len(met)
          /\ \A k \in 1 .. Len(one) + Len(met) : order[k] = IF k <= Len(one) THEN one[k] ELSE met[k - Len(one)]
      BY <2>1, <2>2, ConcatProperties
    <2>4. Len(met) = m
      BY DEF m
    <2>5. Len(order) = m + 1 /\ DOMAIN order = 1 .. m + 1
      BY <1>4, <2>1, <2>3, <2>4
    <2>6. order[1] = 1
      BY <1>4, <2>1, <2>3, <2>4
    <2>7. ASSUME NEW a \in 1 .. m
          PROVE  order[a + 1] = met[a]
      <3>1. a + 1 \in 1 .. 1 + m /\ ~(a + 1 <= 1) /\ (a + 1) - 1 = a
        BY <1>4
      <3>2. QED
        BY <2>1, <2>3, <2>4, <3>1
    <2>8. QED
      BY <2>3, <2>5, <2>6, <2>7 DEF D
  <1>10. ASSUME NEW k \in 1 .. m + 1
         PROVE  k = 1 \/ (k - 1 \in 1 .. m /\ order[k] = met[k - 1])
    <2>1. CASE k = 1
      BY <2>1
    <2>2. CASE k # 1
      <3>1. k - 1 \in 1 .. m /\ (k - 1) + 1 = k
        BY <1>4, <2>2
      <3>2. QED
        BY <1>9, <3>1
    <2>3. QED
      BY <2>1, <2>2
  <1>11. \A a \in 1 .. m : met[a] # 1
    <2>1. SUFFICES ASSUME NEW a \in 1 .. m
                   PROVE  met[a] # 1
      OBVIOUS
    <2>2. met[a] \in DOMAIN nodes /\ met[a] \in ToSet(met)
      <3>1. a \in DOMAIN met
        BY <1>4
      <3>2. met[a] \in ToSet(met)
        BY <3>1 DEF ToSet
      <3>3. met[a] \in DOMAIN nodes
        BY <1>4
      <3>4. QED
        BY <3>2, <3>3
    <2>3. PICK p \in DOMAIN nodes : met[a] \in Kids(nodes, p)
      BY <1>4, <2>2 DEF IsMet
    <2>4. met[a] \in (p + 1) .. Len(nodes)
      BY <2>3 DEF IsTree
    <2>5. QED
      BY <1>8, <2>4
  <1>12. IsInjective(order)
    <2>1. SUFFICES ASSUME NEW j \in 1 .. m + 1, NEW k \in 1 .. m + 1, order[j] = order[k]
                   PROVE  j = k
      BY <1>9 DEF IsInjective
    <2>2. j = 1 \/ (j - 1 \in 1 .. m /\ order[j] = met[j - 1])
      BY <1>10
    <2>3. k = 1 \/ (k - 1 \in 1 .. m /\ order[k] = met[k - 1])
      BY <1>10
    <2>4. CASE j = 1 \/ k = 1
      BY <1>9, <1>11, <2>1, <2>2, <2>3, <2>4
    <2>5. CASE j # 1 /\ k # 1
      <3>1. j - 1 = k - 1
        BY <1>4, <2>1, <2>2, <2>3, <2>5 DEF IsInjective
      <3>2. QED
        BY <1>4, <3>1
    <2>6. QED
      BY <2>4, <2>5
  <1>13. ToSet(order) \ {1} = ToSet(met)
    <2>1. \A c : c \in ToSet(order) <=> \E k \in 1 .. m + 1 : order[k] = c
      BY <1>9 DEF ToSet
    <2>2. \A c : c \in ToSet(met) <=> \E a \in 1 .. m : met[a] = c
      BY <1>4 DEF ToSet
    <2>3. ASSUME NEW c \in ToSet(order), c # 1
          PROVE  c \in ToSet(met)
      BY <1>9, <1>10, <2>1, <2>2, <2>3
    <2>4. ASSUME NEW c \in ToSet(met)
          PROVE  c \in ToSet(order) /\ c # 1
      <3>1. PICK a \in 1 .. m : met[a] = c
        BY <2>2
      <3>2. a + 1 \in 1 .. m + 1 /\ order[a + 1] = c
        BY <1>4, <1>9, <3>1
      <3>3. QED
        BY <1>11, <2>1, <3>1, <3>2
    <2>5. QED
      BY <2>3, <2>4
  <1>14. IsMet(u, ToSet(order) \ {1})
    <2>1. \A i \in DOMAIN nodes : u[i].directory = nodes[i].directory
      BY <1>6 DEF SameTree, SameData
    <2>2. QED
      BY <1>4, <1>7, <1>13, <2>1 DEF IsMet
  <1>15. ASSUME NEW k \in 1 .. m + 1, u[order[k]].directory
         PROVE  ChildrenAt(u, order, k)
    <2> DEFINE i == order[k]
               s == ByHash[i]
               f == u[i].childOffset
               n == Len(u[i].children)
    <2>1. i \in DOMAIN nodes /\ nodes[i].directory /\ u[i].children = nodes[i].children
      BY <1>6, <1>9, <1>15 DEF SameTree, SameData
    <2>2. i \in DOMAIN first
      <3>1. i = 1 \/ i \in ToSet(met)
        BY <1>4, <1>9, <1>10 DEF ToSet
      <3>2. QED
        BY <1>1, <2>1, <3>1 DEF Walked
    <2>3. f = first[i] /\ f \in Nat
      BY <1>5, <1>6, <2>1, <2>2
    <2>4. /\ first[i] >= 1 /\ first[i] - 1 + Len(s) <= m
          /\ \A a \in DOMAIN s : met[first[i] - 1 + a] = s[a]
          /\ \A a \in 1 .. m : met[a] = i => first[i] > a
      <3>1. FirstOf(met, met, first, ByHash, i)
        BY <1>1, <2>2 DEF Walked
      <3>2. QED
        BY <1>4, <3>1 DEF FirstOf, m
    <2>5. /\ s \in Seq(DOMAIN nodes) /\ ToSet(s) = Kids(nodes, i) /\ Len(s) = n /\ n \in Nat /\ DOMAIN s = 1 .. n
          /\ \A a, b \in 1 .. n : a < b => Hash[nodes[s[a]].name] <= Hash[nodes[s[b]].name]
      <3>1. IsOrder(ByHash)
        BY AsSorted
      <3>2. s \in Seq(DOMAIN nodes) /\ ToSet(s) = Kids(nodes, i) /\ Len(s) = Len(nodes[i].children)
        BY <2>1, <3>1 DEF IsOrder
      <3>3. \A a, b \in 1 .. Len(nodes[i].children) : a < b => Hash[nodes[s[a]].name] <= Hash[nodes[s[b]].name]
        BY <2>1, AsSorted
      <3>4. n = Len(nodes[i].children)
        BY <2>1
      <3> DEFINE D == DOMAIN nodes
      <3>5. s \in Seq(D) /\ Len(s) = n
        BY <3>2, <3>4
      <3> HIDE DEF s, n, D
      <3>6. Len(s) \in Nat /\ DOMAIN s = 1 .. Len(s)
        BY <3>5
      <3>7. QED
        BY <3>2, <3>3, <3>4, <3>5, <3>6
    <2> HIDE DEF s, f, n
    <2>6. i = 1 => k = 1
      BY <1>9, <1>10, <1>11
    <2>7. ASSUME NEW a \in 1 .. n
          PROVE  f + a \in (k + 1) .. m + 1 /\ order[f + a] = s[a]
      <3>1. f >= 1 /\ f - 1 + n <= m /\ n \in Nat /\ m \in Nat /\ f \in Nat
        BY <1>4, <2>3, <2>4, <2>5
      <3>2. f - 1 + a \in 1 .. m /\ (f - 1 + a) + 1 = f + a
        BY <3>1
      <3>3. met[f - 1 + a] = s[a]
        BY <2>3, <2>4, <2>5
      <3>4. order[f + a] = s[a]
        BY <1>9, <3>2, <3>3
      <3>5. f + a >= k + 1
        <4>1. CASE k = 1
          BY <2>3, <2>4, <4>1
        <4>2. CASE k # 1
          <5>1. k - 1 \in 1 .. m /\ met[k - 1] = i
            BY <1>10, <4>2
          <5>2. f > k - 1
            BY <2>3, <2>4, <5>1
          <5>3. k \in Int
            BY <3>1
          <5>4. QED
            BY <3>1, <5>2, <5>3
        <4>3. QED
          BY <4>1, <4>2
      <3>6. f + a <= m + 1 /\ f + a \in Int /\ k \in Int /\ m \in Int
        BY <3>1, <3>2
      <3>7. f + a \in (k + 1) .. (m + 1)
        <4> DEFINE x == f + a
        <4>1. x \in Int /\ x >= k + 1 /\ x <= m + 1
          BY <3>5, <3>6
        <4> HIDE DEF x
        <4>2. x \in (k + 1) .. (m + 1)
          BY <3>6, <4>1
        <4>3. QED
          BY <4>2 DEF x
      <3>8. QED
        BY <3>4, <3>7
    <2>8. \A a \in 1 .. n : order[f + a] \in Kids(u, i)
      <3>1. \A a \in 1 .. n : s[a] \in Kids(nodes, i)
        BY <2>5 DEF ToSet
      <3>2. QED
        BY <1>7, <2>1, <2>7, <3>1
    <2>9. ASSUME NEW c \in Kids(u, i)
          PROVE  \E a \in 1 .. n : order[f + a] = c
      <3>1. c \in ToSet(s)
        BY <1>7, <2>1, <2>5
      <3>2. PICK a \in 1 .. n : s[a] = c
        BY <2>5, <3>1 DEF ToSet
      <3>3. QED
        BY <2>7, <3>2
    <2>10. ASSUME NEW a \in 1 .. n, NEW b \in 1 .. n, a < b
           PROVE  Hash[u[order[f + a]].name] <= Hash[u[order[f + b]].name]
      <3>1. order[f + a] = s[a] /\ order[f + b] = s[b]
        BY <2>7
      <3>2. s[a] \in DOMAIN nodes /\ s[b] \in DOMAIN nodes
        BY <2>5
      <3>3. u[s[a]].name = nodes[s[a]].name /\ u[s[b]].name = nodes[s[b]].name
        BY <1>6, <3>2 DEF SameTree, SameData
      <3>4. QED
        BY <2>5, <2>10, <3>1, <3>3
    <2>11. Len(order) = m + 1
      BY <1>9
    <2> HIDE DEF i
    <2>12. QED
      BY <2>7, <2>8, <2>9, <2>10, <2>11 DEF ChildrenAt, i, f, n
  <1>16. Numbered(u, struct, order)
    <2>1. order \in Seq(DOMAIN u)
      BY <1>7, <1>9
    <2>2. Len(order) >= 1
      BY <1>4, <1>9
    <2>3. \A k \in DOMAIN order : u[order[k]].directory => ChildrenAt(u, order, k)
      BY <1>9, <1>15
    <2>4. QED
      BY <1>9, <1>12, <1>14, <2>1, <2>2, <2>3 DEF Numbered
  <1>17. QED
    BY <1>6, <1>16

-----------------------------------------------------------------------------
(* Reading the tables                                                      *)
Finished(order) ==
  IsTree(nodes) /\ Numbered(nodes, qt_resource_struct, order) /\ NamesWritten(nodes, qt_resource_name)

Entries(order) ==
  /\ DOMAIN qt_resource_struct = 1 .. Len(order) /\ Len(qt_resource_struct) = Len(order)
  /\ \A k \in 1 .. Len(order) : qt_resource_struct[k] = DataInfo(nodes[order[k]])

LEMMA OrderFacts ==
  ASSUME NEW order, Finished(order)
  PROVE  /\ Len(order) \in Nat \ {0} /\ DOMAIN order = 1 .. Len(order) /\ order[1] = 1 /\ IsInjective(order)
         /\ Entries(order)
         /\ \A k \in 1 .. Len(order) : order[k] \in DOMAIN nodes /\ (k # 1 => order[k] \in ToSet(order) \ {1})
         /\ IsMet(nodes, ToSet(order) \ {1})
         /\ \A c \in ToSet(order) : \E k \in 1 .. Len(order) : order[k] = c
         /\ nodes[1].directory
  <1> DEFINE m == Len(order)
             X == {DataInfo(nodes[i]) : i \in DOMAIN nodes}
             D == DOMAIN nodes
             struct == qt_resource_struct
  <1>1. /\ order \in Seq(D) /\ m >= 1 /\ order[1] = 1 /\ IsInjective(order)
        /\ struct = [k \in DOMAIN order |-> DataInfo(nodes[order[k]])]
        /\ IsMet(nodes, ToSet(order) \ {1}) /\ nodes[1].directory
    BY DEF Finished, Numbered, IsTree
  <1> HIDE DEF D
  <1>2. m \in Nat \ {0} /\ DOMAIN order = 1 .. m /\ \A k \in 1 .. m : order[k] \in D
    BY <1>1
  <1>3. DOMAIN struct = 1 .. m /\ \A k \in 1 .. m : struct[k] = DataInfo(nodes[order[k]])
    BY <1>1, <1>2
  <1>4. \A k \in 1 .. m : struct[k] \in X
    BY <1>2, <1>3 DEF D
  <1>5. struct = [k \in 1 .. m |-> struct[k]]
    BY <1>1, <1>2
  <1>6. struct \in Seq(X) /\ Len(struct) = m
    <2> HIDE DEF X, m, struct
    <2>1. struct \in Seq(X)
      BY <1>2, <1>4, <1>5
    <2>2. QED
      BY <1>2, <1>3, <2>1
  <1>7. \A c \in ToSet(order) : \E k \in 1 .. m : order[k] = c
    BY <1>2 DEF ToSet
  <1>8. ASSUME NEW k \in 1 .. m, k # 1
        PROVE  order[k] \in ToSet(order) \ {1}
    <2>1. order[k] \in ToSet(order)
      BY <1>2 DEF ToSet
    <2>2. 1 \in 1 .. m
      BY <1>2
    <2>3. order[k] # 1
      BY <1>1, <1>2, <1>8, <2>2 DEF IsInjective
    <2>4. QED
      BY <2>1, <2>3
  <1>9. Entries(order)
    BY <1>3, <1>6 DEF Entries
  <1>10. QED
    BY <1>1, <1>2, <1>7, <1>8, <1>9 DEF D

LEMMA EntryFacts ==
  ASSUME NEW n
  PROVE  /\ DataInfo(n).name = n.nameOffset
         /\ n.directory => /\ DataInfo(n).directory
                           /\ DataInfo(n).count = Len(n.children) /\ DataInfo(n).first = n.childOffset
         /\ ~n.directory => /\ ~DataInfo(n).directory
                            /\ DataInfo(n).language = n.language /\ DataInfo(n).data = n.dataOffset
  BY DEF DataInfo

(* The names and the entries a reader sees                                 *)
LEMMA NamesRead ==
  ASSUME NEW order, Finished(order), NEW k \in 2 .. Len(order)
  PROVE  NamesOf(k) = {nodes[order[k]].name}
  <1>1. k \in 1 .. Len(order) /\ k # 1
    BY OrderFacts
  <1>2. order[k] \in ToSet(order) \ {1} /\ qt_resource_struct[k] = DataInfo(nodes[order[k]])
        /\ IsMet(nodes, ToSet(order) \ {1})
    <2>1. order[k] \in ToSet(order) \ {1} /\ IsMet(nodes, ToSet(order) \ {1}) /\ Entries(order)
      BY <1>1, OrderFacts
    <2>2. QED
      BY <1>1, <2>1 DEF Entries
  <1>3. At(qt_resource_name, nodes[order[k]].nameOffset) = {nodes[order[k]].name}
    BY <1>2 DEF Finished, NamesWritten
  <1>4. qt_resource_struct[k].name = nodes[order[k]].nameOffset
    BY <1>2, EntryFacts
  <1>5. QED
    BY <1>3, <1>4 DEF NamesOf

LEMMA EntriesRead ==
  ASSUME NEW order, Finished(order), NEW k \in 1 .. Len(order)
  PROVE  /\ ~nodes[order[k]].directory => EntriesIn(k) = {}
         /\ nodes[order[k]].directory =>
              /\ ChildrenAt(nodes, order, k)
              /\ nodes[order[k]].childOffset \in Nat /\ Len(nodes[order[k]].children) \in Nat
              /\ \A c : c \in EntriesIn(k) <=>
                          \E a \in 1 .. Len(nodes[order[k]].children) : c = nodes[order[k]].childOffset + a
  <1> DEFINE i == order[k]
             e == qt_resource_struct[k]
             f == nodes[i].childOffset
             n == Len(nodes[i].children)
  <1>1. i \in DOMAIN nodes /\ e = DataInfo(nodes[i]) /\ k \in DOMAIN order
    <2>1. i \in DOMAIN nodes /\ k \in DOMAIN order /\ Entries(order)
      BY OrderFacts
    <2>2. QED
      BY <2>1 DEF Entries
  <1>2. CASE ~nodes[i].directory
    <2>1. ~e.directory
      BY <1>1, <1>2, EntryFacts
    <2>2. QED
      BY <1>2, <2>1 DEF EntriesIn
  <1>3. CASE nodes[i].directory
    <2>1. e.directory /\ e.count = n /\ e.first = f
      BY <1>1, <1>3, EntryFacts
    <2>2. ChildrenAt(nodes, order, k)
      BY <1>1, <1>3 DEF Finished, Numbered
    <2>3. f \in Nat /\ n \in Nat
      <3>1. nodes[i] \in Node
        BY <1>1 DEF Finished, IsTree
      <3>2. f \in Nat /\ nodes[i].children \in Seq(Nat)
        BY <3>1 DEF Node
      <3>3. QED
        BY <3>2
    <2>4. EntriesIn(k) = {c + 1 : c \in f .. f + n - 1}
      BY <2>1 DEF EntriesIn
    <2> HIDE DEF f, n, e
    <2>5. ASSUME NEW c
          PROVE  c \in EntriesIn(k) <=> \E a \in 1 .. n : c = f + a
      <3>1. ASSUME c \in EntriesIn(k)
            PROVE  \E a \in 1 .. n : c = f + a
        <4>1. PICK b \in f .. f + n - 1 : c = b + 1
          BY <2>4, <3>1
        <4>2. b - f + 1 \in 1 .. n /\ c = f + (b - f + 1)
          BY <2>3, <4>1
        <4>3. QED
          BY <4>2
      <3>2. ASSUME NEW a \in 1 .. n, c = f + a
            PROVE  c \in EntriesIn(k)
        <4>1. f + a - 1 \in f .. f + n - 1 /\ c = (f + a - 1) + 1
          BY <2>3, <3>2
        <4>2. QED
          BY <2>4, <4>1
      <3>3. QED
        BY <3>1, <3>2
    <2>6. QED
      BY <1>3, <2>2, <2>3, <2>5 DEF f, n
  <1>4. QED
    BY <1>2, <1>3

LEMMA ChildrenSorted ==
  ASSUME NEW order, Finished(order)
  PROVE  SortedForLookup
  <1>1. SUFFICES ASSUME NEW k \in DOMAIN qt_resource_struct, qt_resource_struct[k].directory,
                        NEW c \in qt_resource_struct[k].first .. qt_resource_struct[k].first + qt_resource_struct[k].count - 2,
                        NEW x \in NamesOf(c + 1), NEW y \in NamesOf(c + 2)
                 PROVE  Hash[x] <= Hash[y]
    BY DEF SortedForLookup
  <1> DEFINE i == order[k]
             f == nodes[i].childOffset
             n == Len(nodes[i].children)
             a == c - f + 1
  <1>2. k \in 1 .. Len(order) /\ qt_resource_struct[k] = DataInfo(nodes[i])
    <2>1. Entries(order)
      BY OrderFacts
    <2>2. QED
      BY <2>1 DEF Entries
  <1>3. nodes[i].directory
    BY <1>1, <1>2, EntryFacts
  <1>4. qt_resource_struct[k].first = f /\ qt_resource_struct[k].count = n
    BY <1>2, <1>3, EntryFacts
  <1>5. ChildrenAt(nodes, order, k) /\ f \in Nat /\ n \in Nat
    BY <1>2, <1>3, EntriesRead
  <1> HIDE DEF f, n
  <1>6. c \in f .. f + n - 2
    BY <1>4
  <1>7. a \in 1 .. n /\ a + 1 \in 1 .. n /\ f + a = c + 1 /\ f + (a + 1) = c + 2 /\ a < a + 1
    BY <1>5, <1>6
  <1> HIDE DEF a
  <1>8. /\ f + a \in (k + 1) .. Len(order) /\ f + (a + 1) \in (k + 1) .. Len(order)
        /\ Hash[nodes[order[f + a]].name] <= Hash[nodes[order[f + (a + 1)]].name]
    BY <1>5, <1>7 DEF ChildrenAt, f, n, i
  <1>9. c + 1 \in 2 .. Len(order) /\ c + 2 \in 2 .. Len(order)
    BY <1>2, <1>7, <1>8
  <1>10. NamesOf(c + 1) = {nodes[order[c + 1]].name} /\ NamesOf(c + 2) = {nodes[order[c + 2]].name}
    BY <1>9, NamesRead
  <1>11. QED
    BY <1>1, <1>7, <1>8, <1>10

(* The levels a reader goes through, within any set that is closed under   *)
(* going from an entry to those it refers to                               *)
Below(S) == UNION {UNION {{<<c, Append(e[2], n)>> : n \in NamesOf(c)} : c \in EntriesIn(e[1])} : e \in S}

LEMMA LevelsDefined ==
  ASSUME NEW P, <<1, <<>>>> \in P, \A S \in SUBSET P : Below(S) \in SUBSET P
  PROVE  /\ Levels[0] = {<<1, <<>>>>}
         /\ \A d \in Nat : Levels[d + 1] = Below(Levels[d]) /\ Levels[d] \in SUBSET P
  <1> DEFINE a == {<<1, <<>>>>}
             R == SUBSET P
             step == [y \in Nat \X R |-> Below(y[2])]
             Def(g) == [d \in Nat |-> IF d = 0 THEN a ELSE Below(g[d - 1])]
             F == CHOOSE g : g = Def(g)
  <1>1. Levels = F
    BY DEF Levels, Below
  <1>2. a \in R /\ \A S \in R : Below(S) \in R
    OBVIOUS
  <1>3. step \in [Nat \X R -> R] /\ \A d \in Nat, S \in R : step[<<d, S>>] = Below(S)
    <2> HIDE DEF R
    <2> QED BY <1>2
  <1> HIDE DEF step, R, a
  <1>4. PICK f : IsLoop(f, R, a, step)
    BY <1>2, <1>3, Recursion
  <1>5. f \in [Nat -> R] /\ f[0] = a /\ \A k \in Nat : f[k + 1] = step[<<k, f[k]>>]
    BY <1>4 DEF IsLoop
  <1>6. f = Def(f)
    <2>1. ASSUME NEW k \in Nat
          PROVE  f[k] = IF k = 0 THEN a ELSE Below(f[k - 1])
      <3>1. CASE k = 0
        BY <1>5, <3>1
      <3>2. CASE k # 0
        <4>1. k - 1 \in Nat /\ (k - 1) + 1 = k
          BY <3>2
        <4>2. f[k] = step[<<k - 1, f[k - 1]>>] /\ f[k - 1] \in R
          BY <1>5, <4>1
        <4>3. QED
          BY <1>3, <3>2, <4>1, <4>2
      <3>3. QED
        BY <3>1, <3>2
    <2>2. QED
      BY <1>5, <2>1
  <1>7. F = Def(F)
    <2> HIDE DEF Def
    <2> QED BY <1>6
  <1> HIDE DEF F
  <1>8. \A k \in Nat : F[k] = IF k = 0 THEN a ELSE Below(F[k - 1])
    BY <1>7
  <1>9. F[0] = a
    BY <1>8
  <1>10. ASSUME NEW k \in Nat
         PROVE  F[k + 1] = Below(F[k])
    <2>1. k + 1 \in Nat /\ k + 1 # 0 /\ (k + 1) - 1 = k
      OBVIOUS
    <2>2. QED
      BY <1>8, <2>1
  <1> DEFINE T == {k \in Nat : F[k] \in R}
  <1>11. Nat \subseteq T
    <2>1. 0 \in T
      BY <1>2, <1>9
    <2>2. \A k \in Nat : k \in T => k + 1 \in T
      BY <1>2, <1>10
    <2> HIDE DEF T
    <2>3. QED
      BY <2>1, <2>2, NatSetInduction
  <1>12. QED
    BY <1>1, <1>9, <1>10, <1>11 DEF a, R

(* Each entry with the path of its node                                    *)
Paths(order, path) == {<<k, path[order[k]]>> : k \in 1 .. Len(order)}

LEMMA PathsClosed ==
  ASSUME NEW order, Finished(order), NEW path, Labelled(nodes, path)
  PROVE  /\ <<1, <<>>>> \in Paths(order, path)
         /\ \A S \in SUBSET Paths(order, path) : Below(S) \in SUBSET Paths(order, path)
         /\ \A S : \A j \in 1 .. Len(order) : \A k \in 1 .. Len(order) :
              /\ <<j, path[order[j]]>> \in S
              /\ nodes[order[j]].directory /\ order[k] \in Kids(nodes, order[j])
              => j < k /\ <<k, path[order[k]]>> \in Below(S)
  <1> DEFINE m == Len(order)
             P == Paths(order, path)
  <1>1. m \in Nat \ {0} /\ order[1] = 1 /\ IsInjective(order) /\ DOMAIN order = 1 .. m
        /\ \A k \in 1 .. m : order[k] \in DOMAIN nodes
    BY OrderFacts
  <1>2. path[1] = <<>> /\ \A i \in DOMAIN nodes : \A c \in Kids(nodes, i) : path[c] = Append(path[i], nodes[c].name)
    BY DEF Labelled
  <1>3. <<1, <<>>>> \in P
    BY <1>1, <1>2 DEF Paths
  <1>4. ASSUME NEW S \in SUBSET P, NEW y \in Below(S)
        PROVE  y \in P
    <2>1. PICK e \in S : \E c \in EntriesIn(e[1]) : \E n \in NamesOf(c) : y = <<c, Append(e[2], n)>>
      BY <1>4 DEF Below
    <2>2. PICK c \in EntriesIn(e[1]) : \E n \in NamesOf(c) : y = <<c, Append(e[2], n)>>
      BY <2>1
    <2>3. PICK k \in 1 .. m : e = <<k, path[order[k]]>>
      BY <1>4 DEF Paths
    <2>4. e[1] = k /\ e[2] = path[order[k]]
      BY <2>3
    <2>5. /\ nodes[order[k]].directory /\ ChildrenAt(nodes, order, k)
          /\ \E a \in 1 .. Len(nodes[order[k]].children) : c = nodes[order[k]].childOffset + a
      BY <2>2, <2>4, EntriesRead
    <2>6. c \in (k + 1) .. m /\ order[c] \in Kids(nodes, order[k])
      BY <2>5 DEF ChildrenAt
    <2>7. c \in 2 .. m /\ c \in 1 .. m
      BY <1>1, <2>6
    <2>8. y = <<c, Append(path[order[k]], nodes[order[c]].name)>>
      BY <2>2, <2>4, <2>7, NamesRead
    <2>9. path[order[c]] = Append(path[order[k]], nodes[order[c]].name)
      BY <1>1, <1>2, <2>6
    <2>10. QED
      BY <2>7, <2>8, <2>9 DEF Paths
  <1>5. ASSUME NEW S, NEW j \in 1 .. m, NEW k \in 1 .. m, <<j, path[order[j]]>> \in S,
               nodes[order[j]].directory, order[k] \in Kids(nodes, order[j])
        PROVE  j < k /\ <<k, path[order[k]]>> \in Below(S)
    <2> DEFINE f == nodes[order[j]].childOffset
               n == Len(nodes[order[j]].children)
    <2>1. ChildrenAt(nodes, order, j) /\ \A c : c \in EntriesIn(j) <=> \E a \in 1 .. n : c = f + a
      BY <1>5, EntriesRead
    <2>2. PICK a \in 1 .. n : order[f + a] = order[k] /\ f + a \in (j + 1) .. m
      BY <1>5, <2>1 DEF ChildrenAt
    <2> HIDE DEF f, n
    <2>3. f + a \in 1 .. m /\ j < f + a
      BY <1>1, <2>2
    <2>4. f + a = k
      BY <1>1, <2>2, <2>3 DEF IsInjective
    <2>5. k \in EntriesIn(j) /\ j < k /\ k \in 2 .. m
      BY <1>1, <2>1, <2>3, <2>4
    <2>6. NamesOf(k) = {nodes[order[k]].name}
      BY <2>5, NamesRead
    <2>7. path[order[k]] = Append(path[order[j]], nodes[order[k]].name)
      BY <1>1, <1>2, <1>5
    <2> DEFINE e == <<j, path[order[j]]>>
               x == nodes[order[k]].name
    <2>8. e \in S /\ e[1] = j /\ e[2] = path[order[j]]
      BY <1>5
    <2> HIDE DEF e
    <2>9. <<k, Append(e[2], x)>> \in {<<k, Append(e[2], n1)>> : n1 \in NamesOf(k)}
      BY <2>6
    <2>10. <<k, Append(e[2], x)>> \in Below(S)
      BY <2>5, <2>8, <2>9 DEF Below
    <2>11. QED
      BY <2>5, <2>7, <2>8, <2>10
  <1>6. QED
    BY <1>3, <1>4, <1>5

LEMMA LevelsReach ==
  ASSUME NEW order, Finished(order), NEW path, Labelled(nodes, path)
  PROVE  UNION {Levels[d] : d \in 0 .. Len(qt_resource_struct)} = Paths(order, path)
  <1> DEFINE m == Len(order)
             P == Paths(order, path)
  <1>1. /\ m \in Nat \ {0} /\ order[1] = 1 /\ Entries(order)
        /\ \A k \in 1 .. m : order[k] \in DOMAIN nodes /\ (k # 1 => order[k] \in ToSet(order) \ {1})
        /\ IsMet(nodes, ToSet(order) \ {1}) /\ \A c \in ToSet(order) : \E k \in 1 .. m : order[k] = c
        /\ nodes[1].directory
    BY OrderFacts
  <1>2. /\ Levels[0] = {<<1, <<>>>>}
        /\ \A d \in Nat : Levels[d + 1] = Below(Levels[d]) /\ Levels[d] \in SUBSET P
    BY PathsClosed, LevelsDefined
  <1>3. path[1] = <<>>
    BY DEF Labelled
  <1> DEFINE Reach(k) == \E d \in 0 .. k - 1 : <<k, path[order[k]]>> \in Levels[d]
             Bad == {k \in 1 .. m : ~Reach(k)}
  <1>4. Bad = {}
    <2>1. SUFFICES ASSUME Bad # {}
                   PROVE  FALSE
      OBVIOUS
    <2>2. Bad \in SUBSET Nat
      BY <1>1
    <2> HIDE DEF Bad
    <2>3. PICK k \in Bad : \A j \in Bad : k <= j
      BY <2>1, <2>2, LeastNat
    <2>4. k \in 1 .. m /\ ~Reach(k)
      BY <2>3 DEF Bad
    <2> HIDE DEF Reach
    <2>5. k # 1
      BY <1>1, <1>2, <1>3, <2>4 DEF Reach
    <2>6. PICK p \in DOMAIN nodes : order[k] \in Kids(nodes, p) /\ (p = 1 \/ (p \in ToSet(order) /\ nodes[p].directory))
      BY <1>1, <2>4, <2>5 DEF IsMet
    <2>7. PICK j \in 1 .. m : order[j] = p
      <3>1. 1 \in 1 .. m
        BY <1>1
      <3>2. QED
        BY <1>1, <2>6, <3>1
    <2>8. nodes[order[j]].directory /\ order[k] \in Kids(nodes, order[j])
      BY <1>1, <2>6, <2>7
    <2>9. \A S : <<j, path[order[j]]>> \in S => j < k /\ <<k, path[order[k]]>> \in Below(S)
      BY <2>4, <2>8, PathsClosed
    <2>10. j < k
      BY <2>9
    <2>11. Reach(j)
      BY <2>3, <2>4, <2>10, <1>1 DEF Bad
    <2>12. PICK d \in 0 .. j - 1 : <<j, path[order[j]]>> \in Levels[d]
      BY <2>11 DEF Reach
    <2>13. d \in Nat /\ d + 1 \in 0 .. k - 1
      BY <1>1, <2>4, <2>10, <2>12
    <2>14. <<k, path[order[k]]>> \in Levels[d + 1]
      BY <1>2, <2>9, <2>12, <2>13
    <2>15. QED
      BY <2>4, <2>13, <2>14 DEF Reach
  <1>5. Len(qt_resource_struct) = m
    BY <1>1 DEF Entries
  <1>6. ASSUME NEW y \in P
        PROVE  \E d \in 0 .. m : y \in Levels[d]
    <2>1. PICK k \in 1 .. m : y = <<k, path[order[k]]>>
      BY DEF Paths
    <2>2. PICK d \in 0 .. k - 1 : y \in Levels[d]
      BY <1>4, <2>1
    <2>3. d \in 0 .. m
      BY <1>1, <2>1, <2>2
    <2>4. QED
      BY <2>2, <2>3
  <1>7. \A d \in 0 .. m : Levels[d] \subseteq P
    <2>1. SUFFICES ASSUME NEW d \in 0 .. m
                   PROVE  Levels[d] \in SUBSET P
      OBVIOUS
    <2>2. d \in Nat
      OBVIOUS
    <2>3. QED
      BY <1>2, <2>2
  <1> HIDE DEF P, m
  <1>8. QED
    BY <1>5, <1>6, <1>7 DEF P

(* Every node is found if there are no entries below a file.               *)
LEMMA EveryNodeMet ==
  ASSUME IsTree(nodes), NoFileIsADirectory, NEW S, IsMet(nodes, S)
  PROVE  DOMAIN nodes \ {1} \subseteq S
  <1> DEFINE Bad == (DOMAIN nodes \ {1}) \ S
  <1>1. nodes \in Seq(Node) /\ DOMAIN nodes = 1 .. Len(nodes) /\ Len(nodes) \in Nat
    BY DEF IsTree
  <1>2. SUFFICES ASSUME Bad # {}
                 PROVE  FALSE
    OBVIOUS
  <1>3. Bad \in SUBSET Nat
    BY <1>1
  <1> HIDE DEF Bad
  <1>4. PICK c \in Bad : \A y \in Bad : c <= y
    BY <1>2, <1>3, LeastNat
  <1>5. c \in DOMAIN nodes \ {1} /\ c \notin S
    BY <1>4 DEF Bad
  <1>6. PICK p \in DOMAIN nodes : c \in Kids(nodes, p)
    BY <1>5 DEF IsTree
  <1>7. c \in (p + 1) .. Len(nodes)
    BY <1>6 DEF IsTree
  <1>8. p \notin Bad
    BY <1>1, <1>3, <1>4, <1>7
  <1>9. p = 1 \/ p \in S
    BY <1>8 DEF Bad
  <1>10. nodes[p].directory
    <2>1. SUFFICES ASSUME ~nodes[p].directory
                   PROVE  FALSE
      OBVIOUS
    <2>2. nodes[p].children = <<>>
      BY <2>1 DEF NoFileIsADirectory, FileNodes
    <2>3. Kids(nodes, p) = {}
      BY <2>2 DEF Kids, ToSet
    <2>4. QED
      BY <1>6, <2>3
  <1>11. QED
    BY <1>5, <1>6, <1>9, <1>10 DEF IsMet

LEMMA Found ==
  ASSUME NEW order, Finished(order), Holds(nodes, given), NoFileIsADirectory,
         DataWritten(nodes, qt_resource_data)
  PROVE  Decoded = given
  <1> DEFINE m == Len(order)
             K == {k \in 1 .. m : ~nodes[order[k]].directory}
  <1>1. IsTree(nodes)
    BY DEF Finished
  <1>2. PICK path : Labelled(nodes, path) /\ Resources(nodes, path) = given
    BY DEF Holds, Reached
  <1>3. /\ m \in Nat \ {0} /\ order[1] = 1 /\ nodes[1].directory
        /\ \A k \in 1 .. m : order[k] \in DOMAIN nodes /\ (k # 1 => order[k] \in ToSet(order) \ {1})
        /\ IsMet(nodes, ToSet(order) \ {1}) /\ \A c \in ToSet(order) : \E k \in 1 .. m : order[k] = c
    BY OrderFacts
  <1>4. \A k \in 1 .. m : qt_resource_struct[k] = DataInfo(nodes[order[k]])
    <2>1. Entries(order)
      BY OrderFacts
    <2>2. QED
      BY <2>1 DEF Entries
  <1> HIDE DEF m
  <1>5. ASSUME NEW e
        PROVE  e \in Opened <=> \E k \in K : e = <<k, path[order[k]]>>
    <2>1. e \in Opened <=> e \in Paths(order, path) /\ ~qt_resource_struct[e[1]].directory
      BY <1>2, LevelsReach DEF Opened
    <2>2. e \in Paths(order, path) <=> \E k \in 1 .. m : e = <<k, path[order[k]]>>
      BY DEF Paths, m
    <2>3. \A k \in 1 .. m : ~qt_resource_struct[k].directory <=> ~nodes[order[k]].directory
      BY <1>4, EntryFacts
    <2>4. ASSUME NEW k \in 1 .. m, e = <<k, path[order[k]]>>
          PROVE  e \in Opened <=> k \in K
      <3>1. e[1] = k
        BY <2>4
      <3>2. e \in Opened <=> ~qt_resource_struct[k].directory
        BY <2>1, <2>2, <2>4, <3>1
      <3>3. QED
        BY <2>3, <3>2
    <2>5. QED
      BY <2>1, <2>2, <2>4
  <1>6. ASSUME NEW k \in K
        PROVE  /\ qt_resource_struct[k].language = nodes[order[k]].language
               /\ At(qt_resource_data, qt_resource_struct[k].data) = {nodes[order[k]].file}
    <2>1. qt_resource_struct[k] = DataInfo(nodes[order[k]]) /\ ~nodes[order[k]].directory
      BY <1>4
    <2>2. qt_resource_struct[k].language = nodes[order[k]].language
          /\ qt_resource_struct[k].data = nodes[order[k]].dataOffset
      BY <2>1, EntryFacts
    <2>3. order[k] \in ToSet(order) \ {1}
      BY <1>3, <2>1
    <2>4. At(qt_resource_data, nodes[order[k]].dataOffset) = {nodes[order[k]].file}
      BY <1>3, <2>1, <2>3 DEF DataWritten
    <2>5. QED
      BY <2>2, <2>4
  <1>7. ASSUME NEW y
        PROVE  y \in Decoded <=> \E k \in K : y = <<path[order[k]], nodes[order[k]].language, nodes[order[k]].file>>
    <2>1. y \in Decoded <=> \E e \in Opened : \E f \in At(qt_resource_data, qt_resource_struct[e[1]].data) :
                              y = <<e[2], qt_resource_struct[e[1]].language, f>>
      BY DEF Decoded
    <2>2. ASSUME NEW e \in Opened, NEW f \in At(qt_resource_data, qt_resource_struct[e[1]].data),
                 y = <<e[2], qt_resource_struct[e[1]].language, f>>
          PROVE  \E k \in K : y = <<path[order[k]], nodes[order[k]].language, nodes[order[k]].file>>
      <3>1. PICK k \in K : e = <<k, path[order[k]]>>
        BY <1>5
      <3>2. e[1] = k /\ e[2] = path[order[k]]
        BY <3>1
      <3>3. QED
        BY <1>6, <2>2, <3>2
    <2>3. ASSUME NEW k \in K, y = <<path[order[k]], nodes[order[k]].language, nodes[order[k]].file>>
          PROVE  y \in Decoded
      <3> DEFINE e == <<k, path[order[k]]>>
                 f == nodes[order[k]].file
      <3>1. e \in Opened /\ e[1] = k /\ e[2] = path[order[k]]
        BY <1>5
      <3> HIDE DEF e
      <3>2. f \in At(qt_resource_data, qt_resource_struct[e[1]].data)
        BY <1>6, <3>1
      <3>3. y = <<e[2], qt_resource_struct[e[1]].language, f>>
        BY <1>6, <2>3, <3>1
      <3> HIDE DEF f
      <3>4. QED
        BY <2>1, <3>1, <3>2, <3>3
    <2>4. QED
      BY <2>1, <2>2, <2>3
  <1>8. ASSUME NEW y
        PROVE  y \in given <=> \E k \in K : y = <<path[order[k]], nodes[order[k]].language, nodes[order[k]].file>>
    <2>1. y \in given <=> \E i \in {j \in DOMAIN nodes : ~nodes[j].directory} :
                            y = <<path[i], nodes[i].language, nodes[i].file>>
      BY <1>2 DEF Resources
    <2>2. ASSUME NEW i \in DOMAIN nodes, ~nodes[i].directory
          PROVE  \E k \in K : order[k] = i
      <3>1. i # 1
        BY <1>3, <2>2
      <3>2. i \in ToSet(order)
        BY <1>1, <1>3, <2>2, <3>1, EveryNodeMet
      <3>3. QED
        BY <1>3, <2>2, <3>2
    <2>3. \A k \in K : order[k] \in DOMAIN nodes /\ ~nodes[order[k]].directory
      BY <1>3
    <2>4. QED
      BY <2>1, <2>2, <2>3
  <1>9. QED
    BY <1>7, <1>8

-----------------------------------------------------------------------------
(* The invariant: the tree holds the resources that were given, and what   *)
(* has been written so far fits it.                                        *)
ResourcesHeld == /\ Holds(nodes, given)
                 /\ given \subseteq (Seq(Name) \X Languages \X Files)

TablesFit ==
  /\ phase \in {"reading", "blobs", "names", "structure", "done", "failed"}
  /\ phase \in {"names", "structure", "done"} /\ broken = {} => DataWritten(nodes, qt_resource_data)
  /\ phase \in {"structure", "done"} => NamesWritten(nodes, qt_resource_name)
  /\ phase = "done" => \E order : Numbered(nodes, qt_resource_struct, order)

IInv == ResourcesHeld /\ TablesFit

LEMMA HeldFiles ==
  ASSUME ResourcesHeld
  PROVE  IsTree(nodes) /\ FilesAreKnown(nodes)
  <1>1. IsTree(nodes) /\ \E path : Resources(nodes, path) = given
    BY DEF ResourcesHeld, Holds, Reached
  <1>2. PICK path : Resources(nodes, path) = given
    BY <1>1
  <1>3. ASSUME NEW i \in DOMAIN nodes, ~nodes[i].directory
        PROVE  nodes[i].file \in Files
    <2>1. <<path[i], nodes[i].language, nodes[i].file>> \in given
      BY <1>2, <1>3 DEF Resources
    <2>2. QED
      BY <2>1 DEF ResourcesHeld
  <1>4. QED
    BY <1>1, <1>3 DEF FilesAreKnown

RootInfo == RCCFileInfo(NoName, NoFile, "C", TRUE)

LEMMA RootNode == RootInfo \in Node /\ RootInfo.directory /\ RootInfo.children = <<>>
  <1>1. RootInfo = [name |-> NoName, file |-> NoFile, language |-> "C", directory |-> TRUE, children |-> <<>>,
                    nameOffset |-> 0, dataOffset |-> 0, childOffset |-> 0]
    BY DEF RootInfo, RCCFileInfo
  <1>2. RootInfo.directory /\ RootInfo.children = <<>>
    BY <1>1
  <1>3. RootInfo \in Node
    <2> DEFINE A == Name \cup {NoName}
               B == Files \cup {NoFile}
               C == Languages \cup {"C"}
               E == Seq(Nat)
               e == <<>>
    <2>1. NoFile \in B /\ "C" \in C /\ NoName \in A /\ e \in E /\ TRUE \in BOOLEAN /\ 0 \in Nat
      OBVIOUS
    <2>2. RootInfo = [name |-> NoName, file |-> NoFile, language |-> "C", directory |-> TRUE, children |-> e,
                      nameOffset |-> 0, dataOffset |-> 0, childOffset |-> 0]
      BY <1>1
    <2>3. Node = [name : A, file : B, language : C, directory : BOOLEAN, children : E,
                  nameOffset : Nat, dataOffset : Nat, childOffset : Nat]
      BY DEF Node
    <2> HIDE DEF A, B, C, E, e
    <2>4. QED
      BY <2>1, <2>2, <2>3
  <1>4. QED
    BY <1>2, <1>3

LEMMA RootHolds ==
  ASSUME NEW n \in Node, n.directory, n.children = <<>>, NEW t, t = <<n>>
  PROVE  Holds(t, {})
  <1> DEFINE path == [i \in {1} |-> <<>>]
  <1>4. t \in Seq(Node) /\ Len(t) = 1 /\ DOMAIN t = {1} /\ t[1] = n
    <2>1. t \in Seq(Node) /\ Len(t) = 1 /\ t[1] = n
      OBVIOUS
    <2>2. QED
      BY <2>1
  <1>5. Kids(t, 1) = {} /\ IsInjective(t[1].children)
    BY <1>4 DEF Kids, ToSet, IsInjective
  <1>6. IsTree(t)
    BY <1>4, <1>5 DEF IsTree
  <1>7. Labelled(t, path)
    <2>1. path \in [DOMAIN t -> Seq(Name)] /\ path[1] = <<>>
      <3> DEFINE Q == Seq(Name)
                 e == <<>>
      <3>1. e \in Q /\ path = [i \in {1} |-> e]
        OBVIOUS
      <3> HIDE DEF Q, e, path
      <3>2. path \in [{1} -> Q] /\ path[1] = e
        BY <3>1
      <3>3. QED
        BY <1>4, <3>2 DEF Q, e
    <2>2. QED
      BY <1>4, <1>5, <2>1 DEF Labelled
  <1>8. Resources(t, path) = {}
    BY <1>4 DEF Resources
  <1>9. path[1] = <<>>
    OBVIOUS
  <1> HIDE DEF path
  <1>10. QED
    BY <1>4, <1>6, <1>7, <1>8, <1>9 DEF Holds, Reached

LEMMA InitFits == Init => IInv
  <1>1. SUFFICES ASSUME Init
                 PROVE  IInv
    OBVIOUS
  <1>2. phase = "reading" /\ given = {} /\ nodes = <<RCCFileInfo(NoName, NoFile, "C", TRUE)>>
    BY <1>1 DEF Init
  <1>3. Holds(nodes, given)
    <2>1. nodes = <<RootInfo>>
      BY <1>2 DEF RootInfo
    <2>2. QED
      BY <1>2, <2>1, RootNode, RootHolds
  <1>4. QED
    BY <1>2, <1>3 DEF IInv, ResourcesHeld, TablesFit

LEMMA HeldTree ==
  ASSUME ResourcesHeld, NEW u, SameTree(nodes, u)
  PROVE  Holds(u, given)
  BY HeldFiles, SameTreeHolds DEF ResourcesHeld

LEMMA AddFileFits ==
  ASSUME IInv, NEW alias \in Aliases, NEW f \in Files, NEW language \in Languages, addFile(alias, f, language)
  PROVE  IInv'
  <1>1. phase = "reading" /\ phase' = "reading"
    BY DEF addFile
  <1>2. TablesFit'
    BY <1>1 DEF TablesFit
  <1>3. CASE UNCHANGED <<nodes, given>>
    BY <1>2, <1>3 DEF IInv, ResourcesHeld
  <1>4. CASE nodes' \in Added(nodes, alias, RCCFileInfo(Last(alias), f, language, FALSE))
             /\ given' = given \cup {<<alias, language, f>>}
    <2>1. alias \in Seq(Name) \ {<<>>}
      BY RccAssumption DEF Name
    <2>2. Holds(nodes, given)
      BY DEF IInv, ResourcesHeld
    <2>3. \A u \in Added(nodes, alias, RCCFileInfo(Last(alias), f, language, FALSE)) :
            Holds(u, given \cup {<<alias, language, f>>})
      BY <2>1, <2>2, AddedHolds
    <2>4. Holds(nodes', given')
      BY <1>4, <2>3
    <2>5. given' \subseteq (Seq(Name) \X Languages \X Files)
      BY <1>4, <2>1 DEF IInv, ResourcesHeld
    <2>6. QED
      BY <1>2, <2>4, <2>5 DEF IInv, ResourcesHeld
  <1>5. QED
    BY <1>3, <1>4 DEF addFile

LEMMA BlobsFit ==
  ASSUME IInv, writeDataBlobs
  PROVE  IInv'
  <1>1. ResourcesHeld /\ IsTree(nodes) /\ FilesAreKnown(nodes)
    BY HeldFiles DEF IInv
  <1>2. Blobs \in BlobState /\ (broken = {} => DataWritten(Blobs.nodes, Blobs.table))
    BY <1>1, BlobsWritten
  <1> DEFINE u == Blobs.nodes
             T == Blobs.table
  <1>3. nodes' = u /\ qt_resource_data' = T /\ phase' = "names" /\ given' = given /\ broken' = broken
    BY DEF writeDataBlobs
  <1>4. SameTree(nodes, u) /\ (broken = {} => DataWritten(u, T))
    BY <1>2 DEF BlobState, Same
  <1> HIDE DEF u, T
  <1>5. Holds(nodes', given') /\ (broken' = {} => DataWritten(nodes', qt_resource_data'))
    BY <1>1, <1>3, <1>4, HeldTree
  <1>6. QED
    BY <1>1, <1>3, <1>5 DEF IInv, ResourcesHeld, TablesFit

LEMMA NamesFit ==
  ASSUME IInv, writeDataNames
  PROVE  IInv'
  <1>1. ResourcesHeld /\ IsTree(nodes) /\ phase = "names" /\ (broken = {} => DataWritten(nodes, qt_resource_data))
    BY HeldFiles DEF IInv, TablesFit, writeDataNames
  <1>2. /\ Names \in NameState /\ NamesWritten(Names.nodes, Names.table)
        /\ \A j \in DOMAIN nodes : Names.nodes[j].dataOffset = nodes[j].dataOffset
    BY <1>1, NamesAreWritten
  <1> DEFINE u == Names.nodes
             T == Names.table
  <1>3. /\ nodes' = u /\ qt_resource_name' = T /\ phase' = "structure" /\ given' = given /\ broken' = broken
        /\ qt_resource_data' = qt_resource_data
    BY DEF writeDataNames
  <1>4. SameTree(nodes, u) /\ NamesWritten(u, T) /\ \A j \in DOMAIN nodes : u[j].dataOffset = nodes[j].dataOffset
    BY <1>2 DEF NameState, Same
  <1> HIDE DEF u, T
  <1>5. broken = {} => DataWritten(u, qt_resource_data)
    BY <1>1, <1>4, WrittenKept
  <1>6. /\ Holds(nodes', given') /\ (broken' = {} => DataWritten(nodes', qt_resource_data'))
        /\ NamesWritten(nodes', qt_resource_name')
    BY <1>1, <1>3, <1>4, <1>5, HeldTree
  <1>7. QED
    BY <1>1, <1>3, <1>6 DEF IInv, ResourcesHeld, TablesFit

LEMMA StructureFits ==
  ASSUME IInv, writeDataStructure
  PROVE  IInv'
  <1>1. /\ ResourcesHeld /\ IsTree(nodes) /\ phase = "structure"
        /\ (broken = {} => DataWritten(nodes, qt_resource_data)) /\ NamesWritten(nodes, qt_resource_name)
    BY HeldFiles DEF IInv, TablesFit, writeDataStructure
  <1> DEFINE u == ChildOffsets
             order == WritingOrder
             struct == [k \in DOMAIN order |-> DataInfo(u[order[k]])]
  <1>2. /\ nodes' = u /\ phase' = "done" /\ given' = given /\ broken' = broken
        /\ qt_resource_data' = qt_resource_data /\ qt_resource_name' = qt_resource_name
    BY DEF writeDataStructure
  <1>3. qt_resource_struct' = struct
    BY <1>2 DEF writeDataStructure, WritingOrder
  <1>4. /\ SameTree(nodes, u)
        /\ \A i \in DOMAIN nodes : u[i].dataOffset = nodes[i].dataOffset /\ u[i].nameOffset = nodes[i].nameOffset
        /\ Numbered(u, struct, order)
    <2>1. u = ChildOffsets /\ order = WritingOrder
      OBVIOUS
    <2> HIDE DEF u, order
    <2>2. QED
      BY <1>1, <2>1, StructureNumbered
  <1> HIDE DEF u, order, struct
  <1>5. (broken = {} => DataWritten(u, qt_resource_data)) /\ NamesWritten(u, qt_resource_name)
    BY <1>1, <1>4, WrittenKept
  <1>6. /\ Holds(nodes', given') /\ (broken' = {} => DataWritten(nodes', qt_resource_data'))
        /\ NamesWritten(nodes', qt_resource_name') /\ Numbered(nodes', qt_resource_struct', order)
    BY <1>1, <1>2, <1>3, <1>4, <1>5, HeldTree
  <1>7. QED
    BY <1>1, <1>2, <1>6 DEF IInv, ResourcesHeld, TablesFit

LEMMA OthersFit ==
  ASSUME IInv, output \/ (\E f \in Files : FileNotFound(f)) \/ UNCHANGED vars
  PROVE  IInv'
  <1>1. nodes' = nodes /\ given' = given
    BY DEF output, FileNotFound, vars
  <1>2. ResourcesHeld'
    BY <1>1 DEF IInv, ResourcesHeld
  <1>3. CASE output
    <2>1. phase' = "blobs"
      BY <1>3 DEF output
    <2>2. QED
      BY <1>2, <2>1 DEF IInv, TablesFit
  <1>4. CASE \E f \in Files : FileNotFound(f)
    <2>1. phase' \in {"reading", "failed"}
      BY <1>4 DEF FileNotFound
    <2>2. QED
      BY <1>2, <2>1 DEF IInv, TablesFit
  <1>5. CASE UNCHANGED vars
    BY <1>2, <1>5 DEF IInv, TablesFit, vars, tables
  <1>6. QED
    BY <1>3, <1>4, <1>5

(* The invariant holds of every step of drcc: what it has read and written *)
(* fits together (addFile, writeDataBlobs, writeDataNames,                 *)
(* writeDataStructure).                                                    *)
THEOREM TablesAlwaysFit == Spec => []IInv
  <1>1. IInv /\ [Next]_vars => IInv'
    <2>1. SUFFICES ASSUME IInv, [Next]_vars
                   PROVE  IInv'
      OBVIOUS
    <2>2. CASE \E alias \in Aliases, f \in Files, language \in Languages : addFile(alias, f, language)
      BY <2>1, <2>2, AddFileFits
    <2>3. CASE writeDataBlobs
      BY <2>1, <2>3, BlobsFit
    <2>4. CASE writeDataNames
      BY <2>1, <2>4, NamesFit
    <2>5. CASE writeDataStructure
      BY <2>1, <2>5, StructureFits
    <2>6. CASE output \/ (\E f \in Files : FileNotFound(f)) \/ UNCHANGED vars
      BY <2>1, <2>6, OthersFit
    <2>7. QED
      BY <2>1, <2>2, <2>3, <2>4, <2>5, <2>6 DEF Next
  <1>2. QED
    BY InitFits, <1>1, PTL DEF Spec

(* Whatever the files, their paths, the sizes, the collisions of hashes    *)
(* and the orders of the hash tables, Qt finds in the tables every         *)
(* resource that was given, with its contents, and no other, and finds the *)
(* entries of a directory sorted by hash (writeDataStructure,              *)
(* qt_rcc_compare_hash).                                                   *)
THEOREM ResourcesAlwaysFound == Spec => []ResourcesFoundAgain
  <1>1. IInv => ResourcesFoundAgain
    <2>1. SUFFICES ASSUME IInv, phase = "done"
                   PROVE  SortedForLookup /\ (NoFileIsADirectory /\ broken = {} => Decoded = given)
      BY DEF ResourcesFoundAgain
    <2>2. PICK order : Numbered(nodes, qt_resource_struct, order)
      BY <2>1 DEF IInv, TablesFit
    <2>3. Finished(order) /\ Holds(nodes, given)
      BY <2>1, <2>2, HeldFiles DEF IInv, ResourcesHeld, TablesFit, Finished
    <2>4. SortedForLookup
      BY <2>3, ChildrenSorted
    <2>5. NoFileIsADirectory /\ broken = {} => Decoded = given
      BY <2>1, <2>3, Found DEF IInv, TablesFit
    <2>6. QED
      BY <2>4, <2>5
  <1>2. QED
    BY TablesAlwaysFit, <1>1, PTL

=============================================================================
