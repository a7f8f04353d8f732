------------------------- MODULE DirectivesProofs -------------------------
(***************************************************************************)
(* Proofs about Directives, for any names, macros and number of levels:    *)
(* two flags for each level, and hidden entries in a list of macros, do    *)
(* what C says of groups and definitions.                                  *)
(***************************************************************************)
EXTENDS Directives, TLAPS

Bound == [name : MacroNames, hidden : BOOLEAN, functionLike : BOOLEAN,
          formals : Seq(STRING), definition : Seq(STRING)]

DirectivesTypeOK ==
  /\ iflevel \in 0 .. MAX_LEVEL - 1
  /\ M_skipping \in [0 .. MAX_LEVEL - 1 -> BOOLEAN]
  /\ M_true_test \in [0 .. MAX_LEVEL - 1 -> BOOLEAN]
  /\ macros \in Seq(Bound)
  /\ nesting \in Seq({"if", "else"}) /\ Len(nesting) = iflevel

(* What is inside a level that skips skips.  No branch is taken there, and *)
(* before the #else the branch that is read is one that was taken.         *)
LevelsFit ==
  /\ ~M_skipping[0]
  /\ \A j, k \in 0 .. iflevel : j <= k /\ M_skipping[j] => M_skipping[k]
  /\ \A k \in 1 .. iflevel :
       /\ M_true_test[k] => ~M_skipping[k - 1]
       /\ nesting[k] = "if" /\ ~M_skipping[k] => M_true_test[k]

Seen(env, n, i) == env[i].name = n /\ ~env[i].hidden

(* At most one macro of a name is not hidden.                              *)
NamesOnce == \A i, j \in 1 .. Len(macros) : Seen(macros, macros[i].name, i) /\ Seen(macros, macros[i].name, j) => i = j

IInv == DirectivesTypeOK /\ LevelsFit /\ NamesOnce

-----------------------------------------------------------------------------
(* Sequences *)

LEMMA AppendIs ==
  ASSUME NEW S, NEW s \in Seq(S), NEW e \in S
  PROVE  /\ Append(s, e) \in Seq(S) /\ Len(Append(s, e)) = Len(s) + 1 /\ Append(s, e)[Len(s) + 1] = e
         /\ \A k \in 1 .. Len(s) : Append(s, e)[k] = s[k]
  OBVIOUS

LEMMA FrontIs ==
  ASSUME NEW S, NEW s \in Seq(S), s # <<>>
  PROVE  /\ Front(s) \in Seq(S) /\ Len(Front(s)) = Len(s) - 1
         /\ \A k \in 1 .. Len(s) - 1 : Front(s)[k] = s[k]
  <1>1. Len(s) \in Nat /\ Len(s) >= 1
    OBVIOUS
  <1> DEFINE n == Len(s) - 1
  <1>2. n \in Nat /\ n <= Len(s) /\ Front(s) = SubSeq(s, 1, n)
    BY <1>1 DEF Front
  <1> HIDE DEF n
  <1>3. \A k \in 1 .. n : k \in 1 .. Len(s) /\ s[k] \in S
    BY <1>1, <1>2
  <1>4. Len(SubSeq(s, 1, n)) = n /\ \A k \in 1 .. n : SubSeq(s, 1, n)[k] = s[k]
    BY <1>1, <1>2
  <1>5. SubSeq(s, 1, n) \in Seq(S)
    BY <1>1, <1>2, <1>3
  <1>6. QED
    BY <1>2, <1>4, <1>5 DEF n

-----------------------------------------------------------------------------
(* Groups *)

(* The flags of a level and of the one around it tell what its group does. *)
LEMMA GroupsAre ==
  DirectivesTypeOK =>
    /\ groupsOf \in Seq({"dead", "taking", "done", "waiting"}) /\ Len(groupsOf) = iflevel
    /\ \A k \in 1 .. iflevel :
         groupsOf[k] = IF M_skipping[k - 1] THEN "dead"
                       ELSE IF ~M_skipping[k] THEN "taking"
                       ELSE IF M_true_test[k] THEN "done" ELSE "waiting"
  <1> HAVE DirectivesTypeOK
  <1>1. iflevel \in Nat /\ iflevel <= MAX_LEVEL - 1 /\ MAX_LEVEL \in Nat
    BY DirectivesAssumption DEF DirectivesTypeOK
  <1>2. \A k \in 1 .. iflevel :
          groupsOf[k] = IF M_skipping[k - 1] THEN "dead"
                        ELSE IF ~M_skipping[k] THEN "taking"
                        ELSE IF M_true_test[k] THEN "done" ELSE "waiting"
    BY DEF groupsOf, Group
  <1>3. groupsOf = [k \in 1 .. iflevel |-> groupsOf[k]]
    BY DEF groupsOf
  <1>4. QED
    BY <1>1, <1>2, <1>3

(* Text is kept unless the innermost level skips.                          *)
LEMMA ActiveIs ==
  ASSUME DirectivesTypeOK, LevelsFit
  PROVE  G!Active <=> ~skipping
  <1>1. iflevel \in Nat /\ DOMAIN groupsOf = 1 .. iflevel
    BY GroupsAre, DirectivesAssumption DEF DirectivesTypeOK
  <1>2. ASSUME skipping
        PROVE  ~G!Active
    <2>1. iflevel \in 1 .. iflevel
      BY <1>1, <1>2 DEF skipping, LevelsFit
    <2>2. groupsOf[iflevel] # "taking"
      BY <1>2, <2>1, GroupsAre DEF skipping
    <2>3. QED
      BY <1>1, <2>1, <2>2 DEF G!Active
  <1>3. ASSUME ~skipping
        PROVE  G!Active
    <2>1. ASSUME NEW k \in 1 .. iflevel
          PROVE  groupsOf[k] = "taking"
      <3>1. ~M_skipping[k] /\ ~M_skipping[k - 1]
        BY <1>1, <1>3 DEF skipping, LevelsFit
      <3>2. QED
        BY <3>1, GroupsAre
    <2>2. QED
      BY <1>1, <2>1 DEF G!Active
  <1>4. QED
    BY <1>2, <1>3

-----------------------------------------------------------------------------
(* Macros *)

(* resolve finds the macro that is not hidden, if there is at most one.    *)
LEMMA ResolveIs ==
  ASSUME NEW env \in Seq(Bound), NEW n,
         \A i, j \in 1 .. Len(env) : Seen(env, n, i) /\ Seen(env, n, j) => i = j
  PROVE  /\ \A i \in 1 .. Len(env) : Seen(env, n, i) => resolve(env, n) = i
         /\ (\A i \in 1 .. Len(env) : ~Seen(env, n, i)) => resolve(env, n) = 0
  <1> DEFINE I == {i \in 1 .. Len(env) : env[i].name = n /\ ~env[i].hidden}
  <1>1. resolve(env, n) = IF I # {} THEN Max(I) ELSE 0
    BY DEF resolve, SelectLastInSeq
  <1>2. ASSUME NEW i \in 1 .. Len(env), Seen(env, n, i)
        PROVE  resolve(env, n) = i
    <2>1. I = {i}
      BY <1>2 DEF Seen
    <2>2. Max({i}) = i
      BY DEF Max
    <2>3. QED
      BY <1>1, <2>1, <2>2
  <1>3. ASSUME \A i \in 1 .. Len(env) : ~Seen(env, n, i)
        PROVE  resolve(env, n) = 0
    <2>1. I = {}
      BY <1>3 DEF Seen
    <2>2. QED
      BY <1>1, <2>1
  <1>4. QED
    BY <1>2, <1>3

(* The same of the macros as they are.                                     *)
LEMMA Resolved ==
  ASSUME macros \in Seq(Bound), NamesOnce, NEW n
  PROVE  /\ \A i \in 1 .. Len(macros) : Seen(macros, n, i) => resolve(macros, n) = i
         /\ (\A i \in 1 .. Len(macros) : ~Seen(macros, n, i)) => resolve(macros, n) = 0
         /\ resolve(macros, n) = 0 \/ (resolve(macros, n) \in 1 .. Len(macros) /\ Seen(macros, n, resolve(macros, n)))
  <1>1. \A i, j \in 1 .. Len(macros) : Seen(macros, n, i) /\ Seen(macros, n, j) => i = j
    BY DEF NamesOnce, Seen
  <1>2. QED
    BY <1>1, ResolveIs

(* What a name is, by the entry of it that is not hidden.                  *)
LEMMA TableIs ==
  ASSUME macros \in Seq(Bound), NamesOnce, NEW n \in MacroNames
  PROVE  /\ \A i \in 1 .. Len(macros) : Seen(macros, n, i) => tableOf[n] = MacroOf(macros[i])
         /\ (\A i \in 1 .. Len(macros) : ~Seen(macros, n, i)) => tableOf[n] = Undefined
         /\ tableOf[n] # Undefined <=> resolve(macros, n) # 0
  <1>1. tableOf[n] = IF resolve(macros, n) = 0 THEN Undefined ELSE MacroOf(macros[resolve(macros, n)])
    BY DEF tableOf
  <1>2. \A i \in 1 .. Len(macros) : i # 0 /\ MacroOf(macros[i]) # Undefined
    <2>1. TAKE i \in 1 .. Len(macros)
    <2>2. macros[i] \in Bound
      OBVIOUS
    <2>3. MacroOf(macros[i]) \in Macro
      BY <2>2 DEF MacroOf, Macro, Bound
    <2>4. QED
      BY <2>3, DirectivesAssumption
  <1>3. QED
    BY <1>1, <1>2, Resolved

-----------------------------------------------------------------------------
(* The directives.  Each one keeps the invariant and does what C says.     *)

(* The parts of DirectivesTypeOK that most steps need.                     *)
LEMMA LevelsTyped ==
  ASSUME DirectivesTypeOK
  PROVE  /\ iflevel \in Nat /\ MAX_LEVEL \in Nat /\ iflevel <= MAX_LEVEL - 1
         /\ iflevel \in 0 .. MAX_LEVEL - 1
         /\ \A k \in 0 .. iflevel : M_skipping[k] \in BOOLEAN /\ M_true_test[k] \in BOOLEAN
         /\ nesting \in Seq({"if", "else"}) /\ Len(nesting) = iflevel
  BY DirectivesAssumption DEF DirectivesTypeOK

(* The groups after a directive.                                           *)
LEMMA GroupsAfter ==
  ASSUME DirectivesTypeOK'
  PROVE  /\ groupsOf' \in Seq({"dead", "taking", "done", "waiting"}) /\ Len(groupsOf') = iflevel'
         /\ \A k \in 1 .. iflevel' :
              groupsOf'[k] = IF M_skipping'[k - 1] THEN "dead"
                             ELSE IF ~M_skipping'[k] THEN "taking"
                             ELSE IF M_true_test'[k] THEN "done" ELSE "waiting"
  <1>1. (DirectivesTypeOK =>
           /\ groupsOf \in Seq({"dead", "taking", "done", "waiting"}) /\ Len(groupsOf) = iflevel
           /\ \A k \in 1 .. iflevel :
                groupsOf[k] = IF M_skipping[k - 1] THEN "dead"
                              ELSE IF ~M_skipping[k] THEN "taking"
                              ELSE IF M_true_test[k] THEN "done" ELSE "waiting")'
    BY GroupsAre, PTL
  <1>2. QED
    BY <1>1

(* A directive leaves the groups of the levels alone that it leaves alone. *)
LEMMA GroupKept ==
  ASSUME DirectivesTypeOK, DirectivesTypeOK', NEW k \in 1 .. iflevel, k \in 1 .. iflevel',
         M_skipping'[k] = M_skipping[k], M_skipping'[k - 1] = M_skipping[k - 1], M_true_test'[k] = M_true_test[k]
  PROVE  groupsOf'[k] = groupsOf[k]
  <1>1. groupsOf[k] = IF M_skipping[k - 1] THEN "dead"
                      ELSE IF ~M_skipping[k] THEN "taking"
                      ELSE IF M_true_test[k] THEN "done" ELSE "waiting"
    BY GroupsAre
  <1>2. groupsOf'[k] = IF M_skipping'[k - 1] THEN "dead"
                       ELSE IF ~M_skipping'[k] THEN "taking"
                       ELSE IF M_true_test'[k] THEN "done" ELSE "waiting"
    BY GroupsAfter
  <1>3. QED
    BY <1>1, <1>2

(* #if, #ifdef and #ifndef open a group (test_if_level).                   *)
LEMMA EnterOpens ==
  ASSUME IInv, NEW value \in BOOLEAN, iflevel < MAX_LEVEL - 1, Enter(value), nesting' = Append(nesting, "if")
  PROVE  IInv' /\ G!Open(value)
  <1> DEFINE n == iflevel + 1
  <1>1. /\ iflevel \in Nat /\ n \in 1 .. MAX_LEVEL - 1 /\ iflevel' = n /\ MAX_LEVEL \in Nat
        /\ iflevel \in 0 .. MAX_LEVEL - 1 /\ n = iflevel + 1
    BY LevelsTyped DEF IInv, Enter
  <1> HIDE DEF n
  <1>2. /\ M_skipping' \in [0 .. MAX_LEVEL - 1 -> BOOLEAN] /\ M_true_test' \in [0 .. MAX_LEVEL - 1 -> BOOLEAN]
        /\ \A k \in 0 .. iflevel : M_skipping'[k] = M_skipping[k] /\ M_true_test'[k] = M_true_test[k]
        /\ M_skipping'[n] = (skipping \/ ~value)
        /\ M_true_test'[n] = (~skipping /\ value)
    BY <1>1 DEF IInv, DirectivesTypeOK, Enter, skipping
  <1>3. /\ nesting' \in Seq({"if", "else"}) /\ Len(nesting') = n
        /\ nesting'[n] = "if" /\ \A k \in 1 .. iflevel : nesting'[k] = nesting[k]
    BY <1>1 DEF IInv, DirectivesTypeOK
  <1>4. macros' = macros
    BY DEF Enter
  <1>5. DirectivesTypeOK'
    BY <1>1, <1>2, <1>3, <1>4 DEF IInv, DirectivesTypeOK
  <1>6. LevelsFit'
    <2>1. ~M_skipping'[0]
      BY <1>1, <1>2 DEF IInv, LevelsFit
    <2>2. ASSUME NEW j \in 0 .. n, NEW k \in 0 .. n, j <= k, M_skipping'[j]
          PROVE  M_skipping'[k]
      <3>1. CASE k = n
        <4>1. CASE j = n
          BY <2>2, <3>1, <4>1
        <4>2. CASE j # n
          <5>1. j \in 0 .. iflevel /\ iflevel \in 0 .. iflevel /\ j <= iflevel
            BY <1>1, <4>2
          <5>2. M_skipping[j]
            BY <1>2, <2>2, <5>1
          <5>3. skipping
            BY <5>1, <5>2 DEF IInv, LevelsFit, skipping
          <5>4. QED
            BY <1>2, <3>1, <5>3
        <4>3. QED
          BY <4>1, <4>2
      <3>2. CASE k # n
        <4>1. j \in 0 .. iflevel /\ k \in 0 .. iflevel
          BY <1>1, <2>2, <3>2
        <4>2. M_skipping[j] => M_skipping[k]
          BY <2>2, <4>1 DEF IInv, LevelsFit
        <4>3. QED
          BY <1>2, <2>2, <4>1, <4>2
      <3>3. QED
        BY <3>1, <3>2
    <2>3. ASSUME NEW k \in 1 .. n
          PROVE  /\ M_true_test'[k] => ~M_skipping'[k - 1]
                 /\ nesting'[k] = "if" /\ ~M_skipping'[k] => M_true_test'[k]
      <3>1. CASE k = n
        <4>1. k - 1 = iflevel /\ iflevel \in 0 .. iflevel
          BY <1>1, <3>1
        <4>2. M_skipping'[k - 1] = skipping
          BY <1>2, <4>1 DEF skipping
        <4>3. QED
          BY <1>2, <3>1, <4>2
      <3>2. CASE k # n
        <4>1. k \in 0 .. iflevel /\ k - 1 \in 0 .. iflevel /\ k \in 1 .. iflevel
          BY <1>1, <3>2
        <4>2. /\ M_skipping'[k - 1] = M_skipping[k - 1] /\ M_skipping'[k] = M_skipping[k]
              /\ M_true_test'[k] = M_true_test[k] /\ nesting'[k] = nesting[k]
          BY <1>2, <1>3, <4>1
        <4>3. QED
          BY <4>1, <4>2 DEF IInv, LevelsFit
      <3>3. QED
        BY <3>1, <3>2
    <2>4. QED
      BY <1>1, <2>1, <2>2, <2>3 DEF LevelsFit
  <1>7. NamesOnce'
    BY <1>4 DEF IInv, NamesOnce, Seen
  <1>8. groupsOf' = Append(groupsOf, IF G!Active THEN G!Entered(value) ELSE "dead")
    <2> DEFINE x == IF ~skipping THEN IF value THEN "taking" ELSE "waiting" ELSE "dead"
    <2>1. /\ groupsOf' \in Seq({"dead", "taking", "done", "waiting"}) /\ Len(groupsOf') = n
          /\ \A k \in 1 .. n :
               groupsOf'[k] = IF M_skipping'[k - 1] THEN "dead"
                              ELSE IF ~M_skipping'[k] THEN "taking"
                              ELSE IF M_true_test'[k] THEN "done" ELSE "waiting"
      BY <1>1, <1>5, GroupsAfter
    <2>2. groupsOf'[n] = x
      <3>1. n \in 1 .. n /\ n - 1 = iflevel /\ iflevel \in 0 .. iflevel
        BY <1>1
      <3>2. M_skipping'[n - 1] = skipping
        BY <1>2, <3>1 DEF skipping
      <3>3. QED
        BY <1>2, <2>1, <3>1, <3>2
    <2>3. ASSUME NEW k \in 1 .. iflevel
          PROVE  groupsOf'[k] = groupsOf[k]
      <3>1. k \in 1 .. n /\ k \in 0 .. iflevel /\ k - 1 \in 0 .. iflevel
        BY <1>1
      <3>2. QED
        BY <1>1, <1>2, <1>5, <3>1, GroupKept DEF IInv
    <2>4. groupsOf \in Seq({"dead", "taking", "done", "waiting"}) /\ Len(groupsOf) = iflevel
      BY GroupsAre DEF IInv
    <2>5. x = IF G!Active THEN G!Entered(value) ELSE "dead"
      BY ActiveIs DEF IInv, G!Entered
    <2> HIDE DEF x
    <2>6. groupsOf' = Append(groupsOf, x)
      BY <1>1, <2>1, <2>2, <2>3, <2>4
    <2>7. QED
      BY <2>5, <2>6
  <1>9. tableOf' = tableOf
    BY <1>4 DEF tableOf
  <1>10. QED
    BY <1>5, <1>6, <1>7, <1>8, <1>9 DEF IInv, G!Open

(* A branch changes the flags of the innermost level only.                 *)
LEMMA TopChanges ==
  ASSUME IInv, iflevel > 0, iflevel' = iflevel, macros' = macros,
         NEW s \in BOOLEAN, M_skipping' = [M_skipping EXCEPT ![iflevel] = s],
         NEW t \in BOOLEAN, M_true_test' = [M_true_test EXCEPT ![iflevel] = t],
         nesting' \in Seq({"if", "else"}), Len(nesting') = iflevel,
         \A k \in 1 .. iflevel - 1 : nesting'[k] = nesting[k],
         M_skipping[iflevel - 1] => s, t => ~M_skipping[iflevel - 1],
         nesting'[iflevel] = "if" /\ ~s => t
  PROVE  /\ IInv'
         /\ tableOf' = tableOf
         /\ groupsOf' = [groupsOf EXCEPT ![iflevel] = IF M_skipping[iflevel - 1] THEN "dead"
                                                      ELSE IF ~s THEN "taking"
                                                      ELSE IF t THEN "done" ELSE "waiting"]
  <1>1. /\ iflevel \in Nat /\ iflevel \in 0 .. MAX_LEVEL - 1 /\ iflevel \in 1 .. iflevel
        /\ iflevel - 1 \in 0 .. iflevel /\ iflevel - 1 # iflevel /\ MAX_LEVEL \in Nat
    BY LevelsTyped DEF IInv
  <1>2. /\ M_skipping' \in [0 .. MAX_LEVEL - 1 -> BOOLEAN] /\ M_true_test' \in [0 .. MAX_LEVEL - 1 -> BOOLEAN]
        /\ \A k \in 0 .. iflevel : k # iflevel => M_skipping'[k] = M_skipping[k] /\ M_true_test'[k] = M_true_test[k]
        /\ M_skipping'[iflevel] = s /\ M_true_test'[iflevel] = t
    BY <1>1 DEF IInv, DirectivesTypeOK
  <1>3. DirectivesTypeOK'
    BY <1>1, <1>2 DEF IInv, DirectivesTypeOK
  <1>4. LevelsFit'
    <2>1. ~M_skipping'[0]
      BY <1>1, <1>2 DEF IInv, LevelsFit
    <2>2. ASSUME NEW j \in 0 .. iflevel, NEW k \in 0 .. iflevel, j <= k, M_skipping'[j]
          PROVE  M_skipping'[k]
      <3>1. CASE j = iflevel
        <4>1. k = iflevel
          BY <1>1, <2>2, <3>1
        <4>2. QED
          BY <2>2, <3>1, <4>1
      <3>2. CASE j # iflevel
        <4>1. M_skipping[j]
          BY <1>2, <2>2, <3>2
        <4>2. CASE k = iflevel
          <5>1. j <= iflevel - 1
            BY <1>1, <3>2
          <5>2. M_skipping[iflevel - 1]
            BY <1>1, <4>1, <5>1 DEF IInv, LevelsFit
          <5>3. QED
            BY <1>2, <4>2, <5>2
        <4>3. CASE k # iflevel
          <5>1. M_skipping[k]
            BY <2>2, <4>1 DEF IInv, LevelsFit
          <5>2. QED
            BY <1>2, <4>3, <5>1
        <4>4. QED
          BY <4>2, <4>3
      <3>3. QED
        BY <3>1, <3>2
    <2>3. ASSUME NEW k \in 1 .. iflevel
          PROVE  /\ M_true_test'[k] => ~M_skipping'[k - 1]
                 /\ nesting'[k] = "if" /\ ~M_skipping'[k] => M_true_test'[k]
      <3>1. k \in 0 .. iflevel /\ k - 1 \in 0 .. iflevel /\ k - 1 # iflevel
        BY <1>1
      <3>2. M_skipping'[k - 1] = M_skipping[k - 1]
        BY <1>2, <3>1
      <3>3. CASE k = iflevel
        BY <1>2, <3>2, <3>3
      <3>4. CASE k # iflevel
        <4>1. M_skipping'[k] = M_skipping[k] /\ M_true_test'[k] = M_true_test[k] /\ nesting'[k] = nesting[k]
          BY <1>1, <1>2, <3>1, <3>4
        <4>2. QED
          BY <3>2, <4>1 DEF IInv, LevelsFit
      <3>5. QED
        BY <3>3, <3>4
    <2>4. QED
      BY <2>1, <2>2, <2>3 DEF LevelsFit
  <1>5. NamesOnce'
    BY DEF IInv, NamesOnce, Seen
  <1>6. tableOf' = tableOf
    BY DEF tableOf
  <1> DEFINE x == IF M_skipping[iflevel - 1] THEN "dead"
                  ELSE IF ~s THEN "taking"
                  ELSE IF t THEN "done" ELSE "waiting"
  <1>7. groupsOf' = [groupsOf EXCEPT ![iflevel] = x]
    <2>1. groupsOf'[iflevel] = x
      <3>1. M_skipping'[iflevel - 1] = M_skipping[iflevel - 1]
        BY <1>1, <1>2
      <3>2. QED
        BY <1>1, <1>2, <1>3, <3>1, GroupsAfter
    <2>2. ASSUME NEW k \in 1 .. iflevel, k # iflevel
          PROVE  groupsOf'[k] = groupsOf[k]
      <3>1. k \in 0 .. iflevel /\ k - 1 \in 0 .. iflevel /\ k - 1 # iflevel
        BY <1>1
      <3>2. QED
        BY <1>2, <1>3, <2>2, <3>1, GroupKept DEF IInv
    <2> HIDE DEF x
    <2>3. groupsOf \in Seq({"dead", "taking", "done", "waiting"}) /\ Len(groupsOf) = iflevel
      BY GroupsAre DEF IInv
    <2>4. groupsOf' \in Seq({"dead", "taking", "done", "waiting"}) /\ Len(groupsOf') = iflevel
      BY <1>3, GroupsAfter
    <2>5. QED
      BY <1>1, <2>1, <2>2, <2>3, <2>4
  <1>8. QED
    BY <1>3, <1>4, <1>5, <1>6, <1>7 DEF IInv

(* The group of the innermost level, as the flags have it.                 *)
LEMMA TopGroup ==
  ASSUME IInv, iflevel > 0
  PROVE  /\ iflevel \in 1 .. iflevel /\ iflevel - 1 \in 0 .. iflevel
         /\ groupsOf # <<>> /\ Len(groupsOf) = iflevel
         /\ M_skipping[iflevel] \in BOOLEAN /\ M_skipping[iflevel - 1] \in BOOLEAN /\ M_true_test[iflevel] \in BOOLEAN
         /\ M_skipping[iflevel - 1] => M_skipping[iflevel]
         /\ M_true_test[iflevel] => ~M_skipping[iflevel - 1]
         /\ nesting[iflevel] = "if" /\ ~M_skipping[iflevel] => M_true_test[iflevel]
         /\ groupsOf[iflevel] = IF M_skipping[iflevel - 1] THEN "dead"
                                ELSE IF ~M_skipping[iflevel] THEN "taking"
                                ELSE IF M_true_test[iflevel] THEN "done" ELSE "waiting"
  <1>1. iflevel \in Nat /\ iflevel \in 1 .. iflevel /\ iflevel - 1 \in 0 .. iflevel /\ iflevel \in 0 .. iflevel
    BY LevelsTyped DEF IInv
  <1>2. groupsOf \in Seq({"dead", "taking", "done", "waiting"}) /\ Len(groupsOf) = iflevel
    BY GroupsAre DEF IInv
  <1>3. groupsOf # <<>>
    BY <1>1, <1>2
  <1>4. M_skipping[iflevel] \in BOOLEAN /\ M_skipping[iflevel - 1] \in BOOLEAN /\ M_true_test[iflevel] \in BOOLEAN
    BY <1>1, LevelsTyped DEF IInv
  <1>5. iflevel - 1 <= iflevel
    BY <1>1
  <1>6. /\ M_skipping[iflevel - 1] => M_skipping[iflevel]
        /\ M_true_test[iflevel] => ~M_skipping[iflevel - 1]
        /\ nesting[iflevel] = "if" /\ ~M_skipping[iflevel] => M_true_test[iflevel]
    BY <1>1, <1>5 DEF IInv, LevelsFit
  <1>7. groupsOf[iflevel] = IF M_skipping[iflevel - 1] THEN "dead"
                            ELSE IF ~M_skipping[iflevel] THEN "taking"
                            ELSE IF M_true_test[iflevel] THEN "done" ELSE "waiting"
    BY <1>1, GroupsAre DEF IInv
  <1>8. QED
    BY <1>1, <1>2, <1>3, <1>4, <1>6, <1>7

(* #elif tests only where no branch was taken yet.                         *)
LEMMA ElifBranches ==
  ASSUME IInv, NEW value \in BOOLEAN, nesting # <<>>, Last(nesting) = "if",
         handle_elif(value), nesting' = nesting
  PROVE  IInv' /\ G!Branch(value)
  <1>1. nesting \in Seq({"if", "else"}) /\ Len(nesting) = iflevel /\ iflevel \in Nat
    BY LevelsTyped DEF IInv
  <1>2. iflevel > 0 /\ nesting[iflevel] = "if"
    BY <1>1 DEF Last
  <1> DEFINE T == M_true_test[iflevel]
             O == M_skipping[iflevel - 1]
             tests == ~T /\ ~O
             s == ~(tests /\ value)
             t == IF tests THEN value ELSE T
  <1>3. T \in BOOLEAN /\ O \in BOOLEAN /\ (T => ~O)
    BY <1>2, TopGroup
  <1>4. /\ M_skipping' = [M_skipping EXCEPT ![iflevel] = s] /\ iflevel' = iflevel /\ macros' = macros
        /\ M_true_test' = IF tests THEN [M_true_test EXCEPT ![iflevel] = value] ELSE M_true_test
    BY DEF handle_elif
  <1>5. M_true_test' = [M_true_test EXCEPT ![iflevel] = t]
    <2>1. M_true_test = [M_true_test EXCEPT ![iflevel] = T]
      BY DEF IInv, DirectivesTypeOK
    <2>2. QED
      BY <1>4, <2>1
  <1>6. s \in BOOLEAN /\ t \in BOOLEAN /\ (O => s) /\ (t => ~O) /\ (~s => t)
    BY <1>3
  <1>7. G!Branch(value) <=> /\ groupsOf' = [groupsOf EXCEPT ![iflevel] =
                                            CASE @ = "taking" -> "done"
                                              [] @ = "waiting" -> G!Entered(value)
                                              [] OTHER -> @]
                            /\ tableOf' = tableOf
    BY <1>2, TopGroup DEF G!Branch
  <1> DEFINE x == IF O THEN "dead" ELSE IF ~s THEN "taking" ELSE IF t THEN "done" ELSE "waiting"
             y == CASE groupsOf[iflevel] = "taking" -> "done"
                    [] groupsOf[iflevel] = "waiting" -> G!Entered(value)
                    [] OTHER -> groupsOf[iflevel]
  <1>8. x = y
    <2>1. /\ groupsOf[iflevel] = IF O THEN "dead"
                                 ELSE IF ~M_skipping[iflevel] THEN "taking"
                                 ELSE IF T THEN "done" ELSE "waiting"
          /\ M_skipping[iflevel] \in BOOLEAN /\ (~M_skipping[iflevel] => T) /\ (O => M_skipping[iflevel])
      BY <1>2, TopGroup
    <2>2. CASE O
      BY <1>3, <2>1, <2>2
    <2>3. CASE ~O /\ T
      BY <1>3, <2>1, <2>3
    <2>4. CASE ~O /\ ~T
      BY <1>3, <2>1, <2>4 DEF G!Entered
    <2>5. QED
      BY <1>3, <2>2, <2>3, <2>4
  <1> HIDE DEF s, t, T, O, tests
  <1>9. IInv' /\ tableOf' = tableOf /\ groupsOf' = [groupsOf EXCEPT ![iflevel] = x]
    BY <1>1, <1>2, <1>4, <1>5, <1>6, TopChanges DEF O
  <1>10. QED
    BY <1>7, <1>8, <1>9

(* Where the flags, the macros and the nesting stay, all of it stays.      *)
LEMMA NothingChanges ==
  ASSUME IInv, UNCHANGED directiveVars
  PROVE  IInv' /\ groupsOf' = groupsOf /\ tableOf' = tableOf
  <1>1. /\ iflevel' = iflevel /\ M_skipping' = M_skipping /\ M_true_test' = M_true_test
        /\ macros' = macros /\ nesting' = nesting
    BY DEF directiveVars, levels
  <1>2. DirectivesTypeOK' /\ LevelsFit' /\ NamesOnce'
    BY <1>1 DEF IInv, DirectivesTypeOK, LevelsFit, NamesOnce, Seen
  <1>3. groupsOf' = groupsOf /\ tableOf' = tableOf
    BY <1>1 DEF groupsOf, Group, tableOf
  <1>4. QED
    BY <1>2, <1>3 DEF IInv

(* Outside every group #else and #endif find nothing to do.                *)
LEMMA StrayIsIgnored ==
  ASSUME IInv, nesting = <<>>
  PROVE  iflevel = 0 /\ ~skipping /\ groupsOf = <<>>
  <1>1. iflevel = 0
    BY DEF IInv, DirectivesTypeOK
  <1>2. ~skipping
    BY <1>1 DEF IInv, LevelsFit, skipping
  <1>3. groupsOf = <<>>
    BY <1>1, GroupsAre DEF IInv
  <1>4. QED
    BY <1>1, <1>2, <1>3

(* #else takes what is left, if no branch was taken.                       *)
LEMMA ElseBranches ==
  ASSUME IInv, nesting # <<>> => Last(nesting) = "if", handle_else,
         nesting' = IF nesting # <<>> THEN Append(Front(nesting), "else") ELSE nesting
  PROVE  IInv' /\ G!Branch(TRUE)
  <1>1. nesting \in Seq({"if", "else"}) /\ Len(nesting) = iflevel /\ iflevel \in Nat
    BY LevelsTyped DEF IInv
  <1>2. CASE nesting = <<>>
    <2>1. iflevel = 0 /\ ~skipping /\ groupsOf = <<>>
      BY <1>2, StrayIsIgnored
    <2>2. UNCHANGED directiveVars
      BY <1>2, <2>1 DEF handle_else, directiveVars, levels
    <2>3. QED
      BY <2>1, <2>2, NothingChanges DEF G!Branch
  <1>3. CASE nesting # <<>>
    <2>1. iflevel > 0 /\ nesting[iflevel] = "if"
      BY <1>1, <1>3 DEF Last
    <2>2. /\ nesting' \in Seq({"if", "else"}) /\ Len(nesting') = iflevel /\ nesting'[iflevel] = "else"
          /\ \A k \in 1 .. iflevel - 1 : nesting'[k] = nesting[k]
      <3> DEFINE f == Front(nesting)
      <3>1. f \in Seq({"if", "else"}) /\ Len(f) = iflevel - 1 /\ \A k \in 1 .. iflevel - 1 : f[k] = nesting[k]
        BY <1>1, <1>3, FrontIs
      <3> HIDE DEF f
      <3>2. nesting' = Append(f, "else")
        BY <1>3 DEF f
      <3>3. QED
        <4>1. Len(f) + 1 = iflevel /\ "else" \in {"if", "else"}
          BY <1>1, <3>1
        <4> DEFINE T == {"if", "else"}
        <4>2. f \in Seq(T) /\ "else" \in T
          BY <3>1
        <4> HIDE DEF T
        <4>3. /\ nesting' \in Seq(T) /\ Len(nesting') = Len(f) + 1 /\ nesting'[Len(f) + 1] = "else"
              /\ \A k \in 1 .. Len(f) : nesting'[k] = f[k]
          <5> DEFINE e == "else"
          <5>1. f \in Seq(T) /\ e \in T
            BY <4>2
          <5> HIDE DEF e
          <5>2. /\ Append(f, e) \in Seq(T) /\ Len(Append(f, e)) = Len(f) + 1 /\ Append(f, e)[Len(f) + 1] = e
                /\ \A k \in 1 .. Len(f) : Append(f, e)[k] = f[k]
            BY <5>1, AppendIs
          <5>3. nesting' = Append(f, e) /\ e = "else"
            BY <3>2 DEF e
          <5>4. QED
            BY <5>2, <5>3
        <4>4. QED
          BY <3>1, <4>1, <4>3 DEF T
    <2> DEFINE t == M_true_test[iflevel]
               O == M_skipping[iflevel - 1]
               s == O \/ t
    <2>3. t \in BOOLEAN /\ O \in BOOLEAN /\ s \in BOOLEAN /\ (O => s) /\ (t => ~O)
      BY <2>1, TopGroup
    <2>4. /\ M_skipping' = [M_skipping EXCEPT ![iflevel] = s] /\ iflevel' = iflevel /\ macros' = macros
          /\ M_true_test' = M_true_test
      <3>1. iflevel # 0
        BY <1>1, <2>1
      <3>2. M_skipping' = [M_skipping EXCEPT ![iflevel] = (iflevel > 0 /\ O) \/ t]
        BY <3>1 DEF handle_else
      <3>3. ((iflevel > 0 /\ O) \/ t) = s
        BY <2>1, <2>3
      <3>4. QED
        BY <3>2, <3>3 DEF handle_else
    <2>5. M_true_test' = [M_true_test EXCEPT ![iflevel] = t]
      BY <2>4 DEF IInv, DirectivesTypeOK
    <2>6. G!Branch(TRUE) <=> /\ groupsOf' = [groupsOf EXCEPT ![iflevel] =
                                             CASE @ = "taking" -> "done"
                                               [] @ = "waiting" -> G!Entered(TRUE)
                                               [] OTHER -> @]
                             /\ tableOf' = tableOf
      BY <2>1, TopGroup DEF G!Branch
    <2> DEFINE x == IF O THEN "dead" ELSE IF ~s THEN "taking" ELSE IF t THEN "done" ELSE "waiting"
               y == CASE groupsOf[iflevel] = "taking" -> "done"
                      [] groupsOf[iflevel] = "waiting" -> G!Entered(TRUE)
                      [] OTHER -> groupsOf[iflevel]
    <2>7. x = y
      <3>1. /\ groupsOf[iflevel] = IF O THEN "dead"
                                   ELSE IF ~M_skipping[iflevel] THEN "taking"
                                   ELSE IF t THEN "done" ELSE "waiting"
            /\ M_skipping[iflevel] \in BOOLEAN /\ (~M_skipping[iflevel] => t) /\ (O => M_skipping[iflevel])
        BY <2>1, TopGroup
      <3>2. CASE O
        BY <2>3, <3>1, <3>2
      <3>3. CASE ~O /\ t
        BY <2>3, <3>1, <3>3
      <3>4. CASE ~O /\ ~t
        BY <2>3, <3>1, <3>4 DEF G!Entered
      <3>5. QED
        BY <2>3, <3>2, <3>3, <3>4
    <2> HIDE DEF s, t, O
    <2>8. IInv' /\ tableOf' = tableOf /\ groupsOf' = [groupsOf EXCEPT ![iflevel] = x]
      BY <2>1, <2>2, <2>3, <2>4, <2>5, TopChanges DEF O
    <2>9. QED
      BY <2>6, <2>7, <2>8
  <1>4. QED
    BY <1>2, <1>3

(* #endif goes back to the level around it, and clears the flags.          *)
LEMMA EndifCloses ==
  ASSUME IInv, handle_endif, nesting' = IF nesting # <<>> THEN Front(nesting) ELSE nesting
  PROVE  IInv' /\ G!Close
  <1>1. /\ nesting \in Seq({"if", "else"}) /\ Len(nesting) = iflevel /\ iflevel \in Nat
        /\ iflevel \in 0 .. MAX_LEVEL - 1 /\ MAX_LEVEL \in Nat
    BY LevelsTyped DEF IInv
  <1>2. CASE nesting = <<>>
    <2>1. iflevel = 0 /\ ~skipping /\ groupsOf = <<>>
      BY <1>2, StrayIsIgnored
    <2>2. UNCHANGED directiveVars
      BY <1>2, <2>1 DEF handle_endif, directiveVars, levels
    <2>3. QED
      BY <2>1, <2>2, NothingChanges DEF G!Close
  <1>3. CASE nesting # <<>>
    <2> DEFINE n == iflevel - 1
    <2>1. iflevel > 0 /\ n \in Nat /\ n < iflevel /\ n \in 0 .. MAX_LEVEL - 1 /\ iflevel = n + 1
      BY <1>1, <1>3
    <2>2. /\ M_skipping' = [M_skipping EXCEPT ![iflevel] = FALSE] /\ iflevel' = n /\ macros' = macros
          /\ M_true_test' = [M_true_test EXCEPT ![iflevel] = FALSE]
      BY <2>1 DEF handle_endif
    <2> HIDE DEF n
    <2>3. /\ M_skipping' \in [0 .. MAX_LEVEL - 1 -> BOOLEAN] /\ M_true_test' \in [0 .. MAX_LEVEL - 1 -> BOOLEAN]
          /\ \A k \in 0 .. n : M_skipping'[k] = M_skipping[k] /\ M_true_test'[k] = M_true_test[k]
      <3>1. \A k \in 0 .. n : k # iflevel /\ k \in 0 .. MAX_LEVEL - 1
        BY <1>1, <2>1
      <3>2. M_skipping \in [0 .. MAX_LEVEL - 1 -> BOOLEAN] /\ M_true_test \in [0 .. MAX_LEVEL - 1 -> BOOLEAN]
        BY DEF IInv, DirectivesTypeOK
      <3>3. QED
        BY <2>2, <3>1, <3>2
    <2>4. /\ nesting' \in Seq({"if", "else"}) /\ Len(nesting') = n
          /\ \A k \in 1 .. n : nesting'[k] = nesting[k]
      BY <1>1, <1>3, <2>1, FrontIs
    <2>5. DirectivesTypeOK'
      BY <2>1, <2>2, <2>3, <2>4 DEF IInv, DirectivesTypeOK
    <2>6. \A k \in 0 .. n : k \in 0 .. iflevel
      BY <2>1
    <2>7. \A k \in 1 .. n : k \in 1 .. iflevel /\ k \in 0 .. n /\ k - 1 \in 0 .. n
      BY <2>1
    <2>8. LevelsFit'
      <3>1. ~M_skipping'[0]
        BY <2>1, <2>3 DEF IInv, LevelsFit
      <3>2. ASSUME NEW j \in 0 .. n, NEW k \in 0 .. n, j <= k, M_skipping'[j]
            PROVE  M_skipping'[k]
        BY <2>3, <2>6, <3>2 DEF IInv, LevelsFit
      <3>3. ASSUME NEW k \in 1 .. n
            PROVE  /\ M_true_test'[k] => ~M_skipping'[k - 1]
                   /\ nesting'[k] = "if" /\ ~M_skipping'[k] => M_true_test'[k]
        BY <2>3, <2>4, <2>7 DEF IInv, LevelsFit
      <3>4. QED
        BY <2>2, <3>1, <3>2, <3>3 DEF LevelsFit
    <2>9. NamesOnce'
      BY <2>2 DEF IInv, NamesOnce, Seen
    <2>10. \A k \in 1 .. n : groupsOf'[k] = groupsOf[k]
      BY <2>2, <2>3, <2>5, <2>7, GroupKept DEF IInv
    <2>11. groupsOf' = Front(groupsOf) /\ groupsOf # <<>>
      <3>1. /\ groupsOf \in Seq({"dead", "taking", "done", "waiting"}) /\ Len(groupsOf) = iflevel
            /\ groupsOf' \in Seq({"dead", "taking", "done", "waiting"}) /\ Len(groupsOf') = n
        BY <2>2, <2>5, GroupsAre, GroupsAfter DEF IInv
      <3>2. QED
        <4> DEFINE f == Front(groupsOf)
        <4>1. groupsOf # <<>>
          BY <2>1, <3>1
        <4>2. f \in Seq({"dead", "taking", "done", "waiting"}) /\ Len(f) = n /\ \A k \in 1 .. n : f[k] = groupsOf[k]
          BY <2>1, <3>1, <4>1, FrontIs
        <4> HIDE DEF f
        <4>3. groupsOf' = f
          BY <2>10, <3>1, <4>2
        <4>4. QED
          BY <4>1, <4>3 DEF f
    <2>12. tableOf' = tableOf
      BY <2>2 DEF tableOf
    <2>13. QED
      BY <2>5, <2>8, <2>9, <2>11, <2>12 DEF IInv, G!Close, G!Front, Front
  <1>4. QED
    BY <1>2, <1>3

(* Definitions leave the groups alone.                                     *)
LEMMA DefinitionKeepsGroups ==
  ASSUME IInv, UNCHANGED levels, nesting' = nesting, macros' \in Seq(Bound), NamesOnce'
  PROVE  IInv' /\ groupsOf' = groupsOf
  <1>1. iflevel' = iflevel /\ M_skipping' = M_skipping /\ M_true_test' = M_true_test
    BY DEF levels
  <1>2. DirectivesTypeOK' /\ LevelsFit'
    BY <1>1 DEF IInv, DirectivesTypeOK, LevelsFit
  <1>3. groupsOf' = groupsOf
    BY <1>1 DEF groupsOf, Group
  <1>4. QED
    BY <1>2, <1>3 DEF IInv

(* What the table is after a directive.                                    *)
LEMMA TableAfter ==
  ASSUME macros' \in Seq(Bound), NamesOnce', NEW n \in MacroNames
  PROVE  /\ \A i \in 1 .. Len(macros') : Seen(macros', n, i) => tableOf'[n] = MacroOf(macros'[i])
         /\ (\A i \in 1 .. Len(macros') : ~Seen(macros', n, i)) => tableOf'[n] = Undefined
  <1>1. tableOf'[n] = IF resolve(macros', n) = 0 THEN Undefined ELSE MacroOf(macros'[resolve(macros', n)])
    BY DEF tableOf, resolve, SelectLastInSeq, MacroOf, Max
  <1>2. \A i, j \in 1 .. Len(macros') : Seen(macros', n, i) /\ Seen(macros', n, j) => i = j
    BY DEF NamesOnce, Seen
  <1>3. /\ \A i \in 1 .. Len(macros') : Seen(macros', n, i) => resolve(macros', n) = i
        /\ (\A i \in 1 .. Len(macros') : ~Seen(macros', n, i)) => resolve(macros', n) = 0
    BY <1>2, ResolveIs
  <1>4. QED
    BY <1>1, <1>3

(* What a directive leaves of a name's macro is what the name had.         *)
LEMMA NameKept ==
  ASSUME macros \in Seq(Bound), NamesOnce, macros' \in Seq(Bound), NamesOnce', NEW n \in MacroNames,
         \A i \in 1 .. Len(macros) :
           Seen(macros, n, i) => i \in 1 .. Len(macros') /\ Seen(macros', n, i) /\ macros'[i] = macros[i],
         \A i \in 1 .. Len(macros') : Seen(macros', n, i) => i \in 1 .. Len(macros) /\ Seen(macros, n, i)
  PROVE  tableOf'[n] = tableOf[n]
  <1>1. CASE \E i \in 1 .. Len(macros) : Seen(macros, n, i)
    <2>1. PICK i \in 1 .. Len(macros) : Seen(macros, n, i)
      BY <1>1
    <2>2. tableOf[n] = MacroOf(macros[i])
      BY <2>1, TableIs
    <2>3. tableOf'[n] = MacroOf(macros'[i])
      BY <2>1, TableAfter
    <2>4. QED
      BY <2>1, <2>2, <2>3
  <1>2. CASE ~ \E i \in 1 .. Len(macros) : Seen(macros, n, i)
    <2>1. tableOf[n] = Undefined
      BY <1>2, TableIs
    <2>2. tableOf'[n] = Undefined
      BY <1>2, TableAfter
    <2>3. QED
      BY <2>1, <2>2
  <1>3. QED
    BY <1>1, <1>2

(* The table, from what it is for each name.                               *)
LEMMA TableChanges ==
  ASSUME NEW n \in MacroNames, NEW v, tableOf'[n] = v,
         \A x \in MacroNames : x # n => tableOf'[x] = tableOf[x]
  PROVE  tableOf' = [tableOf EXCEPT ![n] = v]
  <1>1. tableOf' = [x \in MacroNames |-> tableOf'[x]]
    BY DEF tableOf
  <1>2. [tableOf EXCEPT ![n] = v] = [x \in MacroNames |-> IF x = n THEN v ELSE tableOf[x]]
    BY DEF tableOf
  <1>3. QED
    BY <1>1, <1>2

(* A macro that is bound is the only one of its name that is not hidden.   *)
LEMMA DefineDefines ==
  ASSUME IInv, NEW name \in MacroNames, NEW macro \in Macro, skipping \/ resolve(macros, name) = 0,
         handle_define(name, macro), nesting' = nesting
  PROVE  IInv' /\ G!Define(name, macro)
  <1>1. UNCHANGED levels
    BY DEF handle_define
  <1>2. CASE skipping
    <2>1. macros' = macros
      BY <1>2 DEF handle_define
    <2>2. ~G!Active
      BY <1>2, ActiveIs DEF IInv
    <2>3. IInv' /\ groupsOf' = groupsOf /\ tableOf' = tableOf
      BY <1>1, <2>1, NothingChanges DEF directiveVars
    <2>4. QED
      BY <2>2, <2>3 DEF G!Define
  <1>3. CASE ~skipping
    <2> DEFINE n == Len(macros) + 1
               m == [name |-> name, hidden |-> FALSE, functionLike |-> macro.functionLike,
                     formals |-> macro.formals, definition |-> macro.definition]
    <2>1. macros \in Seq(Bound) /\ NamesOnce
      BY DEF IInv, DirectivesTypeOK
    <2>2. m \in Bound /\ m.name = name /\ ~m.hidden /\ MacroOf(m) = macro
      BY DEF Bound, Macro, MacroOf
    <2>3. macros' = Append(macros, m)
      BY <1>3 DEF handle_define, bind
    <2> HIDE DEF m
    <2>4. /\ macros' \in Seq(Bound) /\ Len(macros') = n /\ macros'[n] = m
          /\ \A i \in 1 .. Len(macros) : macros'[i] = macros[i]
      BY <2>1, <2>2, <2>3, AppendIs
    <2>5. \A i \in 1 .. Len(macros) : ~Seen(macros, name, i)
      BY <1>3, <2>1, Resolved
    <2>6. n \in 1 .. n /\ \A i \in 1 .. n : i = n \/ i \in 1 .. Len(macros)
      BY <2>1
    <2>7. \A i \in 1 .. Len(macros) : i \in 1 .. n
      BY <2>1
    <2>8. \A x : /\ Seen(macros', x, n) <=> x = name
                 /\ \A i \in 1 .. Len(macros) : Seen(macros', x, i) <=> Seen(macros, x, i)
      BY <2>2, <2>4 DEF Seen
    <2> HIDE DEF n
    <2>9. NamesOnce'
      <3>1. ASSUME NEW i \in 1 .. n, NEW j \in 1 .. n, NEW x, Seen(macros', x, i), Seen(macros', x, j)
            PROVE  i = j
        <4>1. CASE x = name
          BY <2>5, <2>6, <2>8, <3>1, <4>1
        <4>2. CASE x # name
          <5>1. i \in 1 .. Len(macros) /\ j \in 1 .. Len(macros)
            BY <2>6, <2>8, <3>1, <4>2
          <5>2. Seen(macros, x, i) /\ Seen(macros, x, j)
            BY <2>8, <3>1, <5>1
          <5>3. QED
            BY <2>1, <5>1, <5>2 DEF NamesOnce, Seen
        <4>3. QED
          BY <4>1, <4>2
      <3>2. QED
        BY <2>4, <3>1 DEF NamesOnce
    <2>10. IInv' /\ groupsOf' = groupsOf
      BY <1>1, <2>4, <2>9, DefinitionKeepsGroups
    <2>11. tableOf'[name] = macro
      <3>1. n \in 1 .. Len(macros') /\ Seen(macros', name, n)
        BY <2>4, <2>6, <2>8
      <3>2. tableOf'[name] = MacroOf(macros'[n])
        BY <2>4, <2>9, <3>1, TableAfter
      <3>3. QED
        BY <2>2, <2>4, <3>2
    <2>12. ASSUME NEW x \in MacroNames, x # name
           PROVE  tableOf'[x] = tableOf[x]
      <3>1. \A i \in 1 .. Len(macros) :
              Seen(macros, x, i) => i \in 1 .. Len(macros') /\ Seen(macros', x, i) /\ macros'[i] = macros[i]
        BY <2>4, <2>7, <2>8
      <3>2. \A i \in 1 .. Len(macros') : Seen(macros', x, i) => i \in 1 .. Len(macros) /\ Seen(macros, x, i)
        BY <2>4, <2>6, <2>8, <2>12
      <3>3. QED
        BY <2>1, <2>4, <2>9, <3>1, <3>2, NameKept
    <2>13. tableOf' = [tableOf EXCEPT ![name] = macro]
      BY <2>11, <2>12, TableChanges
    <2>14. G!Active
      BY <1>3, ActiveIs DEF IInv
    <2>15. QED
      BY <2>10, <2>13, <2>14 DEF G!Define
  <1>4. QED
    BY <1>2, <1>3

(* The one macro of a name that is not hidden is hidden by #undef.         *)
LEMMA UndefUndefines ==
  ASSUME IInv, NEW name \in MacroNames, handle_undef(name), nesting' = nesting
  PROVE  IInv' /\ G!Define(name, Undefined)
  <1> DEFINE k == resolve(macros, name)
  <1>1. UNCHANGED levels
    BY DEF handle_undef
  <1>2. macros \in Seq(Bound) /\ NamesOnce
    BY DEF IInv, DirectivesTypeOK
  <1>3. CASE skipping
    <2>1. macros' = macros
      BY <1>3 DEF handle_undef
    <2>2. ~G!Active
      BY <1>3, ActiveIs DEF IInv
    <2>3. IInv' /\ groupsOf' = groupsOf /\ tableOf' = tableOf
      BY <1>1, <2>1, NothingChanges DEF directiveVars
    <2>4. QED
      BY <2>2, <2>3 DEF G!Define
  <1>4. CASE ~skipping /\ k = 0
    <2>1. macros' = macros
      BY <1>4 DEF handle_undef, unbind
    <2>2. IInv' /\ groupsOf' = groupsOf /\ tableOf' = tableOf
      BY <1>1, <2>1, NothingChanges DEF directiveVars
    <2>3. tableOf'[name] = Undefined
      BY <1>2, <1>4, <2>2, TableIs
    <2>4. tableOf' = [tableOf EXCEPT ![name] = Undefined]
      BY <2>2, <2>3, TableChanges
    <2>5. QED
      BY <1>4, <2>2, <2>4, ActiveIs DEF IInv, G!Define
  <1>5. CASE ~skipping /\ k # 0
    <2>1. k \in 1 .. Len(macros) /\ Seen(macros, name, k)
      BY <1>2, <1>5, Resolved
    <2>2. macros' = [macros EXCEPT ![k].hidden = TRUE]
      BY <1>5 DEF handle_undef, unbind, Hide
    <2> HIDE DEF k
    <2>3. macros[k] \in Bound /\ [macros[k] EXCEPT !.hidden = TRUE] \in Bound
      <3>1. macros[k] \in Bound
        BY <1>2, <2>1
      <3>2. ASSUME NEW m \in Bound
            PROVE  [m EXCEPT !.hidden = TRUE] \in Bound
        BY DEF Bound
      <3>3. QED
        BY <3>1, <3>2
    <2>4. /\ macros' \in Seq(Bound) /\ Len(macros') = Len(macros)
          /\ macros'[k].hidden
          /\ \A i \in 1 .. Len(macros) : i # k => macros'[i] = macros[i]
      BY <1>2, <2>1, <2>2, <2>3 DEF Bound
    <2>5. /\ \A x : ~Seen(macros', x, k)
          /\ \A x : \A i \in 1 .. Len(macros) : i # k => (Seen(macros', x, i) <=> Seen(macros, x, i))
      BY <2>4 DEF Seen
    <2>6. NamesOnce'
      <3>1. ASSUME NEW i \in 1 .. Len(macros), NEW j \in 1 .. Len(macros), NEW x,
                   Seen(macros', x, i), Seen(macros', x, j)
            PROVE  i = j
        <4>1. i # k /\ j # k
          BY <2>5, <3>1
        <4>2. Seen(macros, x, i) /\ Seen(macros, x, j)
          BY <2>5, <3>1, <4>1
        <4>3. QED
          BY <1>2, <4>2 DEF NamesOnce, Seen
      <3>2. QED
        BY <2>4, <3>1 DEF NamesOnce
    <2>7. IInv' /\ groupsOf' = groupsOf
      BY <1>1, <2>4, <2>6, DefinitionKeepsGroups
    <2>8. tableOf'[name] = Undefined
      <3>1. ASSUME NEW i \in 1 .. Len(macros')
            PROVE  ~Seen(macros', name, i)
        <4>1. CASE i = k
          BY <2>5, <4>1
        <4>2. CASE i # k
          <5>1. i \in 1 .. Len(macros)
            BY <2>4
          <5>2. ~Seen(macros, name, i)
            BY <1>2, <2>1, <4>2, <5>1 DEF NamesOnce, Seen
          <5>3. QED
            BY <2>5, <4>2, <5>1, <5>2
        <4>3. QED
          BY <4>1, <4>2
      <3>2. QED
        BY <2>4, <2>6, <3>1, TableAfter
    <2>9. ASSUME NEW x \in MacroNames, x # name
          PROVE  tableOf'[x] = tableOf[x]
      <3>1. \A i \in 1 .. Len(macros) :
              Seen(macros, x, i) => i \in 1 .. Len(macros') /\ Seen(macros', x, i) /\ macros'[i] = macros[i]
        BY <2>1, <2>4, <2>5, <2>9 DEF Seen
      <3>2. \A i \in 1 .. Len(macros') : Seen(macros', x, i) => i \in 1 .. Len(macros) /\ Seen(macros, x, i)
        BY <2>4, <2>5
      <3>3. QED
        BY <1>2, <2>4, <2>6, <3>1, <3>2, NameKept
    <2>10. tableOf' = [tableOf EXCEPT ![name] = Undefined]
      BY <2>8, <2>9, TableChanges
    <2>11. QED
      BY <1>5, <2>7, <2>10, ActiveIs DEF IInv, G!Define
  <1>6. QED
    BY <1>3, <1>4, <1>5

(* Every directive does what the line asks of C.                           *)
LEMMA DirectiveFollows ==
  ASSUME IInv, NEW l \in Lines, NEW value \in BOOLEAN, Directive(l, value)
  PROVE  IInv' /\ G!Follows(l, value)
  <1> DEFINE defined == resolve(macros, l.name) # 0
  <1>1. Wellformed(l) /\ iflevel < MAX_LEVEL - 1 /\ Handled(l, value) /\ nesting' = Nested(l)
    BY DEF Directive
  <1>2. macros \in Seq(Bound) /\ NamesOnce
    BY DEF IInv, DirectivesTypeOK
  <1>3. /\ l.kind \in {"ifdef", "ifndef", "define", "undef"} => l.name \in MacroNames
        /\ l.kind = "define" => l.macro \in Macro
    BY DirectivesAssumption
  <1>4. CASE l.kind = "if"
    <2>1. Enter(value) /\ nesting' = Append(nesting, "if")
      BY <1>1, <1>4 DEF Handled, handle_if, Nested
    <2>2. IInv' /\ G!Open(value)
      BY <1>1, <2>1, EnterOpens
    <2>3. QED
      BY <1>4, <2>2 DEF G!Follows
  <1>5. CASE l.kind = "ifdef"
    <2>1. l.name \in MacroNames
      BY <1>3, <1>5
    <2>2. (defined # FALSE) = defined /\ (defined # FALSE) \in BOOLEAN
      OBVIOUS
    <2>3. Enter(defined # FALSE) /\ nesting' = Append(nesting, "if")
      BY <1>1, <1>5 DEF Handled, handle_ifdef, Nested
    <2>4. defined <=> tableOf[l.name] # Undefined
      BY <1>2, <2>1, TableIs
    <2>5. defined = (tableOf[l.name] # Undefined)
      BY <2>4
    <2> HIDE DEF defined
    <2>6. IInv' /\ G!Open(tableOf[l.name] # Undefined)
      BY <1>1, <2>2, <2>3, <2>5, EnterOpens
    <2>7. QED
      BY <1>5, <2>6 DEF G!Follows
  <1>6. CASE l.kind = "ifndef"
    <2>1. l.name \in MacroNames
      BY <1>3, <1>6
    <2>2. (defined # TRUE) = ~defined /\ (defined # TRUE) \in BOOLEAN
      OBVIOUS
    <2>3. Enter(defined # TRUE) /\ nesting' = Append(nesting, "if")
      BY <1>1, <1>6 DEF Handled, handle_ifdef, Nested
    <2>4. defined <=> tableOf[l.name] # Undefined
      BY <1>2, <2>1, TableIs
    <2>5. (~defined) = (tableOf[l.name] = Undefined)
      BY <2>4
    <2> HIDE DEF defined
    <2>6. IInv' /\ G!Open(tableOf[l.name] = Undefined)
      BY <1>1, <2>2, <2>3, <2>5, EnterOpens
    <2>7. QED
      BY <1>6, <2>6 DEF G!Follows
  <1>7. CASE l.kind = "elif"
    <2>1. handle_elif(value) /\ nesting' = nesting /\ nesting # <<>> /\ Last(nesting) = "if"
      BY <1>1, <1>7 DEF Handled, Nested, Wellformed
    <2>2. IInv' /\ G!Branch(value)
      BY <2>1, ElifBranches
    <2>3. QED
      BY <1>7, <2>2 DEF G!Follows
  <1>8. CASE l.kind = "else"
    <2>1. handle_else /\ (nesting # <<>> => Last(nesting) = "if")
      BY <1>1, <1>8 DEF Handled, Wellformed
    <2>2. nesting' = IF nesting # <<>> THEN Append(Front(nesting), "else") ELSE nesting
      BY <1>1, <1>8 DEF Nested
    <2>3. IInv' /\ G!Branch(TRUE)
      BY <2>1, <2>2, ElseBranches
    <2>4. QED
      BY <1>8, <2>3 DEF G!Follows
  <1>9. CASE l.kind = "endif"
    <2>1. handle_endif
      BY <1>1, <1>9 DEF Handled
    <2>2. nesting' = IF nesting # <<>> THEN Front(nesting) ELSE nesting
      BY <1>1, <1>9 DEF Nested
    <2>3. IInv' /\ G!Close
      BY <2>1, <2>2, EndifCloses
    <2>4. QED
      BY <1>9, <2>3 DEF G!Follows
  <1>10. CASE l.kind = "define"
    <2>1. l.name \in MacroNames /\ l.macro \in Macro
      BY <1>3, <1>10
    <2>2. handle_define(l.name, l.macro) /\ nesting' = nesting /\ (skipping \/ resolve(macros, l.name) = 0)
      BY <1>1, <1>10 DEF Handled, Nested, Wellformed
    <2>3. IInv' /\ G!Define(l.name, l.macro)
      BY <2>1, <2>2, DefineDefines
    <2>4. QED
      BY <1>10, <2>3 DEF G!Follows
  <1>11. CASE l.kind = "undef"
    <2>1. l.name \in MacroNames
      BY <1>3, <1>11
    <2>2. handle_undef(l.name) /\ nesting' = nesting
      BY <1>1, <1>11 DEF Handled, Nested
    <2>3. IInv' /\ G!Define(l.name, Undefined)
      BY <2>1, <2>2, UndefUndefines
    <2>4. QED
      BY <1>11, <2>3 DEF G!Follows
  <1>12. QED
    BY <1>1, <1>4, <1>5, <1>6, <1>7, <1>8, <1>9, <1>10, <1>11 DEF Handled

(* The first state.                                                        *)
LEMMA DirectivesBegin == DirectivesInit => IInv
  <1> SUFFICES ASSUME DirectivesInit
               PROVE  IInv
    OBVIOUS
  <1>1. /\ iflevel = 0 /\ macros = <<>> /\ nesting = <<>>
        /\ M_skipping = [k \in 0 .. MAX_LEVEL - 1 |-> FALSE] /\ M_true_test = [k \in 0 .. MAX_LEVEL - 1 |-> FALSE]
        /\ 0 \in 0 .. MAX_LEVEL - 1
    BY DirectivesAssumption DEF DirectivesInit
  <1>2. DirectivesTypeOK
    BY <1>1 DEF DirectivesTypeOK
  <1>3. LevelsFit
    <2>1. ~M_skipping[0]
      BY <1>1
    <2>2. \A j, k \in 0 .. iflevel : j = 0 /\ k = 0
      BY <1>1
    <2>3. \A k \in 1 .. iflevel : FALSE
      BY <1>1
    <2>4. QED
      BY <2>1, <2>2, <2>3 DEF LevelsFit
  <1>4. NamesOnce
    BY <1>1 DEF NamesOnce
  <1>5. QED
    BY <1>2, <1>3, <1>4 DEF IInv

(* Every step.                                                             *)
LEMMA DirectivesKeep == IInv /\ [DirectivesNext]_directiveVars => IInv'
  <1> SUFFICES ASSUME IInv, [DirectivesNext]_directiveVars
               PROVE  IInv'
    OBVIOUS
  <1>1. CASE DirectivesNext
    BY <1>1, DirectiveFollows DEF DirectivesNext
  <1>2. CASE UNCHANGED directiveVars
    BY <1>2, NothingChanges
  <1>3. QED
    BY <1>1, <1>2

-----------------------------------------------------------------------------
(* Theorems *)

(* The flags of the levels fit each other, and a name has one macro, after *)
(* any sequence of directives (pp-engine-bits.h, pp-environment.h).        *)
THEOREM DirectivesInvariant == DirectivesSpec => []IInv
  <1>1. QED
    BY DirectivesBegin, DirectivesKeep, PTL DEF DirectivesSpec

(* A line of text is skipped exactly if a group around it is not taking    *)
(* the branch the line is in, however deep the groups are (skipping).      *)
THEOREM SkipsExactly == DirectivesSpec => []SkipsWhatIsNotTaken
  <1>1. IInv => SkipsWhatIsNotTaken
    <2>1. IInv => (G!Active <=> ~skipping)
      BY ActiveIs DEF IInv
    <2>2. QED
      BY <2>1 DEF SkipsWhatIsNotTaken
  <1>2. QED
    BY <1>1, DirectivesInvariant, PTL

(* Each directive does to the groups and macros what its line asks of C,   *)
(* with the condition that handle_if and handle_elif found.                *)
THEOREM DirectivesAsInC == DirectivesSpec => SameConditions
  <1> DEFINE Same == \A l \in Lines, value \in BOOLEAN : Directive(l, value) => G!Follows(l, value)
  <1>1. IInv => Same
    BY DirectiveFollows
  <1>2. IInv /\ [DirectivesNext]_directiveVars => [Same]_directiveVars
    BY <1>1
  <1>3. QED
    BY <1>2, DirectivesInvariant, PTL DEF DirectivesSpec, SameConditions

(* Two flags for each level, and macros that are hidden when undefined,    *)
(* implement C's groups and definitions.                                   *)
THEOREM DirectivesImplementGroups == DirectivesSpec => ImplementsGroups
  <1>1. DirectivesInit => G!GroupsInit
    <2> SUFFICES ASSUME DirectivesInit
                 PROVE  G!GroupsInit
      OBVIOUS
    <2>1. IInv /\ iflevel = 0 /\ macros = <<>>
      BY DirectivesBegin DEF DirectivesInit
    <2>2. groupsOf = <<>>
      BY <2>1, GroupsAre DEF IInv
    <2>3. \A n \in MacroNames : tableOf[n] = Undefined
      BY <2>1, TableIs DEF IInv, DirectivesTypeOK
    <2>4. tableOf = [n \in MacroNames |-> Undefined]
      BY <2>3 DEF tableOf
    <2>5. QED
      BY <2>2, <2>4 DEF G!GroupsInit
  <1>2. IInv /\ [DirectivesNext]_directiveVars => [G!GroupsNext]_G!groupVars
    <2> SUFFICES ASSUME IInv, [DirectivesNext]_directiveVars
                 PROVE  [G!GroupsNext]_G!groupVars
      OBVIOUS
    <2>1. CASE DirectivesNext
      BY <2>1, DirectiveFollows DEF DirectivesNext, G!GroupsNext
    <2>2. CASE UNCHANGED directiveVars
      BY <2>2, NothingChanges DEF G!groupVars
    <2>3. QED
      BY <2>1, <2>2
  <1>3. QED
    BY <1>1, <1>2, DirectivesInvariant, PTL DEF DirectivesSpec, ImplementsGroups, G!GroupsSpec

=============================================================================
