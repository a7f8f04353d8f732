----------------------------- MODULE ListValues -----------------------------
(* What an implicitly shared list promises its user: every variable of the *)
(* type is a list of its own, whatever the variables share underneath.     *)
EXTENDS Sequences, SequencesExt, Integers

CONSTANTS NULL, Handles, Values

VARIABLE value      \* the list a variable holds; NULL: the variable is dead

Init == value = [h \in Handles |-> NULL]

Live == {h \in Handles : value[h] # NULL}

Become(h, list) == value' = [value EXCEPT ![h] = list]

New(h)     == value[h] = NULL /\ Become(h, <<>>)
Copy(h, g) == value[h] = NULL /\ g \in Live /\ Become(h, value[g])
Assign(h, g) == {h, g} \subseteq Live /\ Become(h, value[g])
Destroy(h) == h \in Live /\ Become(h, NULL)

Insert(h, i, v) ==
  h \in Live /\ i \in 0 .. Len(value[h]) /\ Become(h, InsertAt(value[h], i + 1, v))

Extend(h, g) == {h, g} \subseteq Live /\ Become(h, value[h] \o value[g])

RemoveRange(h, i, n) ==
  /\ h \in Live /\ i + n <= Len(value[h])
  /\ Become(h, SubSeq(value[h], 1, i) \o SubSeq(value[h], i + n + 1, Len(value[h])))

Move(h, i, j) ==
  /\ h \in Live /\ {i, j} \subseteq 0 .. Len(value[h]) - 1
  /\ Become(h, InsertAt(RemoveAt(value[h], i + 1), j + 1, value[h][i + 1]))

Next ==
  \E h \in Handles :
    \/ New(h) \/ Destroy(h)
    \/ \E g \in Handles : Copy(h, g) \/ Assign(h, g) \/ Extend(h, g)
    \/ h \in Live /\ \E i \in 0 .. Len(value[h]) :
         \/ \E v \in Values : Insert(h, i, v)
         \/ \E n \in 1 .. Len(value[h]) - i : RemoveRange(h, i, n)
         \/ \E j \in 0 .. Len(value[h]) - 1 : Move(h, i, j)

Spec == Init /\ [][Next]_value
=============================================================================
