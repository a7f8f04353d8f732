-------------------------------- MODULE QList --------------------------------
(***************************************************************************)
(* Implicitly shared lists (struct QList, d2/qt/core/QList.d) of elements  *)
(* too large for a cell: each cell owns a copy of its element on the heap. *)
(* A variable of the type is a handle to a reference-counted block, and    *)
(* copies the block before it writes while others share it.                *)
(*                                                                         *)
(* Handles that share a block may be used by different threads, each       *)
(* handle by one at a time.  A step is one atomic operation on a reference *)
(* count, with what only its thread can see before the next one.           *)
(*                                                                         *)
(* QList itself calls append only; the other operations of QListData are   *)
(* run as their commented assertions ask ("Q_ASSERT(d.ref_ == 1)"), after  *)
(* detach.  Not modelled: opIndex and opApply, which hand out references   *)
(* into the block without detaching.                                       *)
(***************************************************************************)
EXTENDS Integers, Sequences, FiniteSets, Functions

CONSTANTS
  NULL, Junk,
  Handles,      \* the variables of type QList
  Values,       \* what elements can be
  MaxSize,      \* bounds on the size of a list that is alone, and of one
  MaxShared,    \*   that grows beside others,
  MaxAlloc      \*   and on its block

D == INSTANCE QListData

SharedNull == 0
(* A handle has its block, and while it detaches a second one. *)
Blocks == 1 .. 2 * Cardinality(Handles)

ASSUME ListAssumption ==
  IsFiniteSet(Handles) /\ NULL \notin Blocks \cup {SharedNull} \cup Seq(Values)

(* No block, not even one for two lists put together, exceeds 2 ^ 29 bytes, *)
(* where the arithmetic of qAllocMore is still that of the integers.        *)
ASSUME SizeAssumption == MaxAlloc \in Nat /\ 2 * MaxAlloc + 3 <= 2 ^ 26

VARIABLES
  d,        \* per handle: its block; NULL: the variable is dead
  ref,      \* per block: d.ref_
  data,     \* the heap: allocated block -> its array
  copies,   \* how many copies of elements are on the heap
  busy      \* per handle: what its thread is in the middle of

vars == <<d, ref, data, copies, busy>>

(* A handle is idle, or about to copy the block it shares, to let go of    *)
(* the block old (and then to write, or not), or to write.                 *)
Idle  == [pc |-> "idle"]
Copy  == [pc |-> "copy"]
Write == [pc |-> "write"]
Drop(b, then) == [pc |-> "drop", old |-> b, then |-> then]

Init ==
  /\ d = [h \in Handles |-> NULL]
  /\ ref = [b \in Blocks \cup {SharedNull} |-> IF b = SharedNull THEN 1 ELSE 0]
  /\ data = [b \in {SharedNull} |-> D!sharedNull]
  /\ copies = 0
  /\ busy = [h \in Handles |-> Idle]

TypeOK ==
  /\ d \in [Handles -> Blocks \cup {SharedNull, NULL}]
  /\ ref \in [Blocks \cup {SharedNull} -> Nat]
  /\ \A b \in DOMAIN data :
       /\ 0 <= data[b].begin /\ data[b].begin <= data[b].end /\ data[b].end <= data[b].alloc
       /\ Range(D!Contents(data[b])) \subseteq Values
  /\ copies \in Nat
  /\ \A h \in Handles : busy[h] \in {Idle, Copy, Write}
                         \cup {Drop(b, then) : b \in Blocks \cup {SharedNull}, then \in {Idle, Write}}

-----------------------------------------------------------------------------
Live(h)  == d[h] # NULL
Ready(h) == Live(h) /\ busy[h] = Idle
At(h, pc) == busy[h].pc = pc

FreeBlock == CHOOSE b \in Blocks : b \notin DOMAIN data

Count(b) == D!size(data[b])

(* The operators with a suffix, here and in QListData, are variants with a *)
(* plausible bug that the runs must reject.                                *)
release_KeepsNodes(b) ==
  /\ ref' = [ref EXCEPT ![b] = @ - 1]
  /\ data' = IF ref[b] = 1 THEN Restrict(data, DOMAIN data \ {b}) ELSE data
  /\ UNCHANGED copies

(* ref_.decrement(), and free with the nodes for the last reference *)
release(b) ==
  /\ ref' = [ref EXCEPT ![b] = @ - 1]
  /\ data' = IF ref[b] = 1 THEN Restrict(data, DOMAIN data \ {b}) ELSE data
  /\ copies' = IF ref[b] = 1 THEN copies - Count(b) ELSE copies

retain(b) == ref' = [ref EXCEPT ![b] = @ + 1]

-----------------------------------------------------------------------------
opCall(h) ==
  /\ ~Live(h)
  /\ d' = [d EXCEPT ![h] = SharedNull]
  /\ retain(SharedNull)
  /\ UNCHANGED <<data, copies, busy>>

(* h is copied from g.  sharable is true in every block this code makes.   *)
postblit(h, g) ==
  /\ ~Live(h) /\ Ready(g)
  /\ d' = [d EXCEPT ![h] = d[g]]
  /\ retain(d[g])
  /\ UNCHANGED <<data, copies, busy>>

destructor(h) ==
  /\ Ready(h)
  /\ d' = [d EXCEPT ![h] = NULL]
  /\ release(d[h])
  /\ UNCHANGED busy

opAssign_NotCounted(h, g) ==
  /\ Ready(h) /\ Ready(g) /\ d[h] # d[g]
  /\ d' = [d EXCEPT ![h] = d[g]]
  /\ busy' = [busy EXCEPT ![h] = Drop(d[h], Idle)]
  /\ UNCHANGED <<ref, data, copies>>

(* h = g: the new block is counted, then the old one let go. *)
opAssign(h, g) ==
  /\ Ready(h) /\ Ready(g) /\ d[h] # d[g]
  /\ d' = [d EXCEPT ![h] = d[g]]
  /\ retain(d[g])
  /\ busy' = [busy EXCEPT ![h] = Drop(d[h], Idle)]
  /\ UNCHANGED <<data, copies>>

detach_Unchecked(h) ==
  /\ Ready(h)
  /\ busy' = [busy EXCEPT ![h] = Write]
  /\ UNCHANGED <<d, ref, data, copies>>

(* What every operation that writes begins with:                           *)
(* "if (d.ref_.load() != 1) detach_helper()"                               *)
detach(h) ==
  /\ Ready(h)
  /\ busy' = [busy EXCEPT ![h] = IF ref[d[h]] = 1 THEN Write ELSE Copy]
  /\ UNCHANGED <<d, ref, data, copies>>

(* detach_helper: detach2 copies the array, node_copy every element ...    *)
copy(h) ==
  /\ At(h, "copy")
  /\ LET b == FreeBlock
     IN  /\ d' = [d EXCEPT ![h] = b]
         /\ data' = [x \in DOMAIN data \cup {b} |->
                        IF x = b THEN D!detach2(data[d[h]]) ELSE data[x]]
         /\ ref' = [ref EXCEPT ![b] = 1]
  /\ copies' = copies + Count(d[h])
  /\ busy' = [busy EXCEPT ![h] = Drop(d[h], Write)]

(* ... and the shared block is let go; meanwhile others may have, too.     *)
drop(h) ==
  /\ At(h, "drop")
  /\ release(busy[h].old)
  /\ busy' = [busy EXCEPT ![h] = @.then]
  /\ UNCHANGED d

(* The operation itself; node_construct puts a copy of a new element on    *)
(* the heap, node_destruct frees those of removed ones.                    *)
Become(h, array) ==
  /\ array.alloc <= MaxAlloc
  /\ data' = [data EXCEPT ![d[h]] = array]
  /\ copies' = copies + D!size(array) - Count(d[h])
  /\ busy' = [busy EXCEPT ![h] = Idle]
  /\ UNCHANGED <<d, ref>>

Mine(h)  == data[d[h]]
Alone(h) == \A g \in Handles \ {h} : ~Live(g)
Fits(h, n) == Count(d[h]) + n <= IF Alone(h) THEN MaxSize ELSE MaxShared

(* detach itself is part of the interface: it may return and nothing more. *)
detached(h) ==
  /\ At(h, "write")
  /\ busy' = [busy EXCEPT ![h] = Idle]
  /\ UNCHANGED <<d, ref, data, copies>>

append(h, v) == At(h, "write") /\ Fits(h, 1) /\ Become(h, D!append(Mine(h), v))

(* the list g is appended to h *)
appendList(h, g) ==
  /\ At(h, "write") /\ Ready(g) /\ Fits(h, Count(d[g]))
  /\ Become(h, D!appendList(Mine(h), D!Contents(Mine(g))))

(* What QList does not use itself is run on a list that is alone: a bound. *)
insert(h, i, v) ==
  /\ At(h, "write") /\ Alone(h) /\ Fits(h, 1) /\ i <= Count(d[h])
  /\ Become(h, D!insert(Mine(h), i, v))

remove(h, i) ==
  At(h, "write") /\ Alone(h) /\ i < Count(d[h]) /\ Become(h, D!removeOne(Mine(h), i))

removeMany(h, i, n) ==
  At(h, "write") /\ Alone(h) /\ i + n <= Count(d[h]) /\ Become(h, D!removeMany(Mine(h), i, n))

move(h, i, j) ==
  At(h, "write") /\ Alone(h) /\ {i, j} \subseteq 0 .. Count(d[h]) - 1 /\ Become(h, D!move(Mine(h), i, j))

Places == 0 .. MaxSize

Next ==
  \E h \in Handles :
    \/ opCall(h) \/ destructor(h)
    \/ \E g \in Handles : postblit(h, g) \/ opAssign(h, g) \/ appendList(h, g)
    \/ detach(h) \/ copy(h) \/ drop(h) \/ detached(h)
    \/ \E v \in Values : append(h, v) \/ \E i \in Places : insert(h, i, v)
    \/ \E i, j \in Places : remove(h, i) \/ removeMany(h, i, j) \/ move(h, i, j)

Spec == Init /\ [][Next]_vars

-----------------------------------------------------------------------------
(* How many handles, or threads about to let it go, refer to a block *)
Owners(b)    == {h \in Handles : d[h] = b}
LettingGo(b) == {h \in Handles : At(h, "drop") /\ busy[h].old = b}
Holders(b)   == Cardinality(Owners(b)) + Cardinality(LettingGo(b))

(* A block lives exactly as long as something refers to it, and its count  *)
(* says how many do, whatever order threads detach, assign and die in; the *)
(* shared empty block keeps one reference of its own and stays empty.      *)
CountsExact ==
  /\ \A b \in Blocks : ref[b] = Holders(b) /\ (b \in DOMAIN data <=> ref[b] > 0)
  /\ ref[SharedNull] = 1 + Holders(SharedNull) /\ data[SharedNull] = D!sharedNull

(* Every cell of every block has a copy of its element to itself, and no   *)
(* other copy is on the heap: none is leaked, freed twice or shared.       *)
Cells == UNION {{b} \X (data[b].begin .. data[b].end - 1) : b \in DOMAIN data}

CopiesMatchCells == copies = Cardinality(Cells)

(* No thread writes to a block that another handle can read: still true    *)
(* when it writes, several steps after detach looked at the count.         *)
WriterIsAlone == \A h \in Handles : At(h, "write") => Holders(d[h]) = 1

(* The lists that the handles stand for *)
Lists == [h \in Handles |-> IF d[h] = NULL THEN NULL ELSE D!Contents(data[d[h]])]

Abstract == INSTANCE ListValues WITH value <- Lists

(* What each operation that writes does to the list                        *)
Means(h) ==
  /\ \A v \in Values :
       /\ append(h, v) => Abstract!Insert(h, Count(d[h]), v)
       /\ \A i \in Places : insert(h, i, v) => Abstract!Insert(h, i, v)
  /\ \A g \in Handles : appendList(h, g) => Abstract!Extend(h, g)
  /\ \A i, j \in Places :
       /\ remove(h, i) => Abstract!RemoveRange(h, i, 1)
       /\ removeMany(h, i, j) => Abstract!RemoveRange(h, i, j)
       /\ move(h, i, j) => Abstract!Move(h, i, j)

(* Shared or not, each handle behaves as a list of its own, and every      *)
(* operation does to that list what its name says, through every choice of *)
(* which cells to move and when to grow.                                   *)
ImplementsValues == Abstract!Spec /\ [][\A h \in Handles : Means(h)]_vars
=============================================================================
