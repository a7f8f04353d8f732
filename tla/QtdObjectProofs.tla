--------------------------- MODULE QtdObjectProofs ---------------------------
(***************************************************************************)
(* Proofs about PinList and QtdObject for any sets of natives and          *)
(* wrappers.  Everything past the type correctness of the list assumes     *)
(* that no wrapper is pinned twice: without that the list loses wrappers   *)
(* (run repin).                                                            *)
(***************************************************************************)
EXTENDS QtdObject, TLAPS

-----------------------------------------------------------------------------
(* The pin list. *)

(* A wrapper that was never pinned still has the pointers it was built     *)
(* with; qtdPin relies on it, since it leaves _prev alone.                 *)
Fresh ==
  /\ Pinned \subseteq pinnedBefore
  /\ \A w \in Wrappers \ pinnedBefore : next[w] = NULL /\ prev[w] = NULL

NextClosed(S) ==
  /\ {root} \ {NULL} \subseteq S
  /\ \A w \in S : {next[w]} \ {NULL} \subseteq S

(* Walking _next from _root passes every pinned wrapper.  Said with closed *)
(* sets, it needs no induction on the length of the list.                  *)
WalkFindsPinned == \A S \in SUBSET Wrappers : NextClosed(S) => Pinned \subseteq S

ListInv == ListTypeOK /\ Fresh /\ WellLinked /\ WalkFindsPinned

-----------------------------------------------------------------------------
LEMMA InitEstablishesInv == ListInit => ListInv
  BY PinListAssumption
  DEF ListInit, ListInv, ListTypeOK, Fresh, WellLinked, WalkFindsPinned, NextClosed, Pinned

LEMMA PinKeepsType ==
  ASSUME ListTypeOK, NEW w \in Wrappers, qtdPin(w)
  PROVE  ListTypeOK'
  BY PinListAssumption DEF ListTypeOK, qtdPin

LEMMA UnpinKeepsType ==
  ASSUME ListTypeOK, NEW w \in Wrappers, qtdUnpin(w)
  PROVE  ListTypeOK'
  BY PinListAssumption DEF ListTypeOK, qtdUnpin

(* Type correctness of the list (d2/qtd/QtdObject.d, qtdPin and qtdUnpin), *)
(* whether or not wrappers are pinned again.                               *)
THEOREM ListTypeCorrect == ListSpec => []ListTypeOK
  <1>1. ListInit => ListTypeOK
    BY PinListAssumption DEF ListInit, ListTypeOK
  <1>2. ListTypeOK /\ [ListNext]_listVars => ListTypeOK'
    <2>1. ASSUME ListTypeOK, UNCHANGED listVars PROVE ListTypeOK'
      BY <2>1 DEF ListTypeOK, listVars
    <2>2. QED
      BY <2>1, PinKeepsType, UnpinKeepsType DEF ListNext
  <1>3. QED
    BY <1>1, <1>2, PTL DEF ListSpec

-----------------------------------------------------------------------------
(* The wrapper a first qtdPin is called on is in nobody's way: it is not   *)
(* pinned, its pointers are null, and no pinned wrapper points at it.      *)
LEMMA FirstPin ==
  ASSUME ~AllowRepin, ListInv, NEW w \in Wrappers, qtdPin(w)
  PROVE  /\ ~pinned[w] /\ next[w] = NULL /\ prev[w] = NULL /\ root # w
         /\ \A u \in Pinned : next[u] # w /\ prev[u] # w
  BY PinListAssumption DEF qtdPin, ListInv, Fresh, WellLinked, ListTypeOK, Pinned

LEMMA PinKeepsWellLinked ==
  ASSUME ~AllowRepin, ListInv, NEW w \in Wrappers, qtdPin(w)
  PROVE  WellLinked'
  <1> USE PinListAssumption
  <1>1. ListTypeOK /\ WellLinked
    BY DEF ListInv
  <1>2. root' = w /\ pinned'[w]
    BY <1>1 DEF qtdPin, ListTypeOK
  <1> SUFFICES ASSUME NEW u \in Wrappers, pinned'[u]
               PROVE  /\ prev'[u] = NULL <=> root' = u
                      /\ next'[u] # NULL => pinned'[next'[u]] /\ prev'[next'[u]] = u
                      /\ prev'[u] # NULL => pinned'[prev'[u]] /\ next'[prev'[u]] = u
    BY <1>2 DEF WellLinked, Pinned
  <1>3. CASE u = w
    <2>1. next'[w] = root /\ prev[w] = NULL /\ root # w
      BY <1>1, FirstPin DEF qtdPin, ListTypeOK
    <2>2. prev'[w] = NULL
      BY <1>1, <2>1 DEF qtdPin, ListTypeOK
    <2>3. ASSUME root # NULL PROVE pinned'[root] /\ prev'[root] = w
      BY <1>1, <2>3 DEF qtdPin, ListTypeOK, WellLinked
    <2>4. QED
      BY <1>2, <1>3, <2>1, <2>2, <2>3
  <1>4. CASE u # w
    <2>1. pinned[u] /\ u \in Pinned /\ next'[u] = next[u]
      BY <1>1, <1>4 DEF qtdPin, ListTypeOK, Pinned
    <2>2. prev'[u] = IF root = u THEN w ELSE prev[u]
      BY <1>1, <1>4 DEF qtdPin, ListTypeOK
    <2>3. prev'[u] = NULL <=> root' = u
      BY <1>1, <1>2, <1>4, <2>1, <2>2 DEF WellLinked
    <2>4. ASSUME next[u] # NULL
          PROVE  pinned'[next[u]] /\ prev'[next[u]] = u
      <3>1. pinned[next[u]] /\ prev[next[u]] = u /\ next[u] \in Wrappers
        BY <1>1, <2>1, <2>4 DEF WellLinked, ListTypeOK
      <3>2. next[u] # root
        BY <1>1, <3>1 DEF WellLinked, Pinned
      <3>3. QED
        BY <1>1, <3>1, <3>2 DEF qtdPin, ListTypeOK
    <2>5. ASSUME prev'[u] # NULL
          PROVE  pinned'[prev'[u]] /\ next'[prev'[u]] = u
      BY <1>1, <1>2, <1>4, <2>1, <2>2, <2>5, FirstPin
      DEF qtdPin, ListTypeOK, WellLinked, Pinned
    <2>6. QED
      BY <2>1, <2>3, <2>4, <2>5
  <1>5. QED
    BY <1>3, <1>4

LEMMA UnpinKeepsWellLinked ==
  ASSUME ListInv, NEW w \in Wrappers, qtdUnpin(w)
  PROVE  WellLinked'
  <1> USE PinListAssumption
  <1>1. ListTypeOK /\ WellLinked
    BY DEF ListInv
  <1>2. root' # NULL => pinned'[root']
    BY <1>1 DEF qtdUnpin, ListTypeOK, WellLinked, Pinned
  <1> SUFFICES ASSUME NEW u \in Wrappers, pinned'[u]
               PROVE  /\ prev'[u] = NULL <=> root' = u
                      /\ next'[u] # NULL => pinned'[next'[u]] /\ prev'[next'[u]] = u
                      /\ prev'[u] # NULL => pinned'[prev'[u]] /\ next'[prev'[u]] = u
    BY <1>2 DEF WellLinked, Pinned
  <1>3. u # w /\ pinned[u] /\ pinned[w]
    BY <1>1 DEF qtdUnpin, ListTypeOK
  <1>4. prev'[u] = NULL <=> root' = u
    BY <1>1, <1>3 DEF qtdUnpin, ListTypeOK, WellLinked, Pinned
  <1>5. next'[u] # NULL => pinned'[next'[u]] /\ prev'[next'[u]] = u
    BY <1>1, <1>3 DEF qtdUnpin, ListTypeOK, WellLinked, Pinned
  <1>6. prev'[u] # NULL => pinned'[prev'[u]] /\ next'[prev'[u]] = u
    BY <1>1, <1>3 DEF qtdUnpin, ListTypeOK, WellLinked, Pinned
  <1>7. QED
    BY <1>4, <1>5, <1>6

LEMMA PinKeepsWalk ==
  ASSUME ~AllowRepin, ListInv, NEW w \in Wrappers, qtdPin(w)
  PROVE  WalkFindsPinned'
  <1> USE PinListAssumption
  <1> SUFFICES ASSUME NEW S \in SUBSET Wrappers, NextClosed(S)'
               PROVE  Pinned' \subseteq S
    BY DEF WalkFindsPinned
  <1>1. ListTypeOK
    BY DEF ListInv
  <1>2. w \in S
    BY <1>1 DEF NextClosed, qtdPin
  <1>3. \A u \in Wrappers : u # w => next'[u] = next[u]
    BY <1>1 DEF qtdPin, ListTypeOK
  <1>4. next'[w] = root
    BY <1>1 DEF qtdPin, ListTypeOK
  <1>5. NextClosed(S)
    BY <1>1, <1>2, <1>3, <1>4, FirstPin DEF NextClosed
  <1>6. Pinned \subseteq S
    BY <1>5 DEF ListInv, WalkFindsPinned
  <1>7. Pinned' \subseteq Pinned \cup {w}
    BY <1>1 DEF qtdPin, ListTypeOK, Pinned
  <1>8. QED
    BY <1>2, <1>6, <1>7

LEMMA UnpinKeepsWalk ==
  ASSUME ListInv, NEW w \in Wrappers, qtdUnpin(w)
  PROVE  WalkFindsPinned'
  <1> USE PinListAssumption
  <1> SUFFICES ASSUME NEW S \in SUBSET Wrappers, NextClosed(S)'
               PROVE  Pinned' \subseteq S
    BY DEF WalkFindsPinned
  <1>1. ListTypeOK /\ WellLinked /\ WalkFindsPinned
    BY DEF ListInv
  <1>2. pinned[w] /\ Pinned' = Pinned \ {w}
    BY <1>1 DEF qtdUnpin, ListTypeOK, Pinned
  <1> DEFINE T == S \cup {w}
  <1>3. CASE prev[w] = NULL
    <2>1. root = w /\ root' = next[w] /\ next' = next
      BY <1>1, <1>2, <1>3 DEF qtdUnpin, WellLinked, Pinned
    <2>2. NextClosed(T)
      BY <2>1 DEF NextClosed
    <2>3. QED
      BY <2>2, <1>1, <1>2 DEF WalkFindsPinned
  <1>4. CASE prev[w] # NULL
    <2> DEFINE p == prev[w]
    <2>1. p \in Pinned /\ next[p] = w /\ p # NULL /\ p \in Wrappers
      BY <1>1, <1>2, <1>4 DEF WellLinked, Pinned, ListTypeOK
    <2>2. root' = root /\ next' = [next EXCEPT ![p] = next[w]]
      BY <1>4 DEF qtdUnpin
    <2>3. \A u \in Wrappers : u # p => next'[u] = next[u]
      BY <1>1, <2>2 DEF ListTypeOK
    <2>4. next'[p] = next[w]
      BY <1>1, <2>1, <2>2 DEF ListTypeOK
    <2>5. p \in S
      <3> SUFFICES ASSUME p \notin S PROVE FALSE
        OBVIOUS
      <3>1. NextClosed(S)
        BY <2>2, <2>3 DEF NextClosed
      <3>2. QED
        BY <3>1, <2>1, <1>1 DEF WalkFindsPinned
    <2>6. {root} \ {NULL} \subseteq T
      BY <2>2 DEF NextClosed
    <2>7. ASSUME NEW u \in T PROVE {next[u]} \ {NULL} \subseteq T
      <3>1. CASE u = p
        BY <3>1, <2>1
      <3>2. CASE u # p /\ u \in S
        BY <3>2, <2>3 DEF NextClosed
      <3>3. CASE u = w
        BY <3>3, <2>4, <2>5 DEF NextClosed
      <3>4. QED
        BY <3>1, <3>2, <3>3
    <2>8. NextClosed(T)
      BY <2>6, <2>7 DEF NextClosed
    <2>9. QED
      BY <2>8, <1>1, <1>2 DEF WalkFindsPinned
  <1>5. QED
    BY <1>3, <1>4

-----------------------------------------------------------------------------
LEMMA StepKeepsInv ==
  ASSUME ~AllowRepin, ListInv, [ListNext]_listVars
  PROVE  ListInv'
  <1> USE PinListAssumption
  <1>1. ASSUME NEW w \in Wrappers, qtdPin(w) PROVE ListInv'
    <2>1. Fresh'
      BY <1>1 DEF qtdPin, Fresh, WellLinked, ListInv, ListTypeOK, Pinned
    <2>2. QED
      BY <1>1, <2>1, PinKeepsType, PinKeepsWellLinked, PinKeepsWalk DEF ListInv
  <1>2. ASSUME NEW w \in Wrappers, qtdUnpin(w) PROVE ListInv'
    <2>1. ListTypeOK /\ WellLinked /\ Fresh
      BY DEF ListInv
    <2>2. Pinned' \subseteq Pinned /\ pinnedBefore' = pinnedBefore /\ w \in Pinned
      BY <1>2, <2>1 DEF qtdUnpin, ListTypeOK, Pinned
    <2>3. ASSUME NEW u \in Wrappers \ pinnedBefore
          PROVE  next'[u] = NULL /\ prev'[u] = NULL
      <3>1. u \notin Pinned /\ next[u] = NULL /\ prev[u] = NULL
        BY <2>1 DEF Fresh
      <3>2. u # prev[w] /\ u # next[w]
        BY <2>1, <2>2, <3>1 DEF WellLinked, Pinned
      <3>3. QED
        BY <1>2, <2>1, <3>1, <3>2 DEF qtdUnpin, ListTypeOK
    <2>4. Fresh'
      BY <2>1, <2>2, <2>3 DEF Fresh
    <2>5. QED
      BY <1>2, <2>4, UnpinKeepsType, UnpinKeepsWellLinked, UnpinKeepsWalk DEF ListInv
  <1>3. CASE UNCHANGED listVars
    BY <1>3 DEF listVars, ListInv, ListTypeOK, Fresh, WellLinked, WalkFindsPinned,
                NextClosed, Pinned
  <1>4. QED
    BY <1>1, <1>2, <1>3 DEF ListNext

LEMMA InvHolds ==
  ASSUME ~AllowRepin
  PROVE  ListSpec => []ListInv
  <1>1. ListInv /\ [ListNext]_listVars => ListInv'
    BY StepKeepsInv
  <1>2. QED
    BY InitEstablishesInv, <1>1, PTL DEF ListSpec

(* The neighbours in the list of qtdPin and qtdUnpin always agree about    *)
(* each other, so that any wrapper can be taken out from anywhere.         *)
THEOREM ListWellLinked ==
  ASSUME ~AllowRepin
  PROVE  ListSpec => []WellLinked
  <1>1. ListInv => WellLinked
    BY DEF ListInv
  <1>2. QED
    BY InvHolds, <1>1, PTL

-----------------------------------------------------------------------------
(* What the collector reaches from _root is what is pinned. *)
LEMMA ShieldedIsPinned ==
  ASSUME ListInv
  PROVE  Shielded = Pinned
  <1> USE PinListAssumption
  <1>1. ASSUME NEW S \in SUBSET Wrappers, Closed(S, {root} \ {NULL})
        PROVE  Pinned \subseteq S
    <2>1. NextClosed(S)
      BY <1>1 DEF Closed, NextClosed
    <2>2. QED
      BY <2>1 DEF ListInv, WalkFindsPinned
  <1>2. Pinned \subseteq Shielded
    BY <1>1 DEF Shielded, Marked, Pinned
  <1>3. Closed(Pinned, {root} \ {NULL})
    <2>1. ListTypeOK /\ WellLinked
      BY DEF ListInv
    <2>2. {root} \ {NULL} \subseteq Pinned
      BY <2>1 DEF ListTypeOK, WellLinked, Pinned
    <2>3. ASSUME NEW u \in Pinned PROVE {next[u], prev[u]} \ {NULL} \subseteq Pinned
      <3>1. u \in Wrappers
        BY DEF Pinned
      <3>2. QED
        BY <2>1, <2>3, <3>1 DEF ListTypeOK, WellLinked, Pinned
    <2>4. QED
      BY <2>2, <2>3 DEF Closed
  <1>4. Pinned \in SUBSET Wrappers
    BY DEF Pinned
  <1>5. Shielded \subseteq Pinned
    BY <1>3, <1>4 DEF Shielded, Marked
  <1>6. QED
    BY <1>2, <1>5

(* qtdPin "Disables GC for this object" (line 118): the collector reaches  *)
(* every pinned wrapper from _root.                                        *)
THEOREM PinnedIsKept ==
  ASSUME ~AllowRepin
  PROVE  ListSpec => []GCKeepsPinned
  <1>1. ListInv => GCKeepsPinned
    BY ShieldedIsPinned DEF GCKeepsPinned
  <1>2. QED
    BY InvHolds, <1>1, PTL

(* qtdUnpin "Enables GC for this object" (line 150): _root keeps nothing   *)
(* alive that is not pinned.                                               *)
THEOREM UnpinnedIsReleased ==
  ASSUME ~AllowRepin
  PROVE  ListSpec => []GCReleasesUnpinned
  <1>1. ListInv => GCReleasesUnpinned
    BY ShieldedIsPinned DEF GCReleasesUnpinned
  <1>2. QED
    BY InvHolds, <1>1, PTL

(* Every step of the list shields or releases exactly the wrapper the call *)
(* was made on: the list implements the set of PinnedSet.                  *)
THEOREM ListImplementsPinnedSet ==
  ASSUME ~AllowRepin
  PROVE  ListSpec => ImplementsPinnedSet
  <1> USE PinListAssumption
  <1>1. ListInit => PS!Init
    <2> SUFFICES ASSUME ListInit PROVE Shielded = {}
      BY DEF PS!Init
    <2>1. ListInv
      BY InitEstablishesInv
    <2>2. Pinned = {}
      BY DEF ListInit, Pinned
    <2>3. QED
      BY <2>1, <2>2, ShieldedIsPinned
  <1>2. ListInv => Shielded = Pinned
    BY ShieldedIsPinned
  <1>3. (ListInv => Shielded = Pinned)'
    BY <1>2, PTL
  <1>4. ListInv /\ ListInv' /\ [ListNext]_listVars => [PS!Next]_Shielded
    <2> SUFFICES ASSUME ListInv, ListInv', [ListNext]_listVars
                 PROVE  [PS!Next]_Shielded
      OBVIOUS
    <2>1. Shielded = Pinned /\ ListTypeOK
      BY ShieldedIsPinned DEF ListInv
    <2>2. Shielded' = Pinned'
      BY <1>3
    <2>3. ASSUME NEW w \in Wrappers, qtdPin(w) PROVE PS!Disable(w)
      <3>1. w \notin Pinned /\ Pinned' = Pinned \cup {w}
        BY <2>1, <2>3 DEF qtdPin, ListTypeOK, Pinned
      <3>2. QED
        BY <2>1, <2>2, <3>1 DEF PS!Disable
    <2>4. ASSUME NEW w \in Wrappers, qtdUnpin(w) PROVE PS!Enable(w)
      <3>1. w \in Pinned /\ Pinned' = Pinned \ {w}
        BY <2>1, <2>4 DEF qtdUnpin, ListTypeOK, Pinned
      <3>2. QED
        BY <2>1, <2>2, <3>1 DEF PS!Enable
    <2>5. ASSUME UNCHANGED listVars PROVE UNCHANGED Shielded
      <3>1. Pinned' = Pinned
        BY <2>5 DEF listVars, Pinned
      <3>2. QED
        BY <2>1, <2>2, <3>1
    <2>6. QED
      BY <2>3, <2>4, <2>5 DEF ListNext, PS!Next
  <1>5. QED
    BY InvHolds, <1>1, <1>4, PTL DEF ListSpec, ImplementsPinnedSet, PS!Spec

-----------------------------------------------------------------------------
(* The objects. *)

(* The stack numbered from the outermost destructor, so that calls and     *)
(* returns leave the numbers of the others alone: whose destructor each    *)
(* frame is, and where it is.                                              *)
Depth == Len(stack)
Who   == [k \in 1 .. Len(stack) |-> stack[Len(stack) + 1 - k].id]
Where == [k \in 1 .. Len(stack) |-> stack[Len(stack) + 1 - k].at]

-----------------------------------------------------------------------------
(* The inductive invariant. *)

(* Frame k is the destructor of wrapper w, not called by that of w's       *)
(* native: at "body" it has still to delete the native, at "unpin" it has  *)
(* called for it.                                                          *)
Begun(k, w)  == Who[k] = w /\ Where[k] = "body" /\ ~nativeDeleteDisabled[w]
Called(k, w) == Who[k] = w /\ Where[k] = "unpin" /\ ~nativeDeleteDisabled[w]

(* D code may still use the wrapper, if only from its own destructor.      *)
Usable(w) == wstate[w] = "alive" \/ \E k \in 1 .. Depth : Begun(k, w)

(* n is neither d nor an ancestor of d: a set closed under parents holds d *)
(* and not n.                                                              *)
Apart(par, d, n) ==
  \E S \in SUBSET Natives : /\ d \in S /\ n \notin S
                           /\ \A m \in S : {par[m]} \ {NULL} \subseteq S

(* What exists has a kind, only QObjects are in trees, and a wrapper has   *)
(* the native it was made for.                                             *)
Exist ==
  /\ \A n \in Natives : kind[n] = "none" <=> nstate[n] = "none"
  /\ \A n \in Natives : parent[n] # NULL => IsQObject(n) /\ IsQObject(parent[n])
  /\ \A w \in Wrappers : nativeId[w] = NULL <=> wstate[w] = "none"
  /\ \A w \in Wrappers, n \in Natives : nativeId[w] = n => kind[n] # "none"

(* A link leads to a wrapper of its own native. *)
Links ==
  \A n \in Natives :
    /\ link[n] # NULL => nativeId[link[n]] = n /\ kind[n] # "plain"
    /\ nstate[n] = "dead" => link[n] = NULL
    /\ kind[n] = "shell" /\ nstate[n] = "alive" => link[n] # NULL

(* What a wrapper's flags say of its life. *)
Flags ==
  \A w \in Wrappers :
    /\ wstate[w] = "none" => ~nativeDeleteDisabled[w] /\ ~pinned[w]
    /\ wstate[w] \in {"none", "alive"} => ~wrapperDeleteDisabled[w]
    /\ wstate[w] = "dead" => ~pinned[w]
    /\ \A n \in Natives : nativeId[w] = n =>
         /\ nativeDeleteDisabled[w] => kind[n] # "poly"
         /\ nativeDeleteDisabled[w] /\ IsQObject(n) => wstate[w] \in {"dying", "dead"}
         /\ wstate[w] = "alive" /\ IsQObject(n) => pinned[w]

(* An object is being destroyed exactly while it has a frame, and it has   *)
(* one.                                                                    *)
FramesFit ==
  /\ \A j, k \in 1 .. Depth : Who[j] = Who[k] => j = k
  /\ \A n \in Natives : nstate[n] = "dying" <=> \E k \in 1 .. Depth : Who[k] = n
  /\ \A w \in Wrappers : wstate[w] = "dying" <=> \E k \in 1 .. Depth : Who[k] = w

(* Only QObjects have more than one step to their destruction. *)
NativeFrames ==
  \A k \in 1 .. Depth, n \in Natives : Who[k] = n =>
    /\ Where[k] # "end" => IsQObject(n)
    /\ Where[k] = "shell" => link[n] # NULL

(* The two destructors of a pair lie next to each other on the stack, the  *)
(* one that was called on top of its caller.                               *)
WrapperFrames ==
  \A k \in 1 .. Depth, w \in Wrappers, n \in Natives : nativeId[w] = n =>
    /\ Begun(k, w) => nstate[n] = "alive"
    /\ Called(k, w) => wrapperDeleteDisabled[w]
    /\ Called(k, w) => nstate[n] = "dead" \/ (k < Depth /\ Who[k + 1] = n)
    /\ Who[k] = w /\ nativeDeleteDisabled[w] /\ IsQObject(n) =>
         k > 1 /\ Who[k - 1] = n /\ Where[k - 1] \in {"unlink", "end"}

(* What an inner destructor deletes is no ancestor of what an outer one    *)
(* has still to delete.                                                    *)
Ordered ==
  \A w \in Wrappers, j, k \in 1 .. Depth : j < k /\ Begun(j, w) =>
    /\ Who[k] \in Natives => Apart(parent, nativeId[w], Who[k])
    /\ \A v \in Wrappers : Begun(k, v) => Apart(parent, nativeId[w], nativeId[v])

(* A QObject's wrapper is the one it links to, until either is gone. *)
Linked ==
  \A n \in Natives :
    /\ \A w \in Wrappers : nativeId[w] = n /\ IsQObject(n) =>
         /\ Usable(w) => link[n] = w
         /\ wstate[w] = "alive" =>
              \/ nstate[n] = "alive"
              \/ \E k \in 1 .. Depth : Who[k] = n /\ Where[k] \in {"shell", "children", "userData"}
    /\ link[n] # NULL /\ wstate[link[n]] = "dead" =>
         Depth > 0 /\ Who[Depth] = n /\ Where[Depth] \in {"unlink", "end"}

(* Another native has one D owner at most, and exists while it has one. *)
Owners ==
  \A n \in Natives, w \in Wrappers : nativeId[w] = n =>
    /\ \A v \in Wrappers : nativeId[v] = n =>
         /\ kind[n] = "poly" => v = w
         /\ (/\ kind[n] = "plain" /\ Usable(v) /\ Usable(w)
             /\ ~nativeDeleteDisabled[v] /\ ~nativeDeleteDisabled[w]) => v = w
    /\ wstate[w] = "alive" =>
         /\ kind[n] = "plain" /\ ~nativeDeleteDisabled[w] => nstate[n] = "alive"
         /\ kind[n] = "poly" /\ ~pinned[w] => nstate[n] = "alive"

(* A QObject's children go before it does. *)
Orphans ==
  \A c, n \in Natives :
    /\ parent[c] = n
    /\ nstate[n] = "dead" \/ \E k \in 1 .. Depth : Who[k] = n /\ Where[k] \in {"userData", "end"}
    => nstate[c] # "alive"

Shape == /\ Exist /\ Links /\ Flags /\ FramesFit /\ NativeFrames
         /\ WrapperFrames /\ Ordered /\ Linked /\ Owners /\ Orphans

ObjectInv == TypeOK /\ ListInv /\ Shape

-----------------------------------------------------------------------------
(* The steps of the stack in these terms.  Same and Last serve the lemmas  *)
(* about sequences; the others are what the actions are proved from.       *)
Same(depth)  == \A k \in 1 .. depth : Who'[k] = Who[k] /\ Where'[k] = Where[k]
Last(id, pc) == Who[Depth] = id /\ Where[Depth] = pc

Still == Depth' = Depth /\ Who' = Who /\ Where' = Where

(* A destructor is called, ... *)
Pushed(id, pc) ==
  /\ Depth' = Depth + 1
  /\ \A k \in 1 .. Depth : k \in 1 .. Depth' /\ Who'[k] = Who[k] /\ Where'[k] = Where[k]
  /\ Depth' \in 1 .. Depth' /\ Who'[Depth'] = id /\ Where'[Depth'] = pc
  /\ \A k \in 1 .. Depth' : k = Depth' \/ (k \in 1 .. Depth /\ k < Depth')

(* ... the running destructor goes on to pc, ... *)
Moved(pc) ==
  /\ Depth' = Depth
  /\ \A k \in 1 .. Depth : Who'[k] = Who[k]
  /\ \A k \in 1 .. Depth : k # Depth => Where'[k] = Where[k]
  /\ Where'[Depth] = pc

(* ... goes on to `at` once the destructor of id returns, ... *)
MovedPushed(at, id, pc) ==
  /\ Depth' = Depth + 1
  /\ \A k \in 1 .. Depth : k \in 1 .. Depth' /\ Who'[k] = Who[k]
  /\ \A k \in 1 .. Depth : k # Depth => Where'[k] = Where[k]
  /\ Where'[Depth] = at
  /\ Depth' \in 1 .. Depth' /\ Who'[Depth'] = id /\ Where'[Depth'] = pc
  /\ \A k \in 1 .. Depth' : k = Depth' \/ (k \in 1 .. Depth /\ k < Depth')

(* ... or returns. *)
Popped ==
  /\ Depth' = Depth - 1
  /\ \A k \in 1 .. Depth' : k \in 1 .. Depth /\ k # Depth /\ Who'[k] = Who[k] /\ Where'[k] = Where[k]
  /\ \A k \in 1 .. Depth : k = Depth \/ k \in 1 .. Depth'

LEMMA StackTypes ==
  ASSUME stack \in Seq(Frames)
  PROVE  /\ Depth \in Nat
         /\ \A k \in 1 .. Depth :
              \/ Who[k] \in Wrappers /\ Where[k] \in {"body", "unpin"}
              \/ Who[k] \in Natives
                 /\ Where[k] \in {"shell", "unlink", "children", "userData", "end"}
  BY DEF Depth, Who, Where, Frames

LEMMA RunningIsLast ==
  ASSUME stack \in Seq(Frames), NEW fn, NEW id, NEW pc, Running(fn, id, pc)
  PROVE  Depth > 0 /\ Last(id, pc)
  BY DEF Running, Depth, Who, Where, Last

(* The four ways the actions change the stack. *)
LEMMA Call ==
  ASSUME stack \in Seq(Frames), NEW f \in Frames, stack' = <<f>> \o stack
  PROVE  Depth' = Depth + 1 /\ Same(Depth) /\ Last(f.id, f.at)'
  <1>1. Len(stack') = Len(stack) + 1 /\ Len(stack) \in Nat
    OBVIOUS
  <1>2. stack'[1] = f /\ \A i \in 1 .. Len(stack) : stack'[i + 1] = stack[i]
    OBVIOUS
  <1>3. ASSUME NEW k \in 1 .. Len(stack)
        PROVE  stack'[Len(stack') + 1 - k] = stack[Len(stack) + 1 - k]
    <2>1. Len(stack) + 1 - k \in 1 .. Len(stack)
      BY <1>1
    <2>2. Len(stack') + 1 - k = (Len(stack) + 1 - k) + 1
      BY <1>1
    <2>3. QED
      BY <2>1, <2>2, <1>2
  <1>4. Same(Depth)
    BY <1>1, <1>3 DEF Same, Depth, Who, Where
  <1>5. Last(f.id, f.at)'
    BY <1>1, <1>2 DEF Last, Depth, Who, Where
  <1>6. QED
    BY <1>1, <1>4, <1>5 DEF Depth

LEMMA Return ==
  ASSUME stack \in Seq(Frames), Depth > 0, stack' = Tail(stack)
  PROVE  Depth' = Depth - 1 /\ Same(Depth')
  <1>1. Len(stack') = Len(stack) - 1 /\ Len(stack) \in Nat /\ Len(stack) > 0
    BY DEF Depth
  <1>2. \A i \in 1 .. Len(stack') : stack'[i] = stack[i + 1]
    BY DEF Depth
  <1>3. ASSUME NEW k \in 1 .. Len(stack')
        PROVE  stack'[Len(stack') + 1 - k] = stack[Len(stack) + 1 - k]
    <2>1. Len(stack') + 1 - k \in 1 .. Len(stack')
      BY <1>1
    <2>2. Len(stack) + 1 - k = (Len(stack') + 1 - k) + 1
      BY <1>1
    <2>3. QED
      BY <2>1, <2>2, <1>2
  <1>4. Same(Depth')
    BY <1>1, <1>3 DEF Same, Depth, Who, Where
  <1>5. QED
    BY <1>1, <1>4 DEF Depth

LEMMA Goto ==
  ASSUME stack \in Seq(Frames), NEW fn, NEW id, NEW at, NEW pc, Running(fn, id, at),
         stack' = <<At(pc)>> \o Tail(stack)
  PROVE  Depth' = Depth /\ Same(Depth - 1) /\ Last(id, pc)'
  <1>1. Len(stack') = Len(stack) /\ Len(stack) \in Nat /\ Len(stack) > 0
    BY DEF Running
  <1>2. stack'[1] = At(pc) /\ \A i \in 2 .. Len(stack) : stack'[i] = stack[i]
    BY DEF Running
  <1>3. At(pc).id = id /\ At(pc).at = pc
    BY DEF At, Running
  <1>4. ASSUME NEW k \in 1 .. Len(stack) - 1
        PROVE  stack'[Len(stack') + 1 - k] = stack[Len(stack) + 1 - k]
    BY <1>1, <1>2
  <1>5. Same(Depth - 1)
    BY <1>1, <1>4 DEF Same, Depth, Who, Where
  <1>6. Last(id, pc)'
    BY <1>1, <1>2, <1>3 DEF Last, Depth, Who, Where
  <1>7. QED
    BY <1>1, <1>5, <1>6 DEF Depth

LEMMA GotoCall ==
  ASSUME stack \in Seq(Frames), NEW fn, NEW id, NEW at, NEW pc, Running(fn, id, at),
         NEW f \in Frames, stack' = <<f>> \o (<<At(pc)>> \o Tail(stack))
  PROVE  /\ Depth' = Depth + 1 /\ Same(Depth - 1) /\ Last(f.id, f.at)'
         /\ Who'[Depth] = id /\ Where'[Depth] = pc
  <1>1. Len(stack') = Len(stack) + 1 /\ Len(stack) \in Nat /\ Len(stack) > 0
    BY DEF Running
  <1>2. stack'[1] = f /\ stack'[2] = At(pc)
        /\ \A i \in 2 .. Len(stack) : stack'[i + 1] = stack[i]
    BY DEF Running
  <1>3. At(pc).id = id /\ At(pc).at = pc
    BY DEF At, Running
  <1>4. ASSUME NEW k \in 1 .. Len(stack) - 1
        PROVE  stack'[Len(stack') + 1 - k] = stack[Len(stack) + 1 - k]
    <2>1. Len(stack) + 1 - k \in 2 .. Len(stack)
      BY <1>1
    <2>2. Len(stack') + 1 - k = (Len(stack) + 1 - k) + 1
      BY <1>1
    <2>3. QED
      BY <2>1, <2>2, <1>2
  <1>5. Same(Depth - 1)
    BY <1>1, <1>4 DEF Same, Depth, Who, Where
  <1>6. Last(f.id, f.at)' /\ Who'[Depth] = id /\ Where'[Depth] = pc
    BY <1>1, <1>2, <1>3 DEF Last, Depth, Who, Where
  <1>7. QED
    BY <1>1, <1>5, <1>6 DEF Depth

(* The types the proofs of single actions use, those of frames included. *)
Typed ==
  /\ kind \in [Natives -> Kinds]
  /\ nstate \in [Natives -> Life]
  /\ parent \in [Natives -> Natives \cup {NULL}]
  /\ link \in [Natives -> Wrappers \cup {NULL}]
  /\ wstate \in [Wrappers -> Life]
  /\ nativeId \in [Wrappers -> Natives \cup {NULL}]
  /\ nativeDeleteDisabled \in [Wrappers -> BOOLEAN]
  /\ wrapperDeleteDisabled \in [Wrappers -> BOOLEAN]
  /\ pinned \in [Wrappers -> BOOLEAN]
  /\ Depth \in Nat
  /\ \A k \in 1 .. Depth :
       \/ Who[k] \in Wrappers /\ Where[k] \in {"body", "unpin"}
       \/ Who[k] \in Natives /\ Where[k] \in {"shell", "unlink", "children", "userData", "end"}

LEMMA TypedHolds ==
  ASSUME TypeOK
  PROVE  Typed
  BY StackTypes DEF TypeOK, ListTypeOK, Typed

LEMMA Stays ==
  ASSUME stack' = stack
  PROVE  Still
  BY DEF Still, Depth, Who, Where

LEMMA CallPushes ==
  ASSUME TypeOK, NEW f \in Frames, stack' = <<f>> \o stack
  PROVE  Pushed(f.id, f.at)
  <1>1. Depth' = Depth + 1 /\ Same(Depth) /\ Last(f.id, f.at)' /\ Depth \in Nat
    BY Call, StackTypes DEF TypeOK
  <1>2. QED
    BY <1>1 DEF Pushed, Same, Last

LEMMA GotoMoves ==
  ASSUME TypeOK, NEW fn, NEW id, NEW at, NEW pc, Running(fn, id, at),
         stack' = <<At(pc)>> \o Tail(stack)
  PROVE  Moved(pc)
  <1>1. Depth' = Depth /\ Same(Depth - 1) /\ Last(id, pc)' /\ Last(id, at)
        /\ Depth \in Nat /\ Depth > 0
    BY Goto, RunningIsLast, StackTypes DEF TypeOK
  <1>2. QED
    BY <1>1 DEF Moved, Same, Last

LEMMA GotoCallMovesPushes ==
  ASSUME TypeOK, NEW fn, NEW id, NEW at, NEW pc, Running(fn, id, at),
         NEW f \in Frames, stack' = <<f>> \o (<<At(pc)>> \o Tail(stack))
  PROVE  MovedPushed(pc, f.id, f.at)
  <1>1. /\ Depth' = Depth + 1 /\ Same(Depth - 1) /\ Last(f.id, f.at)'
        /\ Who'[Depth] = id /\ Where'[Depth] = pc
        /\ Last(id, at) /\ Depth \in Nat /\ Depth > 0
    BY GotoCall, RunningIsLast, StackTypes DEF TypeOK
  <1>2. QED
    BY <1>1 DEF MovedPushed, Same, Last

LEMMA ReturnPops ==
  ASSUME TypeOK, Depth > 0, stack' = Tail(stack)
  PROVE  Popped
  <1>1. Depth' = Depth - 1 /\ Same(Depth') /\ Depth \in Nat
    BY Return, StackTypes DEF TypeOK
  <1>2. QED
    BY <1>1 DEF Popped, Same

(* Where C++ enters the destructor of a native. *)
LEMMA Entries ==
  ASSUME NEW n \in Natives
  PROVE  /\ DeleteEntry(n) \in {"shell", "children", "end"}
         /\ DeleteEntry(n) = "shell" <=> kind[n] = "shell"
         /\ DeleteEntry(n) = "end" <=> ~IsQObject(n)
  BY DEF DeleteEntry, IsQObject

(* A QObject that reaches D exists, or is deleting its children. *)
LEMMA VisibleSeen ==
  ASSUME TypeOK, NEW n \in Natives, Visible(n)
  PROVE  nstate[n] = "alive" \/ \E k \in 1 .. Depth : Who[k] = n /\ Where[k] = "children"
  <1>1. CASE nstate[n] = "alive"
    BY <1>1
  <1>2. ASSUME NEW i \in DOMAIN stack, stack[i].id = n, stack[i].at = "children"
        PROVE  \E k \in 1 .. Depth : Who[k] = n /\ Where[k] = "children"
    <2>1. Len(stack) \in Nat /\ i \in 1 .. Len(stack)
      BY DEF TypeOK
    <2>2. Len(stack) + 1 - i \in 1 .. Len(stack) /\ Len(stack) + 1 - (Len(stack) + 1 - i) = i
      BY <2>1
    <2>3. Who[Len(stack) + 1 - i] = n /\ Where[Len(stack) + 1 - i] = "children"
      BY <2>1, <2>2, <1>2 DEF Who, Where
    <2>4. QED
      BY <2>2, <2>3 DEF Depth
  <1>3. QED
    BY <1>1, <1>2 DEF Visible

-----------------------------------------------------------------------------
LEMMA ApartIsUnequal ==
  ASSUME NEW par, NEW d, NEW n, Apart(par, d, n)
  PROVE  d # n
  BY DEF Apart

(* A native that has just been made is nobody's ancestor. *)
LEMMA ApartKept ==
  ASSUME NEW par \in [Natives -> Natives \cup {NULL}], NEW d \in Natives, NEW n \in Natives,
         NEW m \in Natives, NEW p \in Natives \cup {NULL},
         d # m, \A c \in Natives : par[c] # m, Apart(par, d, n)
  PROVE  Apart([par EXCEPT ![m] = p], d, n)
  <1>1. PICK S \in SUBSET Natives : /\ d \in S /\ n \notin S
                                    /\ \A c \in S : {par[c]} \ {NULL} \subseteq S
    BY DEF Apart
  <1> DEFINE T == S \ {m}
  <1>2. T \in SUBSET Natives /\ d \in T /\ n \notin T
    BY <1>1
  <1>3. ASSUME NEW c \in T PROVE {[par EXCEPT ![m] = p][c]} \ {NULL} \subseteq T
    <2>1. [par EXCEPT ![m] = p][c] = par[c] /\ par[c] # m
      BY <1>2
    <2>2. QED
      BY <2>1, <1>1
  <1>4. QED
    BY <1>2, <1>3 DEF Apart

(* A child is apart from what its parent is apart from. *)
LEMMA ApartChild ==
  ASSUME NEW par, NEW d, NEW n \in Natives, NEW c \in Natives,
         NULL \notin Natives, par[c] = n, Apart(par, d, n)
  PROVE  Apart(par, d, c)
  BY DEF Apart

(* Natives without children are apart from all others. *)
LEMMA ApartLeaf ==
  ASSUME NEW par \in [Natives -> Natives \cup {NULL}], NEW d \in Natives, NEW n \in Natives,
         d # n, \A c \in Natives : par[c] # n
  PROVE  Apart(par, d, n)
  <1>1. \A c \in Natives \ {n} : {par[c]} \ {NULL} \subseteq Natives \ {n}
    OBVIOUS
  <1>2. QED
    BY <1>1 DEF Apart

-----------------------------------------------------------------------------
(* No link leads to a freed wrapper: so it is whenever user code runs. *)
LinksLive == \A n \in Natives : link[n] # NULL => wstate[link[n]] # "dead"

LEMMA UserCodeLinks ==
  ASSUME TypeOK, Shape, UserCode
  PROVE  LinksLive
  <1>1. Depth = 0 \/ (Depth > 0 /\ Where[Depth] \in {"body", "children"})
    <2>1. CASE stack = <<>>
      BY <2>1 DEF Depth
    <2>2. CASE stack # <<>>
      <3>1. Len(stack) \in Nat /\ Len(stack) > 0 /\ Head(stack) = stack[1]
        BY <2>2 DEF TypeOK
      <3>2. Where[Len(stack)] = stack[1].at
        BY <3>1 DEF Where
      <3>3. QED
        BY <2>2, <3>1, <3>2 DEF UserCode, Depth
    <2>3. QED
      BY <2>1, <2>2
  <1>2. QED
    BY <1>1 DEF Shape, Linked, LinksLive

(* The collector, or delete in D, enters the destructor of a wrapper. *)
LEMMA WrapperEntered ==
  ASSUME Typed, Shape, LinksLive, NEW w \in Wrappers, Pushed(w, "body"),
         wstate[w] = "alive", wstate' = [wstate EXCEPT ![w] = "dying"],
         UNCHANGED <<kind, nstate, parent, link, nativeId, pinned>>,
         UNCHANGED <<nativeDeleteDisabled, wrapperDeleteDisabled>>,
         ~nativeDeleteDisabled[w] =>
           /\ nstate[nativeId[w]] = "alive"
           /\ \A j \in 1 .. Depth, v \in Wrappers :
                Begun(j, v) => Apart(parent, nativeId[v], nativeId[w])
  PROVE  Shape'
  <1> USE NativesAssumption, PinListAssumption DEF IsQObject
  <1>1. \A v \in Wrappers : Usable(v)' => Usable(v)
    BY DEF Usable, Begun, Pushed, Typed
  <1>2. \A k \in 1 .. Depth : Who[k] # w
    BY DEF Shape, FramesFit
  <1>3. Exist' /\ Links' /\ Flags' /\ NativeFrames'
    BY DEF Shape, Typed, Exist, Links, Flags, NativeFrames, Pushed
  <1>4. FramesFit'
    <2>1. \A j, k \in 1 .. Depth' : Who'[j] = Who'[k] => j = k
      BY <1>2 DEF Shape, FramesFit, Pushed, Typed
    <2>2. \A n \in Natives : nstate'[n] = "dying" <=> \E k \in 1 .. Depth' : Who'[k] = n
      BY DEF Shape, FramesFit, Pushed, Typed
    <2>3. \A v \in Wrappers : wstate'[v] = "dying" <=> \E k \in 1 .. Depth' : Who'[k] = v
      BY DEF Shape, FramesFit, Pushed, Typed
    <2>4. QED
      BY <2>1, <2>2, <2>3 DEF FramesFit
  <1>5. WrapperFrames'
    BY <1>2 DEF Shape, WrapperFrames, Flags, Begun, Called, Pushed, Typed
  <1>6. Ordered'
    BY <1>2 DEF Shape, Ordered, Begun, Pushed, Typed
  <1>7. Linked'
    <2>1. ASSUME NEW v \in Wrappers, NEW n \in Natives, nativeId[v] = n, wstate'[v] = "alive", IsQObject(n)
          PROVE  \/ nstate'[n] = "alive"
                 \/ \E k \in 1 .. Depth' :
                      Who'[k] = n /\ Where'[k] \in {"shell", "children", "userData"}
      BY <2>1 DEF Shape, Linked, Pushed, Typed
    <2>2. QED
      BY <1>1, <2>1 DEF Shape, Typed, Linked, LinksLive
  <1>8. Owners' /\ Orphans'
    BY <1>1 DEF Shape, Owners, Orphans, Pushed, Typed
  <1>9. QED
    BY <1>3, <1>4, <1>5, <1>6, <1>7, <1>8 DEF Shape

(* C++ enters the destructor of a native. *)
LEMMA NativeEntered ==
  ASSUME Typed, Shape, LinksLive, NEW n \in Natives, Pushed(n, DeleteEntry(n)),
         nstate[n] = "alive", nstate' = [nstate EXCEPT ![n] = "dying"],
         UNCHANGED <<kind, wstate, parent, link, nativeId, pinned>>,
         UNCHANGED <<nativeDeleteDisabled, wrapperDeleteDisabled>>,
         IsQObject(n) \/ \A w \in Wrappers : nativeId[w] = n => ~Owns(w),
         \A j \in 1 .. Depth, v \in Wrappers : Begun(j, v) => Apart(parent, nativeId[v], n)
  PROVE  Shape'
  <1> USE NativesAssumption, PinListAssumption DEF IsQObject
  <1>1. \A v \in Wrappers : Usable(v)' => Usable(v)
    BY DEF Usable, Begun, Pushed, Typed
  <1>2. \A k \in 1 .. Depth : Who[k] # n
    BY DEF Shape, FramesFit
  <1>3. /\ DeleteEntry(n) \in {"shell", "children", "end"}
        /\ DeleteEntry(n) = "shell" <=> kind[n] = "shell"
        /\ DeleteEntry(n) = "end" <=> ~IsQObject(n)
    BY Entries
  <1>4. \A j \in 1 .. Depth, v \in Wrappers : Begun(j, v) => nativeId[v] # n
    BY ApartIsUnequal
  <1>5. Exist' /\ Links' /\ Flags'
    BY DEF Shape, Typed, Exist, Links, Flags
  <1>6. NativeFrames'
    BY <1>3 DEF Shape, Typed, Links, NativeFrames, Pushed
  <1>7. FramesFit'
    <2>1. \A j, k \in 1 .. Depth' : Who'[j] = Who'[k] => j = k
      BY <1>2 DEF Shape, FramesFit, Pushed, Typed
    <2>2. \A m \in Natives : nstate'[m] = "dying" <=> \E k \in 1 .. Depth' : Who'[k] = m
      BY DEF Shape, FramesFit, Pushed, Typed
    <2>3. \A v \in Wrappers : wstate'[v] = "dying" <=> \E k \in 1 .. Depth' : Who'[k] = v
      BY DEF Shape, FramesFit, Pushed, Typed
    <2>4. QED
      BY <2>1, <2>2, <2>3 DEF FramesFit
  <1>8. WrapperFrames'
    BY <1>2, <1>4 DEF Shape, WrapperFrames, Begun, Called, Pushed, Typed
  <1>9. Ordered'
    BY <1>2 DEF Shape, Ordered, Begun, Pushed, Typed
  <1>10. Linked'
    <2>1. ASSUME NEW v \in Wrappers, NEW m \in Natives, nativeId[v] = m, wstate[v] = "alive", IsQObject(m)
          PROVE  \/ nstate'[m] = "alive"
                 \/ \E k \in 1 .. Depth' :
                      Who'[k] = m /\ Where'[k] \in {"shell", "children", "userData"}
      BY <1>3, <2>1 DEF Shape, Linked, Pushed, Typed
    <2>2. QED
      BY <1>1, <2>1 DEF Shape, Typed, Linked, LinksLive
  <1>11. Owners'
    BY <1>1 DEF Shape, Owners, Owns, NativeOwned, Typed
  <1>12. Orphans'
    BY <1>3, <1>2 DEF Shape, Orphans, Exist, Pushed, Typed
  <1>13. QED
    BY <1>5, <1>6, <1>7, <1>8, <1>9, <1>10, <1>11, <1>12 DEF Shape

-----------------------------------------------------------------------------
(* The link's destructor calls D, which has not begun to delete its half. *)
LEMMA LinkWrapperAlive ==
  ASSUME Typed, Shape, NEW n \in Natives, NEW w \in Wrappers, NEW at \in {"shell", "userData"},
         Depth > 0, Last(n, at), link[n] = w, ~wrapperDeleteDisabled[w]
  PROVE  /\ IsQObject(n) /\ nativeId[w] = n /\ wstate[w] = "alive" /\ nstate[n] = "dying"
         /\ \A k \in 1 .. Depth : Who[k] # w
         /\ \A k \in 1 .. Depth, v \in Wrappers : Begun(k, v) => nativeId[v] # n
         /\ \A v \in Wrappers : nativeId[v] = n /\ wstate[v] = "alive" => v = w
  <1> USE NativesAssumption, PinListAssumption DEF IsQObject
  <1>1. IsQObject(n) /\ nativeId[w] = n /\ nstate[n] = "dying" /\ Depth \in 1 .. Depth
    BY DEF Shape, Links, NativeFrames, FramesFit, Last, Typed
  <1>2. wstate[w] # "none" /\ wstate[w] # "dead"
    BY <1>1 DEF Shape, Exist, Linked, Last
  <1>3. \A k \in 1 .. Depth : Who[k] # w
    <2> SUFFICES ASSUME NEW k \in 1 .. Depth, Who[k] = w PROVE FALSE
      OBVIOUS
    <2>1. CASE nativeDeleteDisabled[w]
      BY <1>1, <2>1 DEF Shape, WrapperFrames, FramesFit, Last, Typed
    <2>2. CASE ~nativeDeleteDisabled[w]
      BY <1>1, <2>2 DEF Shape, WrapperFrames, Begun, Called, Typed
    <2>3. QED
      BY <2>1, <2>2
  <1>4. wstate[w] = "alive"
    BY <1>2, <1>3 DEF Shape, FramesFit, Typed, Life
  <1>5. \A k \in 1 .. Depth, v \in Wrappers : Begun(k, v) => nativeId[v] # n
    BY <1>1 DEF Shape, WrapperFrames
  <1>6. \A v \in Wrappers : nativeId[v] = n /\ wstate[v] = "alive" => v = w
    BY <1>1 DEF Shape, Linked, Usable
  <1>7. QED
    BY <1>1, <1>3, <1>4, <1>5, <1>6

LEMMA LinkDeletesWrapper ==
  ASSUME Typed, Shape, NEW n \in Natives, NEW w \in Wrappers, NEW at, NEW pc,
         \/ at = "shell" /\ pc = "unlink"
         \/ at = "userData" /\ pc = "end",
         Depth > 0, Last(n, at), link[n] = w, ~wrapperDeleteDisabled[w],
         MovedPushed(pc, w, "body"), wstate' = [wstate EXCEPT ![w] = "dying"],
         nativeDeleteDisabled' = [nativeDeleteDisabled EXCEPT ![w] = TRUE],
         UNCHANGED <<kind, nstate, parent, link, nativeId, pinned, wrapperDeleteDisabled>>
  PROVE  Shape' /\ wstate[w] = "alive"
  <1> USE NativesAssumption, PinListAssumption DEF IsQObject
  <1>1. /\ IsQObject(n) /\ nativeId[w] = n /\ wstate[w] = "alive" /\ nstate[n] = "dying"
        /\ \A k \in 1 .. Depth : Who[k] # w
        /\ \A k \in 1 .. Depth, v \in Wrappers : Begun(k, v) => nativeId[v] # n
        /\ \A v \in Wrappers : nativeId[v] = n /\ wstate[v] = "alive" => v = w
    BY LinkWrapperAlive
  <1>2. /\ \A k \in 1 .. Depth', v \in Wrappers : Begun(k, v)' => k \in 1 .. Depth /\ k < Depth /\ Begun(k, v)
        /\ \A k \in 1 .. Depth', v \in Wrappers : Called(k, v)' => k \in 1 .. Depth /\ k < Depth /\ Called(k, v)
        /\ \A v \in Wrappers : Usable(v)' => Usable(v) /\ v # w
    BY <1>1 DEF Usable, Begun, Called, MovedPushed, Typed, Last
  <1>3. Exist' /\ Links' /\ NativeFrames'
    BY <1>1 DEF Shape, Typed, Exist, Links, NativeFrames, MovedPushed, Last
  <1>4. Flags'
    BY <1>1 DEF Shape, Typed, Flags
  <1>5. FramesFit'
    <2>1. \A j, k \in 1 .. Depth' : Who'[j] = Who'[k] => j = k
      BY <1>1 DEF Shape, FramesFit, MovedPushed, Typed
    <2>2. \A m \in Natives : nstate'[m] = "dying" <=> \E k \in 1 .. Depth' : Who'[k] = m
      BY DEF Shape, FramesFit, MovedPushed, Typed
    <2>3. \A v \in Wrappers : wstate'[v] = "dying" <=> \E k \in 1 .. Depth' : Who'[k] = v
      BY DEF Shape, FramesFit, MovedPushed, Typed
    <2>4. QED
      BY <2>1, <2>2, <2>3 DEF FramesFit
  <1>6. WrapperFrames'
    BY <1>1, <1>2 DEF Shape, WrapperFrames, MovedPushed, Typed, Last
  <1>7. Ordered'
    BY <1>1, <1>2 DEF Shape, Ordered, MovedPushed, Typed
  <1>8. Linked'
    BY <1>1, <1>2 DEF Shape, Linked, MovedPushed, Typed, Last
  <1>9. Owners'
    BY <1>1, <1>2 DEF Shape, Owners, Typed
  <1>10. Orphans'
    BY <1>1 DEF Shape, Orphans, MovedPushed, Typed, Last
  <1>11. QED
    BY <1>1, <1>3, <1>4, <1>5, <1>6, <1>7, <1>8, <1>9, <1>10 DEF Shape

(* The link's destructor leaves D alone, or there is no link. *)
LEMMA LinkLeavesWrapper ==
  ASSUME Typed, Shape, NEW n \in Natives, NEW at, NEW pc,
         \/ at = "shell" /\ pc = "unlink"
         \/ at = "userData" /\ pc = "end",
         Depth > 0, Last(n, at), link[n] # NULL => wrapperDeleteDisabled[link[n]], Moved(pc),
         UNCHANGED <<kind, nstate, parent, link, wstate, nativeId, pinned>>,
         UNCHANGED <<nativeDeleteDisabled, wrapperDeleteDisabled>>
  PROVE  Shape'
  <1> USE NativesAssumption, PinListAssumption DEF IsQObject
  <1>1. IsQObject(n) /\ nstate[n] = "dying" /\ Depth \in 1 .. Depth
    BY DEF Shape, NativeFrames, FramesFit, Last, Typed
  <1>2. \A v \in Wrappers : nativeId[v] = n => wstate[v] # "alive"
    BY <1>1 DEF Shape, Linked, Flags, Usable
  <1>3. /\ \A k \in 1 .. Depth, v \in Wrappers : Begun(k, v)' <=> Begun(k, v)
        /\ \A k \in 1 .. Depth, v \in Wrappers : Called(k, v)' <=> Called(k, v)
        /\ \A v \in Wrappers : Usable(v)' <=> Usable(v)
    BY DEF Usable, Begun, Called, Moved, Typed, Last
  <1>4. Exist' /\ Links' /\ NativeFrames' /\ FramesFit' /\ Flags'
    BY <1>1 DEF Shape, Typed, Exist, Links, NativeFrames, Moved, Last, FramesFit, Flags
  <1>5. WrapperFrames'
    BY <1>1, <1>3 DEF Shape, WrapperFrames, Moved, Typed, Last
  <1>6. Ordered'
    BY <1>3 DEF Shape, Ordered, Moved
  <1>7. Linked'
    BY <1>1, <1>2, <1>3 DEF Shape, Linked, Moved, Typed, Last
  <1>8. Owners'
    BY <1>3 DEF Shape, Owners, Typed
  <1>9. Orphans'
    BY <1>1 DEF Shape, Orphans, Moved, Typed, Last
  <1>10. QED
    BY <1>4, <1>5, <1>6, <1>7, <1>8, <1>9 DEF Shape

(* The shell's destructor has taken the link out of the user data. *)
LEMMA ShellUnlinkKeeps ==
  ASSUME TypeOK, Typed, Shape, NEW n \in Natives, ShellUnlink(n)
  PROVE  Shape'
  <1> USE NativesAssumption, PinListAssumption DEF IsQObject
  <1>1. /\ Depth > 0 /\ Last(n, "unlink") /\ Moved("children")
        /\ link' = [link EXCEPT ![n] = NULL]
        /\ UNCHANGED <<kind, nstate, parent, wstate, nativeId, pinned>>
        /\ UNCHANGED <<nativeDeleteDisabled, wrapperDeleteDisabled>>
    BY RunningIsLast, GotoMoves DEF ShellUnlink, TypeOK, listVars, wrapperVars
  <1>2. IsQObject(n) /\ nstate[n] = "dying" /\ Depth \in 1 .. Depth
    BY <1>1 DEF Shape, NativeFrames, FramesFit, Last, Typed
  <1>3. \A v \in Wrappers : nativeId[v] = n => ~Usable(v)
    BY <1>1, <1>2 DEF Shape, Linked, FramesFit, WrapperFrames, Usable, Last
  <1>4. /\ \A k \in 1 .. Depth, v \in Wrappers : Begun(k, v)' <=> Begun(k, v)
        /\ \A k \in 1 .. Depth, v \in Wrappers : Called(k, v)' <=> Called(k, v)
        /\ \A v \in Wrappers : Usable(v)' <=> Usable(v)
    BY <1>1 DEF Usable, Begun, Called, Moved, Typed, Last
  <1>5. Exist' /\ Links' /\ NativeFrames' /\ FramesFit' /\ Flags'
    BY <1>1, <1>2 DEF Shape, Typed, Exist, Links, NativeFrames, Moved, Last, FramesFit, Flags
  <1>6. WrapperFrames'
    <2>1. \A v \in Wrappers : nativeId[v] = n => wstate[v] # "alive"
      BY <1>3 DEF Usable
    <2>2. QED
      BY <1>1, <1>2, <1>4, <2>1 DEF Shape, WrapperFrames, Moved, Typed, Last
  <1>7. Ordered'
    BY <1>1, <1>4 DEF Shape, Ordered, Moved
  <1>8. Linked'
    BY <1>1, <1>2, <1>3, <1>4 DEF Shape, Linked, FramesFit, Moved, Typed, Last, Usable
  <1>9. Owners'
    BY <1>1, <1>4 DEF Shape, Owners, Typed
  <1>10. Orphans'
    BY <1>1, <1>2 DEF Shape, Orphans, Moved, Typed, Last
  <1>11. QED
    BY <1>5, <1>6, <1>7, <1>8, <1>9, <1>10 DEF Shape

(* ~QObject has deleted the children. *)
LEMMA ChildrenDeletedKeeps ==
  ASSUME TypeOK, Typed, Shape, NEW n \in Natives, ChildrenDeleted(n)
  PROVE  Shape'
  <1> USE NativesAssumption, PinListAssumption DEF IsQObject
  <1>1. /\ Depth > 0 /\ Last(n, "children") /\ Moved("userData")
        /\ \A c \in Natives : parent[c] = n => nstate[c] # "alive"
        /\ UNCHANGED <<kind, nstate, parent, link, wstate, nativeId, pinned>>
        /\ UNCHANGED <<nativeDeleteDisabled, wrapperDeleteDisabled>>
    BY RunningIsLast, GotoMoves DEF ChildrenDeleted, TypeOK, listVars, nativeVars, wrapperVars
  <1>2. IsQObject(n) /\ nstate[n] = "dying" /\ Depth \in 1 .. Depth
    BY <1>1 DEF Shape, NativeFrames, FramesFit, Last, Typed
  <1>3. /\ \A k \in 1 .. Depth, v \in Wrappers : Begun(k, v)' <=> Begun(k, v)
        /\ \A k \in 1 .. Depth, v \in Wrappers : Called(k, v)' <=> Called(k, v)
        /\ \A v \in Wrappers : Usable(v)' <=> Usable(v)
    BY <1>1 DEF Usable, Begun, Called, Moved, Typed, Last
  <1>4. Exist' /\ Links' /\ NativeFrames' /\ FramesFit' /\ Flags'
    BY <1>1, <1>2 DEF Shape, Typed, Exist, Links, NativeFrames, Moved, Last, FramesFit, Flags
  <1>5. WrapperFrames'
    BY <1>1, <1>2, <1>3 DEF Shape, WrapperFrames, Moved, Typed, Last
  <1>6. Ordered'
    BY <1>1, <1>3 DEF Shape, Ordered, Moved
  <1>7. Linked'
    BY <1>1, <1>2, <1>3 DEF Shape, Linked, Moved, Typed, Last
  <1>8. Owners'
    BY <1>1, <1>3 DEF Shape, Owners, Typed
  <1>9. Orphans'
    BY <1>1, <1>2 DEF Shape, Orphans, Moved, Typed, Last
  <1>10. QED
    BY <1>4, <1>5, <1>6, <1>7, <1>8, <1>9 DEF Shape

(* The native's destructor returns. *)
LEMMA NativeFreedKeeps ==
  ASSUME TypeOK, Typed, Shape, NEW n \in Natives, NativeFreed(n)
  PROVE  Shape'
  <1> USE NativesAssumption, PinListAssumption DEF IsQObject
  <1>1. /\ Depth > 0 /\ Last(n, "end") /\ Popped
        /\ nstate' = [nstate EXCEPT ![n] = "dead"]
        /\ link' = [link EXCEPT ![n] = NULL]
        /\ UNCHANGED <<kind, parent, wstate, nativeId, pinned>>
        /\ UNCHANGED <<nativeDeleteDisabled, wrapperDeleteDisabled>>
    BY RunningIsLast, ReturnPops DEF NativeFreed, TypeOK, listVars, wrapperVars
  <1>2. nstate[n] = "dying" /\ Depth \in 1 .. Depth /\ \A k \in 1 .. Depth' : Who[k] # n
    BY <1>1 DEF Shape, FramesFit, Popped, Last, Typed
  <1>3. \A v \in Wrappers : nativeId[v] = n /\ IsQObject(n) => ~Usable(v)
    BY <1>1, <1>2 DEF Shape, Linked, FramesFit, WrapperFrames, Usable, Last
  <1>4. /\ \A k \in 1 .. Depth', v \in Wrappers : Begun(k, v)' => Begun(k, v)
        /\ \A k \in 1 .. Depth', v \in Wrappers : Called(k, v)' => Called(k, v)
        /\ \A v \in Wrappers : Usable(v)' => Usable(v)
    BY <1>1 DEF Usable, Begun, Called, Popped, Typed
  <1>5. Exist' /\ Links' /\ Flags'
    BY <1>1, <1>2 DEF Shape, Typed, Exist, Links, Flags, FramesFit
  <1>6. NativeFrames' /\ FramesFit'
    <2>1. NativeFrames'
      BY <1>1, <1>2 DEF Shape, NativeFrames, Popped, Typed
    <2>2. \A j, k \in 1 .. Depth' : Who'[j] = Who'[k] => j = k
      BY <1>1 DEF Shape, FramesFit, Popped
    <2>3. \A m \in Natives : nstate'[m] = "dying" <=> \E k \in 1 .. Depth' : Who'[k] = m
      BY <1>1, <1>2 DEF Shape, FramesFit, Popped, Typed, Last
    <2>4. \A v \in Wrappers : wstate'[v] = "dying" <=> \E k \in 1 .. Depth' : Who'[k] = v
      BY <1>1, <1>2 DEF Shape, FramesFit, Popped, Typed, Last
    <2>5. QED
      BY <2>1, <2>2, <2>3, <2>4 DEF FramesFit
  <1>7. WrapperFrames'
    BY <1>1, <1>2, <1>4 DEF Shape, WrapperFrames, Popped, Typed, Last
  <1>8. Ordered'
    BY <1>1, <1>4 DEF Shape, Ordered, Popped
  <1>9. Linked'
    BY <1>1, <1>2, <1>3, <1>4 DEF Shape, Linked, Popped, Typed, Last, Usable
  <1>10. Owners'
    BY <1>1, <1>2, <1>4 DEF Shape, Owners, Typed
  <1>11. Orphans'
    BY <1>1, <1>2 DEF Shape, Orphans, Popped, Typed, Last
  <1>12. QED
    BY <1>5, <1>6, <1>7, <1>8, <1>9, <1>10, <1>11 DEF Shape

(* ~this returns. *)
LEMMA WrapperUnpinKeeps ==
  ASSUME TypeOK, Typed, Shape, NEW w \in Wrappers, WrapperUnpin(w)
  PROVE  Shape'
  <1> USE NativesAssumption, PinListAssumption DEF IsQObject
  <1>1. /\ Depth > 0 /\ Last(w, "unpin") /\ Popped
        /\ wstate' = [wstate EXCEPT ![w] = "dead"]
        /\ pinned' = [pinned EXCEPT ![w] = FALSE]
        /\ UNCHANGED <<kind, nstate, parent, link, nativeId>>
        /\ UNCHANGED <<nativeDeleteDisabled, wrapperDeleteDisabled>>
    BY RunningIsLast, ReturnPops DEF WrapperUnpin, qtdUnpin, TypeOK, ListTypeOK, listVars, nativeVars
  <1>2. wstate[w] = "dying" /\ Depth \in 1 .. Depth /\ \A k \in 1 .. Depth' : Who[k] # w
    BY <1>1 DEF Shape, FramesFit, Popped, Last, Typed
  <1>3. /\ \A k \in 1 .. Depth', v \in Wrappers : Begun(k, v)' => Begun(k, v)
        /\ \A k \in 1 .. Depth', v \in Wrappers : Called(k, v)' => Called(k, v)
        /\ \A v \in Wrappers : Usable(v)' => Usable(v) /\ v # w
    BY <1>1, <1>2 DEF Usable, Begun, Called, Popped, Typed
  <1>4. Exist' /\ Links' /\ Flags' /\ NativeFrames'
    BY <1>1, <1>2 DEF Shape, Typed, Exist, Links, Flags, NativeFrames, Popped
  <1>5. FramesFit'
    <2>1. \A j, k \in 1 .. Depth' : Who'[j] = Who'[k] => j = k
      BY <1>1 DEF Shape, FramesFit, Popped
    <2>2. \A m \in Natives : nstate'[m] = "dying" <=> \E k \in 1 .. Depth' : Who'[k] = m
      BY <1>1, <1>2 DEF Shape, FramesFit, Popped, Typed, Last
    <2>3. \A v \in Wrappers : wstate'[v] = "dying" <=> \E k \in 1 .. Depth' : Who'[k] = v
      BY <1>1, <1>2 DEF Shape, FramesFit, Popped, Typed, Last
    <2>4. QED
      BY <2>1, <2>2, <2>3 DEF FramesFit
  <1>6. WrapperFrames'
    BY <1>1, <1>2, <1>3 DEF Shape, WrapperFrames, Popped, Typed, Last
  <1>7. Ordered'
    BY <1>1, <1>3 DEF Shape, Ordered, Popped
  <1>8. Linked'
    <2>1. \A v \in Wrappers, n \in Natives : nativeId[v] = n /\ wstate'[v] = "alive" /\ IsQObject(n) =>
            \/ nstate[n] = "alive"
            \/ \E k \in 1 .. Depth' : Who'[k] = n /\ Where'[k] \in {"shell", "children", "userData"}
      BY <1>1, <1>2 DEF Shape, Linked, Popped, Typed, Last
    <2>2. ASSUME NEW n \in Natives, link[n] = w
          PROVE  Depth' > 0 /\ Who'[Depth'] = n /\ Where'[Depth'] \in {"unlink", "end"}
      <3>1. nativeId[w] = n /\ kind[n] # "plain" /\ kind[n] # "none" /\ nstate[n] # "dead"
        BY <2>2 DEF Shape, Links, Exist
      <3>2. nativeDeleteDisabled[w]
        BY <1>1, <1>2, <3>1 DEF Shape, WrapperFrames, Called, Last
      <3>3. IsQObject(n)
        BY <3>1, <3>2 DEF Shape, Flags, Typed, Kinds
      <3>4. Depth > 1 /\ Who[Depth - 1] = n /\ Where[Depth - 1] \in {"unlink", "end"}
        BY <1>1, <1>2, <3>1, <3>2, <3>3 DEF Shape, WrapperFrames, Last
      <3>5. QED
        BY <1>1, <3>4 DEF Popped, Typed
    <2>3. \A n \in Natives : link[n] # NULL /\ wstate[link[n]] = "dead" => FALSE
      BY <1>1 DEF Shape, Linked, Last
    <2>4. QED
      BY <1>1, <1>3, <2>1, <2>2, <2>3 DEF Shape, Linked, Typed
  <1>9. Owners'
    BY <1>1, <1>2, <1>3 DEF Shape, Owners, Typed
  <1>10. Orphans'
    BY <1>1, <1>2 DEF Shape, Orphans, Popped, Typed, Last
  <1>11. QED
    BY <1>4, <1>5, <1>6, <1>7, <1>8, <1>9, <1>10 DEF Shape

(* ~this calls for its native's destructor ... *)
LEMMA BodyDeletesKeeps ==
  ASSUME TypeOK, Typed, Shape, NEW w \in Wrappers, WrapperBody(w), ~nativeDeleteDisabled[w]
  PROVE  Shape' /\ nativeId[w] \in Natives /\ nstate[nativeId[w]] = "alive"
  <1> USE NativesAssumption, PinListAssumption DEF IsQObject
  <1>1. Depth > 0 /\ Last(w, "body") /\ Depth \in 1 .. Depth
    BY RunningIsLast DEF WrapperBody, TypeOK, Typed
  <1>2. Begun(Depth, w) /\ Usable(w)
    BY <1>1 DEF Begun, Usable, Last
  <1>3. PICK n \in Natives : n = nativeId[w]
    BY <1>1 DEF Shape, Exist, FramesFit, Typed, Last
  <1>4. /\ DeleteEntry(n) \in {"shell", "children", "end"}
        /\ DeleteEntry(n) = "shell" <=> kind[n] = "shell"
        /\ DeleteEntry(n) = "end" <=> ~IsQObject(n)
    BY Entries
  <1>5. /\ MovedPushed("unpin", n, DeleteEntry(n))
        /\ nstate' = [nstate EXCEPT ![n] = "dying"]
        /\ wrapperDeleteDisabled' = [wrapperDeleteDisabled EXCEPT ![w] = TRUE]
        /\ UNCHANGED <<kind, parent, link, wstate, nativeId, pinned, nativeDeleteDisabled>>
    <2>1. [fn |-> "~native", id |-> n, at |-> DeleteEntry(n)] \in Frames
      BY <1>4 DEF Frames
    <2>2. QED
      BY <2>1, <1>3, GotoCallMovesPushes DEF WrapperBody, qtdDeleteNative, listVars
  <1>6. nstate[n] = "alive" /\ wstate[w] = "dying" /\ \A k \in 1 .. Depth : Who[k] # n
    BY <1>1, <1>2, <1>3 DEF Shape, WrapperFrames, FramesFit, Last
  <1>7. \A j \in 1 .. Depth, v \in Wrappers : Begun(j, v) /\ v # w =>
          j < Depth /\ Apart(parent, nativeId[v], n) /\ nativeId[v] # n
    BY <1>1, <1>2, <1>3, ApartIsUnequal DEF Shape, Ordered, Begun, Last
  <1>8. \A v \in Wrappers : nativeId[v] = n /\ wstate[v] = "alive" => kind[n] = "plain" /\ nativeDeleteDisabled[v]
    <2>1. ASSUME NEW v \in Wrappers, nativeId[v] = n, wstate[v] = "alive"
          PROVE  kind[n] = "plain" /\ nativeDeleteDisabled[v]
      <3>1. v # w /\ Usable(v) /\ kind[n] # "none"
        BY <1>6, <2>1 DEF Usable, Shape, Exist
      <3>2. ~IsQObject(n)
        BY <1>2, <1>3, <2>1, <3>1 DEF Shape, Linked
      <3>3. kind[n] # "poly"
        BY <1>3, <2>1, <3>1 DEF Shape, Owners
      <3>4. kind[n] = "plain"
        BY <3>1, <3>2, <3>3 DEF Typed, Kinds
      <3>5. QED
        BY <1>2, <1>3, <2>1, <3>1, <3>4 DEF Shape, Owners
    <2>2. QED
      BY <2>1
  <1>9. /\ \A k \in 1 .. Depth', v \in Wrappers :
             Begun(k, v)' => k \in 1 .. Depth /\ k < Depth /\ Begun(k, v) /\ v # w
        /\ \A k \in 1 .. Depth', v \in Wrappers :
             Called(k, v)' => k \in 1 .. Depth /\ (Called(k, v) \/ (k = Depth /\ v = w))
        /\ \A v \in Wrappers : Usable(v)' => Usable(v)
    BY <1>1, <1>5, <1>6 DEF Usable, Begun, Called, MovedPushed, Typed, Last, Shape, FramesFit
  <1>10. Exist' /\ Links'
    BY <1>5, <1>6 DEF Shape, Typed, Exist, Links
  <1>11. Flags'
    BY <1>5, <1>6 DEF Shape, Typed, Flags
  <1>12. NativeFrames'
    BY <1>1, <1>4, <1>5, <1>6 DEF Shape, Links, NativeFrames, MovedPushed, Typed, Last
  <1>13. FramesFit'
    <2>1. \A j, k \in 1 .. Depth' : Who'[j] = Who'[k] => j = k
      BY <1>5, <1>6 DEF Shape, FramesFit, MovedPushed, Typed
    <2>2. \A m \in Natives : nstate'[m] = "dying" <=> \E k \in 1 .. Depth' : Who'[k] = m
      BY <1>5 DEF Shape, FramesFit, MovedPushed, Typed
    <2>3. \A v \in Wrappers : wstate'[v] = "dying" <=> \E k \in 1 .. Depth' : Who'[k] = v
      BY <1>5 DEF Shape, FramesFit, MovedPushed, Typed
    <2>4. QED
      BY <2>1, <2>2, <2>3 DEF FramesFit
  <1>14. WrapperFrames'
    BY <1>1, <1>3, <1>5, <1>6, <1>7, <1>9 DEF Shape, WrapperFrames, MovedPushed, Typed, Last
  <1>15. Ordered'
    BY <1>1, <1>5, <1>7, <1>9 DEF Shape, Ordered, MovedPushed, Typed, Last
  <1>16. Linked'
    BY <1>1, <1>5, <1>6, <1>8, <1>9 DEF Shape, Linked, MovedPushed, Typed, Last
  <1>17. Owners'
    BY <1>5, <1>8, <1>9 DEF Shape, Owners, Typed
  <1>18. Orphans'
    BY <1>1, <1>4, <1>5, <1>6 DEF Shape, Exist, Orphans, MovedPushed, Typed, Last
  <1>19. QED
    BY <1>3, <1>6, <1>10, <1>11, <1>12, <1>13, <1>14, <1>15, <1>16, <1>17, <1>18 DEF Shape

(* ... unless that is where it was called from. *)
LEMMA BodySkipsKeeps ==
  ASSUME TypeOK, Typed, Shape, NEW w \in Wrappers, WrapperBody(w), nativeDeleteDisabled[w]
  PROVE  Shape'
  <1> USE NativesAssumption, PinListAssumption DEF IsQObject
  <1>1. /\ Depth > 0 /\ Last(w, "body") /\ Depth \in 1 .. Depth /\ Moved("unpin")
        /\ UNCHANGED <<kind, nstate, parent, link, wstate, nativeId, pinned>>
        /\ UNCHANGED <<nativeDeleteDisabled, wrapperDeleteDisabled>>
    BY RunningIsLast, GotoMoves DEF WrapperBody, TypeOK, Typed, listVars
  <1>2. /\ \A k \in 1 .. Depth, v \in Wrappers : Begun(k, v)' <=> Begun(k, v)
        /\ \A k \in 1 .. Depth, v \in Wrappers : Called(k, v)' <=> Called(k, v)
        /\ \A v \in Wrappers : Usable(v)' <=> Usable(v)
    BY <1>1 DEF Usable, Begun, Called, Moved, Typed, Last
  <1>3. Exist' /\ Links' /\ NativeFrames' /\ FramesFit' /\ Flags'
    BY <1>1 DEF Shape, Typed, Exist, Links, NativeFrames, Moved, Last, FramesFit, Flags
  <1>4. WrapperFrames'
    BY <1>1, <1>2 DEF Shape, WrapperFrames, Moved, Typed, Last
  <1>5. Ordered'
    BY <1>1, <1>2 DEF Shape, Ordered, Moved
  <1>6. Linked'
    BY <1>1, <1>2 DEF Shape, Linked, Moved, Typed, Last
  <1>7. Owners' /\ Orphans'
    BY <1>1, <1>2 DEF Shape, Owners, Orphans, Moved, Typed, Last
  <1>8. QED
    BY <1>3, <1>4, <1>5, <1>6, <1>7 DEF Shape

-----------------------------------------------------------------------------
(* The actions that call or continue a destructor. *)
LEMMA DeleteKeeps ==
  ASSUME TypeOK, Typed, Shape, NEW w \in Wrappers, Delete(w)
  PROVE  Shape'
  <1> USE NativesAssumption, PinListAssumption
  <1>1. /\ wstate[w] = "alive" /\ UserCode /\ MayDelete(nativeId[w])
        /\ wstate' = [wstate EXCEPT ![w] = "dying"]
        /\ UNCHANGED <<kind, nstate, parent, link, nativeId, pinned>>
        /\ UNCHANGED <<nativeDeleteDisabled, wrapperDeleteDisabled>>
    BY DEF Delete, deleteWrapper, listVars, nativeVars
  <1>2. Pushed(w, "body")
    BY CallPushes DEF Delete, deleteWrapper, Frames
  <1>3. \A j \in 1 .. Depth, v \in Wrappers :
          Begun(j, v) => Apart(parent, nativeId[v], nativeId[w])
    <2> SUFFICES ASSUME NEW j \in 1 .. Depth, NEW v \in Wrappers, Begun(j, v)
                 PROVE  Apart(parent, nativeId[v], nativeId[w])
      OBVIOUS
    <2>1. wstate[v] = "dying" /\ ~nativeDeleteDisabled[v] /\ nativeId[v] \in Natives
      BY DEF Begun, Shape, FramesFit, Exist, Typed
    <2>2. BeingDestroyed(nativeId[v])
      BY <2>1 DEF BeingDestroyed
    <2>3. QED
      BY <1>1, <2>1, <2>2 DEF MayDelete, Apart
  <1>4. LinksLive
    BY <1>1, UserCodeLinks
  <1>5. nstate[nativeId[w]] = "alive"
    BY <1>1 DEF MayDelete
  <1>6. QED
    BY <1>1, <1>2, <1>3, <1>4, <1>5, WrapperEntered

LEMMA CollectKeeps ==
  ASSUME TypeOK, Typed, ListInv, Shape, NEW w \in Wrappers, Collect(w)
  PROVE  Shape'
  <1> USE NativesAssumption, PinListAssumption DEF IsQObject
  <1>1. /\ wstate[w] = "alive" /\ UserCode
        /\ wstate' = [wstate EXCEPT ![w] = "dying"]
        /\ UNCHANGED <<kind, nstate, parent, link, nativeId, pinned>>
        /\ UNCHANGED <<nativeDeleteDisabled, wrapperDeleteDisabled>>
    BY DEF Collect, deleteWrapper, listVars, nativeVars
  <1>2. Pushed(w, "body")
    BY CallPushes DEF Collect, deleteWrapper, Frames
  <1>3. ~pinned[w]
    <2>1. w \notin Shielded
      BY DEF Collect, Shielded, Marked, Closed
    <2>2. QED
      BY <2>1, ShieldedIsPinned DEF Pinned
  <1>4. PICK n \in Natives : n = nativeId[w]
    BY <1>1 DEF Shape, Exist, Typed
  <1>5. ~IsQObject(n) /\ kind[n] \in {"poly", "plain"}
    BY <1>1, <1>3, <1>4 DEF Shape, Flags, Exist, Typed, Kinds
  <1>6. ASSUME ~nativeDeleteDisabled[w] PROVE nstate[n] = "alive"
    BY <1>1, <1>3, <1>4, <1>5, <1>6 DEF Shape, Owners
  <1>7. ASSUME ~nativeDeleteDisabled[w], NEW j \in 1 .. Depth, NEW v \in Wrappers, Begun(j, v)
        PROVE  Apart(parent, nativeId[v], n)
    <2>1. wstate[v] = "dying" /\ ~nativeDeleteDisabled[v] /\ nativeId[v] \in Natives /\ Usable(v)
      BY <1>7 DEF Begun, Usable, Shape, FramesFit, Exist, Typed
    <2>2. nativeId[v] # n
      BY <1>1, <1>4, <1>5, <1>7, <2>1 DEF Shape, Owners, Usable
    <2>3. \A c \in Natives : parent[c] # n
      BY <1>5 DEF Shape, Exist
    <2>4. QED
      BY <2>1, <2>2, <2>3, ApartLeaf DEF Typed
  <1>8. LinksLive
    BY <1>1, UserCodeLinks
  <1>9. QED
    BY <1>1, <1>2, <1>4, <1>6, <1>7, <1>8, WrapperEntered

LEMMA NativeDeleteKeeps ==
  ASSUME TypeOK, Typed, Shape, NEW n \in Natives, NativeDelete(n)
  PROVE  Shape'
  <1> USE NativesAssumption, PinListAssumption
  <1>1. /\ nstate[n] = "alive" /\ UserCode /\ MayDelete(n)
        /\ IsQObject(n) \/ \A w \in Wrappers : nativeId[w] = n => ~Owns(w)
        /\ nstate' = [nstate EXCEPT ![n] = "dying"]
        /\ UNCHANGED <<kind, wstate, parent, link, nativeId, pinned>>
        /\ UNCHANGED <<nativeDeleteDisabled, wrapperDeleteDisabled>>
    BY DEF NativeDelete, qtdDeleteNative, MayDelete, listVars, wrapperVars
  <1>2. Pushed(n, DeleteEntry(n))
    <2>1. [fn |-> "~native", id |-> n, at |-> DeleteEntry(n)] \in Frames
      BY Entries DEF Frames
    <2>2. QED
      BY <2>1, CallPushes DEF NativeDelete, qtdDeleteNative
  <1>3. ASSUME NEW j \in 1 .. Depth, NEW v \in Wrappers, Begun(j, v)
        PROVE  Apart(parent, nativeId[v], n)
    <2>1. wstate[v] = "dying" /\ ~nativeDeleteDisabled[v] /\ nativeId[v] \in Natives
      BY <1>3 DEF Begun, Shape, FramesFit, Exist, Typed
    <2>2. BeingDestroyed(nativeId[v])
      BY <2>1 DEF BeingDestroyed
    <2>3. QED
      BY <1>1, <2>1, <2>2 DEF MayDelete, Apart
  <1>4. LinksLive
    BY <1>1, UserCodeLinks
  <1>5. QED
    BY <1>1, <1>2, <1>3, <1>4, NativeEntered

LEMMA DeleteChildKeeps ==
  ASSUME TypeOK, Typed, Shape, NEW n \in Natives, NEW c \in Natives, DeleteChild(n, c)
  PROVE  Shape'
  <1> USE NativesAssumption, PinListAssumption DEF IsQObject
  <1>1. /\ Depth > 0 /\ Last(n, "children") /\ Depth \in 1 .. Depth
        /\ parent[c] = n /\ nstate[c] = "alive"
        /\ nstate' = [nstate EXCEPT ![c] = "dying"]
        /\ UNCHANGED <<kind, wstate, parent, link, nativeId, pinned>>
        /\ UNCHANGED <<nativeDeleteDisabled, wrapperDeleteDisabled>>
    BY RunningIsLast DEF DeleteChild, qtdDeleteNative, TypeOK, Typed, listVars, wrapperVars
  <1>2. Pushed(c, DeleteEntry(c))
    <2>1. [fn |-> "~native", id |-> c, at |-> DeleteEntry(c)] \in Frames
      BY Entries DEF Frames
    <2>2. QED
      BY <2>1, CallPushes DEF DeleteChild, qtdDeleteNative
  <1>3. ASSUME NEW j \in 1 .. Depth, NEW v \in Wrappers, Begun(j, v)
        PROVE  Apart(parent, nativeId[v], c)
    <2>1. Apart(parent, nativeId[v], n)
      BY <1>1, <1>3 DEF Shape, Ordered, Begun, Last, Typed
    <2>2. QED
      BY <1>1, <2>1, ApartChild
  <1>4. LinksLive
    BY <1>1 DEF Shape, Linked, LinksLive, Last
  <1>5. IsQObject(c)
    BY <1>1 DEF Shape, Exist
  <1>6. QED
    BY <1>1, <1>2, <1>3, <1>4, <1>5, NativeEntered

LEMMA ShellDestroyLinkKeeps ==
  ASSUME TypeOK, Typed, Shape, NEW n \in Natives, ShellDestroyLink(n)
  PROVE  /\ Shape' /\ nstate' = nstate
         /\ \/ wstate' = wstate
            \/ \E w \in Wrappers : wstate[w] = "alive" /\ wstate' = [wstate EXCEPT ![w] = "dying"]
  <1> USE NativesAssumption, PinListAssumption
  <1>1. Depth > 0 /\ Last(n, "shell") /\ Depth \in 1 .. Depth
    BY RunningIsLast DEF ShellDestroyLink, TypeOK, Typed
  <1>2. PICK w \in Wrappers : w = link[n]
    BY <1>1 DEF Shape, NativeFrames, Last, Typed
  <1>3. /\ UNCHANGED <<kind, nstate, parent, link, nativeId, pinned, wrapperDeleteDisabled>>
        /\ QtdObject_delete(w, <<At("unlink")>> \o Tail(stack))
    BY <1>2 DEF ShellDestroyLink, listVars, nativeVars
  <1>4. CASE wrapperDeleteDisabled[w]
    <2>1. Moved("unlink") /\ UNCHANGED <<wstate, nativeDeleteDisabled>>
      BY <1>3, <1>4, GotoMoves DEF QtdObject_delete, ShellDestroyLink
    <2>2. QED
      BY <1>1, <1>2, <1>3, <1>4, <2>1, LinkLeavesWrapper
  <1>5. CASE ~wrapperDeleteDisabled[w]
    <2>1. [fn |-> "~QtdObject", id |-> w, at |-> "body"] \in Frames
      BY DEF Frames
    <2>2. /\ MovedPushed("unlink", w, "body") /\ wstate' = [wstate EXCEPT ![w] = "dying"]
          /\ nativeDeleteDisabled' = [nativeDeleteDisabled EXCEPT ![w] = TRUE]
      BY <1>3, <1>5, <2>1, GotoCallMovesPushes DEF QtdObject_delete, deleteWrapper, ShellDestroyLink
    <2>3. QED
      BY <1>1, <1>2, <1>3, <1>5, <2>2, LinkDeletesWrapper
  <1>6. QED
    BY <1>4, <1>5

LEMMA DeleteUserDataKeeps ==
  ASSUME TypeOK, Typed, Shape, NEW n \in Natives, DeleteUserData(n)
  PROVE  /\ Shape' /\ nstate' = nstate
         /\ \/ wstate' = wstate
            \/ \E w \in Wrappers : wstate[w] = "alive" /\ wstate' = [wstate EXCEPT ![w] = "dying"]
  <1> USE NativesAssumption, PinListAssumption
  <1>1. Depth > 0 /\ Last(n, "userData") /\ Depth \in 1 .. Depth
    BY RunningIsLast DEF DeleteUserData, TypeOK, Typed
  <1>2. UNCHANGED <<kind, nstate, parent, link, nativeId, pinned, wrapperDeleteDisabled>>
    BY DEF DeleteUserData, listVars, nativeVars
  <1>3. CASE link[n] = NULL
    <2>1. Moved("end") /\ UNCHANGED <<wstate, nativeDeleteDisabled>>
      BY <1>3, GotoMoves DEF DeleteUserData
    <2>2. QED
      BY <1>1, <1>2, <1>3, <2>1, LinkLeavesWrapper
  <1>4. CASE link[n] # NULL
    <2>1. PICK w \in Wrappers : w = link[n]
      BY <1>4 DEF Typed
    <2>2. QtdObject_delete(w, <<At("end")>> \o Tail(stack))
      BY <1>4, <2>1 DEF DeleteUserData
    <2>3. CASE wrapperDeleteDisabled[w]
      <3>1. Moved("end") /\ UNCHANGED <<wstate, nativeDeleteDisabled>>
        BY <2>2, <2>3, GotoMoves DEF QtdObject_delete, DeleteUserData
      <3>2. QED
        BY <1>1, <1>2, <2>1, <2>3, <3>1, LinkLeavesWrapper
    <2>4. CASE ~wrapperDeleteDisabled[w]
      <3>1. [fn |-> "~QtdObject", id |-> w, at |-> "body"] \in Frames
        BY DEF Frames
      <3>2. /\ MovedPushed("end", w, "body") /\ wstate' = [wstate EXCEPT ![w] = "dying"]
            /\ nativeDeleteDisabled' = [nativeDeleteDisabled EXCEPT ![w] = TRUE]
        BY <2>2, <2>4, <3>1, GotoCallMovesPushes DEF QtdObject_delete, deleteWrapper, DeleteUserData
      <3>3. QED
        BY <1>1, <1>2, <2>1, <2>4, <3>2, LinkDeletesWrapper
    <2>5. QED
      BY <2>3, <2>4
  <1>5. QED
    BY <1>3, <1>4

-----------------------------------------------------------------------------
(* The actions of user code that call no destructor. *)

(* A native is made, by C++ or by the constructor of its wrapper. *)
LEMMA ParentOfNew ==
  ASSUME Typed, Shape, Still, NEW n \in Natives, nstate[n] = "none", NEW p \in Natives \cup {NULL},
         parent' = [parent EXCEPT ![n] = p], UNCHANGED nativeDeleteDisabled,
         \A w \in Wrappers : nativeId[w] # NULL => nativeId'[w] = nativeId[w]
  PROVE  Ordered'
  <1> USE NativesAssumption, PinListAssumption
  <1>1. \A c \in Natives : parent[c] # n
    BY DEF Shape, Exist, IsQObject
  <1>2. ASSUME NEW w \in Wrappers, NEW k \in 1 .. Depth, Begun(k, w)
        PROVE  nativeId[w] \in Natives /\ nativeId'[w] = nativeId[w] /\ nativeId[w] # n
    <2>1. wstate[w] = "dying"
      BY <1>2 DEF Shape, FramesFit, Begun
    <2>2. nativeId[w] \in Natives
      BY <2>1 DEF Shape, Exist, Typed
    <2>3. QED
      BY <1>2, <2>2 DEF Shape, WrapperFrames
  <1>3. ASSUME NEW d \in Natives, NEW m \in Natives, d # n, Apart(parent, d, m)
        PROVE  Apart(parent', d, m)
    BY <1>1, <1>3, ApartKept DEF Typed
  <1>4. \A k \in 1 .. Depth, w \in Wrappers : Begun(k, w)' <=> Begun(k, w)
    BY DEF Still, Begun
  <1>5. ASSUME NEW w \in Wrappers, NEW j \in 1 .. Depth, NEW k \in 1 .. Depth, j < k, Begun(j, w)
        PROVE  /\ Who[k] \in Natives => Apart(parent', nativeId'[w], Who[k])
               /\ \A v \in Wrappers : Begun(k, v) => Apart(parent', nativeId'[w], nativeId'[v])
    <2>1. /\ Who[k] \in Natives => Apart(parent, nativeId[w], Who[k])
          /\ \A v \in Wrappers : Begun(k, v) => Apart(parent, nativeId[w], nativeId[v])
      BY <1>5 DEF Shape, Ordered
    <2>2. QED
      BY <1>2, <1>3, <1>5, <2>1
  <1>6. QED
    BY <1>4, <1>5 DEF Still, Ordered

LEMMA NewNativeKeeps ==
  ASSUME TypeOK, Typed, Shape, NEW n \in Natives, NEW k \in Kinds, NEW p \in Natives \cup {NULL},
         NewNative(n, k, p)
  PROVE  Shape'
  <1> USE NativesAssumption, PinListAssumption DEF IsQObject
  <1>1. Still
    BY Stays DEF NewNative
  <1>2. /\ nstate[n] = "none" /\ k \in {"qobject", "plain"}
        /\ p # NULL => k = "qobject" /\ IsQObject(p) /\ nstate[p] = "alive"
        /\ kind' = [kind EXCEPT ![n] = k]
        /\ nstate' = [nstate EXCEPT ![n] = "alive"]
        /\ parent' = [parent EXCEPT ![n] = p]
        /\ UNCHANGED <<link, wstate, nativeId, pinned>>
        /\ UNCHANGED <<nativeDeleteDisabled, wrapperDeleteDisabled>>
    BY DEF NewNative, listVars, wrapperVars
  <1>3. /\ \A w \in Wrappers : nativeId[w] # n
        /\ \A c \in Natives : parent[c] # n
        /\ \A j \in 1 .. Depth : Who[j] # n
    BY <1>2 DEF Shape, Exist, FramesFit
  <1>4. Exist' /\ Links' /\ Flags'
    BY <1>2, <1>3 DEF Shape, Typed, Exist, Links, Flags
  <1>5. FramesFit' /\ NativeFrames' /\ WrapperFrames'
    BY <1>1, <1>2, <1>3 DEF Shape, Typed, Still, FramesFit, NativeFrames, WrapperFrames, Begun, Called
  <1>6. Ordered'
    BY <1>1, <1>2, ParentOfNew
  <1>7. Linked' /\ Owners'
    BY <1>1, <1>2, <1>3 DEF Shape, Typed, Still, Linked, Owners, Usable, Begun
  <1>8. Orphans'
    BY <1>1, <1>2, <1>3 DEF Shape, Typed, Still, FramesFit, Orphans
  <1>9. QED
    BY <1>4, <1>5, <1>6, <1>7, <1>8 DEF Shape

LEMMA NewQObjectKeeps ==
  ASSUME TypeOK, Typed, Shape, NEW n \in Natives, NEW w \in Wrappers,
         NEW p \in Natives \cup {NULL}, NewQObject(n, w, p)
  PROVE  Shape'
  <1> USE NativesAssumption, PinListAssumption DEF IsQObject
  <1>1. Still
    BY Stays DEF NewQObject
  <1>2. /\ nstate[n] = "none" /\ wstate[w] = "none"
        /\ p # NULL => IsQObject(p) /\ nstate[p] = "alive"
        /\ kind' = [kind EXCEPT ![n] = "shell"]
        /\ nstate' = [nstate EXCEPT ![n] = "alive"]
        /\ parent' = [parent EXCEPT ![n] = p]
        /\ link' = [link EXCEPT ![n] = w]
        /\ wstate' = [wstate EXCEPT ![w] = "alive"]
        /\ nativeId' = [nativeId EXCEPT ![w] = n]
        /\ pinned' = [pinned EXCEPT ![w] = TRUE]
        /\ UNCHANGED <<nativeDeleteDisabled, wrapperDeleteDisabled>>
    BY DEF NewQObject, NewWrapper, qtdPin
  <1>3. /\ \A v \in Wrappers : nativeId[v] # n
        /\ \A c \in Natives : parent[c] # n /\ link[c] # w
        /\ \A j \in 1 .. Depth : Who[j] # n /\ Who[j] # w
        /\ nativeId[w] = NULL
    BY <1>2 DEF Shape, Exist, FramesFit, Links
  <1>4. Exist' /\ Links' /\ Flags'
    BY <1>2, <1>3 DEF Shape, Typed, Exist, Links, Flags
  <1>5. FramesFit' /\ NativeFrames' /\ WrapperFrames'
    BY <1>1, <1>2, <1>3 DEF Shape, Typed, Still, FramesFit, NativeFrames, WrapperFrames, Begun, Called
  <1>6. Ordered'
    BY <1>1, <1>2, <1>3, ParentOfNew DEF Typed
  <1>7. Linked'
    BY <1>1, <1>2, <1>3 DEF Shape, Typed, Still, Linked, Usable, Begun
  <1>8. Owners'
    BY <1>1, <1>2, <1>3 DEF Shape, Typed, Still, Owners, Usable, Begun
  <1>9. Orphans'
    BY <1>1, <1>2, <1>3 DEF Shape, Typed, Still, FramesFit, Orphans
  <1>10. QED
    BY <1>4, <1>5, <1>6, <1>7, <1>8, <1>9 DEF Shape

LEMMA NewPolymorphicKeeps ==
  ASSUME TypeOK, Typed, Shape, NEW n \in Natives, NEW w \in Wrappers, NewPolymorphic(n, w)
  PROVE  Shape'
  <1> USE NativesAssumption, PinListAssumption DEF IsQObject
  <1>1. Still
    BY Stays DEF NewPolymorphic
  <1>2. /\ nstate[n] = "none" /\ wstate[w] = "none"
        /\ kind' = [kind EXCEPT ![n] = "poly"]
        /\ nstate' = [nstate EXCEPT ![n] = "alive"]
        /\ link' = [link EXCEPT ![n] = w]
        /\ wstate' = [wstate EXCEPT ![w] = "alive"]
        /\ nativeId' = [nativeId EXCEPT ![w] = n]
        /\ UNCHANGED <<parent, pinned, nativeDeleteDisabled, wrapperDeleteDisabled>>
    BY DEF NewPolymorphic, NewWrapper, listVars
  <1>3. /\ \A v \in Wrappers : nativeId[v] # n
        /\ \A c \in Natives : parent[c] # n /\ link[c] # w
        /\ parent[n] = NULL /\ nativeId[w] = NULL
        /\ \A j \in 1 .. Depth : Who[j] # n /\ Who[j] # w
    BY <1>2 DEF Shape, Exist, FramesFit, Links
  <1>4. Exist' /\ Links' /\ Flags'
    BY <1>2, <1>3 DEF Shape, Typed, Exist, Links, Flags
  <1>5. FramesFit' /\ NativeFrames' /\ WrapperFrames'
    BY <1>1, <1>2, <1>3 DEF Shape, Typed, Still, FramesFit, NativeFrames, WrapperFrames, Begun, Called
  <1>6. Ordered'
    BY <1>1, <1>2, <1>3 DEF Shape, Typed, Still, Ordered, Begun
  <1>7. Linked'
    BY <1>1, <1>2, <1>3 DEF Shape, Typed, Still, Linked, Usable, Begun
  <1>8. Owners'
    BY <1>1, <1>2, <1>3 DEF Shape, Typed, Still, Owners, Usable, Begun
  <1>9. Orphans'
    BY <1>1, <1>2, <1>3 DEF Shape, Typed, Still, FramesFit, Orphans
  <1>10. QED
    BY <1>4, <1>5, <1>6, <1>7, <1>8, <1>9 DEF Shape

LEMMA GetWrapperNewKeeps ==
  ASSUME TypeOK, Typed, Shape, NEW n \in Natives, NEW w \in Wrappers, getWrapperNew(n, w)
  PROVE  Shape'
  <1> USE NativesAssumption, PinListAssumption DEF IsQObject
  <1>1. Still
    BY Stays DEF getWrapperNew
  <1>2. /\ IsQObject(n) /\ link[n] = NULL /\ wstate[w] = "none"
        /\ link' = [link EXCEPT ![n] = w]
        /\ wstate' = [wstate EXCEPT ![w] = "alive"]
        /\ nativeId' = [nativeId EXCEPT ![w] = n]
        /\ pinned' = [pinned EXCEPT ![w] = TRUE]
        /\ UNCHANGED <<kind, nstate, parent, nativeDeleteDisabled, wrapperDeleteDisabled>>
    BY DEF getWrapperNew, NewWrapper, qtdPin
  <1>3. nstate[n] = "alive" \/ \E k \in 1 .. Depth : Who[k] = n /\ Where[k] = "children"
    BY VisibleSeen DEF getWrapperNew
  <1>4. /\ \A v \in Wrappers : nativeId[v] = n => ~Usable(v)
        /\ \A c \in Natives : link[c] # w
        /\ \A j \in 1 .. Depth : Who[j] # w
        /\ nativeId[w] = NULL /\ nstate[n] # "dead"
    BY <1>2, <1>3 DEF Shape, Exist, FramesFit, Links, Linked, Typed, Life
  <1>5. Exist' /\ Links' /\ Flags'
    BY <1>2, <1>4 DEF Shape, Typed, Exist, Links, Flags
  <1>6. FramesFit' /\ NativeFrames' /\ WrapperFrames'
    BY <1>1, <1>2, <1>4 DEF Shape, Typed, Still, FramesFit, NativeFrames, WrapperFrames, Begun, Called
  <1>7. Ordered'
    BY <1>1, <1>2, <1>4 DEF Shape, Typed, Still, Ordered, Begun
  <1>8. \A v \in Wrappers : Usable(v)' <=> Usable(v) \/ v = w
    BY <1>1, <1>2 DEF Still, Usable, Begun, Typed
  <1>9. Linked'
    BY <1>1, <1>2, <1>3, <1>4, <1>8 DEF Shape, Typed, Still, Linked
  <1>10. Owners'
    BY <1>1, <1>2, <1>4, <1>8 DEF Shape, Typed, Owners
  <1>11. Orphans'
    BY <1>1, <1>2 DEF Shape, Still, Orphans
  <1>12. QED
    BY <1>5, <1>6, <1>7, <1>9, <1>10, <1>11 DEF Shape

LEMMA WrapPlainKeeps ==
  ASSUME TypeOK, Typed, Shape, NEW n \in Natives, NEW w \in Wrappers, WrapPlain(n, w)
  PROVE  Shape'
  <1> USE NativesAssumption, PinListAssumption DEF IsQObject
  <1>1. Still
    BY Stays DEF WrapPlain
  <1>2. /\ kind[n] = "plain" /\ nstate[n] = "alive" /\ wstate[w] = "none"
        /\ wstate' = [wstate EXCEPT ![w] = "alive"]
        /\ nativeId' = [nativeId EXCEPT ![w] = n]
        /\ nativeDeleteDisabled' = [nativeDeleteDisabled EXCEPT ![w] = TRUE]
        /\ UNCHANGED <<kind, nstate, parent, link, pinned, wrapperDeleteDisabled>>
    BY DEF WrapPlain, NewWrapper, listVars, nativeVars
  <1>3. /\ \A c \in Natives : link[c] # w
        /\ \A j \in 1 .. Depth : Who[j] # w
        /\ nativeId[w] = NULL
    BY <1>2 DEF Shape, Exist, FramesFit, Links
  <1>4. Exist' /\ Links' /\ Flags'
    BY <1>2, <1>3 DEF Shape, Typed, Exist, Links, Flags
  <1>5. FramesFit' /\ NativeFrames' /\ WrapperFrames'
    BY <1>1, <1>2, <1>3 DEF Shape, Typed, Still, FramesFit, NativeFrames, WrapperFrames, Begun, Called
  <1>6. Ordered'
    BY <1>1, <1>2, <1>3 DEF Shape, Typed, Still, Ordered, Begun
  <1>7. \A v \in Wrappers : Usable(v)' <=> Usable(v) \/ v = w
    BY <1>1, <1>2, <1>3 DEF Still, Usable, Begun, Typed
  <1>8. Linked'
    BY <1>1, <1>2, <1>3, <1>7 DEF Shape, Typed, Still, Linked
  <1>9. Owners'
    BY <1>1, <1>2, <1>3, <1>7 DEF Shape, Typed, Owners
  <1>10. Orphans'
    BY <1>1, <1>2 DEF Shape, Still, Orphans
  <1>11. QED
    BY <1>4, <1>5, <1>6, <1>8, <1>9, <1>10 DEF Shape

LEMMA SetOwnershipNativeKeeps ==
  ASSUME TypeOK, Typed, Shape, NEW w \in Wrappers, setOwnershipNative(w)
  PROVE  Shape'
  <1> USE NativesAssumption, PinListAssumption DEF IsQObject
  <1>1. Still
    BY Stays DEF setOwnershipNative
  <1>2. /\ wstate[w] = "alive" /\ ~IsQObject(nativeId[w])
        /\ UNCHANGED <<kind, nstate, parent, link, wstate, nativeId, wrapperDeleteDisabled>>
        /\ \/ /\ kind[nativeId[w]] = "poly"
              /\ pinned' = [pinned EXCEPT ![w] = TRUE] /\ UNCHANGED nativeDeleteDisabled
           \/ /\ kind[nativeId[w]] # "poly" /\ UNCHANGED pinned
              /\ nativeDeleteDisabled' = [nativeDeleteDisabled EXCEPT ![w] = TRUE]
    BY DEF setOwnershipNative, qtdPin, listVars, nativeVars
  <1>3. \A j \in 1 .. Depth : Who[j] # w
    BY <1>2 DEF Shape, FramesFit
  <1>4. Exist' /\ Links' /\ Flags'
    BY <1>2 DEF Shape, Typed, Exist, Links, Flags
  <1>5. FramesFit' /\ NativeFrames' /\ WrapperFrames'
    BY <1>1, <1>2, <1>3 DEF Shape, Typed, Still, FramesFit, NativeFrames, WrapperFrames, Begun, Called
  <1>6. Ordered'
    BY <1>1, <1>2, <1>3 DEF Shape, Typed, Still, Ordered, Begun
  <1>7. \A v \in Wrappers : Usable(v)' <=> Usable(v)
    BY <1>1, <1>2, <1>3 DEF Still, Usable, Begun, Typed
  <1>8. Linked'
    BY <1>1, <1>2, <1>7 DEF Shape, Typed, Still, Linked
  <1>9. Owners'
    BY <1>1, <1>2, <1>7 DEF Shape, Typed, Owners
  <1>10. Orphans'
    BY <1>1, <1>2 DEF Shape, Still, Orphans
  <1>11. QED
    BY <1>4, <1>5, <1>6, <1>8, <1>9, <1>10 DEF Shape

LEMMA SetOwnershipDKeeps ==
  ASSUME TypeOK, Typed, Shape, NEW w \in Wrappers, setOwnershipD(w)
  PROVE  Shape'
  <1> USE NativesAssumption, PinListAssumption DEF IsQObject
  <1>1. Still
    BY Stays DEF setOwnershipD
  <1>2. /\ wstate[w] = "alive" /\ nstate[nativeId[w]] = "alive" /\ ~IsQObject(nativeId[w])
        /\ \A v \in Wrappers : nativeId[v] = nativeId[w] => ~Owns(v)
        /\ ~BeingDestroyed(nativeId[w])
        /\ UNCHANGED <<kind, nstate, parent, link, wstate, nativeId, wrapperDeleteDisabled>>
        /\ \/ /\ kind[nativeId[w]] = "poly"
              /\ pinned' = [pinned EXCEPT ![w] = FALSE] /\ UNCHANGED nativeDeleteDisabled
           \/ /\ kind[nativeId[w]] # "poly" /\ UNCHANGED pinned
              /\ nativeDeleteDisabled' = [nativeDeleteDisabled EXCEPT ![w] = FALSE]
    BY DEF setOwnershipD, qtdUnpin, listVars, nativeVars
  <1>3. \A j \in 1 .. Depth : Who[j] # w
    BY <1>2 DEF Shape, FramesFit
  <1>4. Exist' /\ Links' /\ Flags'
    BY <1>2 DEF Shape, Typed, Exist, Links, Flags
  <1>5. FramesFit' /\ NativeFrames' /\ WrapperFrames'
    BY <1>1, <1>2, <1>3 DEF Shape, Typed, Still, FramesFit, NativeFrames, WrapperFrames, Begun, Called
  <1>6. Ordered'
    BY <1>1, <1>2, <1>3 DEF Shape, Typed, Still, Ordered, Begun
  <1>7. \A v \in Wrappers : Usable(v)' <=> Usable(v)
    BY <1>1, <1>2, <1>3 DEF Still, Usable, Begun, Typed
  <1>8. Linked'
    BY <1>1, <1>2, <1>7 DEF Shape, Typed, Still, Linked
  <1>9. Owners'
    <2>1. ASSUME NEW v \in Wrappers, nativeId[v] = nativeId[w], v # w, Usable(v),
                 kind[nativeId[w]] = "plain"
          PROVE  nativeDeleteDisabled[v]
      <3>1. CASE wstate[v] = "alive"
        BY <1>2, <2>1, <3>1 DEF Owns, NativeOwned
      <3>2. CASE \E k \in 1 .. Depth : Begun(k, v)
        BY <1>2, <2>1, <3>2 DEF BeingDestroyed, Begun, Shape, FramesFit
      <3>3. QED
        BY <2>1, <3>1, <3>2 DEF Usable
    <2>2. QED
      BY <1>1, <1>2, <1>7, <2>1 DEF Shape, Typed, Owners
  <1>10. Orphans'
    BY <1>1, <1>2 DEF Shape, Still, Orphans
  <1>11. QED
    BY <1>4, <1>5, <1>6, <1>8, <1>9, <1>10 DEF Shape

(* Steps that change neither half of an object. *)
LEMMA RestKeeps ==
  ASSUME Shape, UNCHANGED <<nativeVars, wstate, nativeId, pinned, stack>>,
         UNCHANGED <<nativeDeleteDisabled, wrapperDeleteDisabled>>
  PROVE  Shape'
  <1>1. Still
    BY Stays
  <1>2. QED
    BY <1>1 DEF Shape, Still, nativeVars, Exist, Links, Flags, FramesFit, NativeFrames, WrapperFrames,
                Ordered, Linked, Owners, Orphans, Begun, Called, Usable, IsQObject

-----------------------------------------------------------------------------
(* Every step keeps the invariant. *)
LEMMA ShapeKept ==
  ASSUME ~AllowRepin, ObjectInv, [Next]_vars
  PROVE  Shape'
  <1>1. TypeOK /\ ListInv /\ Shape /\ Typed
    BY TypedHolds DEF ObjectInv
  <1>2. CASE UNCHANGED vars
    BY <1>1, <1>2, RestKeeps DEF vars, listVars, wrapperVars
  <1>3. ASSUME NEW w \in Wrappers, WrapperBody(w) \/ WrapperUnpin(w)
        PROVE  Shape'
    BY <1>1, <1>3, BodyDeletesKeeps, BodySkipsKeeps, WrapperUnpinKeeps
  <1>4. ASSUME NEW n \in Natives,
               \/ ShellDestroyLink(n) \/ ShellUnlink(n)
               \/ ChildrenDeleted(n) \/ DeleteUserData(n) \/ NativeFreed(n)
               \/ \E c \in Natives : DeleteChild(n, c)
        PROVE  Shape'
    BY <1>1, <1>4, ShellDestroyLinkKeeps, ShellUnlinkKeeps, ChildrenDeletedKeeps,
       DeleteUserDataKeeps, NativeFreedKeeps, DeleteChildKeeps
  <1>5. ASSUME NEW n \in Natives, NEW w \in Wrappers,
               \/ NewPolymorphic(n, w) \/ getWrapperNew(n, w) \/ WrapPlain(n, w)
               \/ \E p \in Natives \cup {NULL} : NewQObject(n, w, p)
        PROVE  Shape'
    BY <1>1, <1>5, NewPolymorphicKeeps, GetWrapperNewKeeps, WrapPlainKeeps, NewQObjectKeeps
  <1>6. ASSUME NEW n \in Natives,
               \/ getWrapperKnown(n) \/ NativeDelete(n)
               \/ \E k \in Kinds, p \in Natives \cup {NULL} : NewNative(n, k, p)
        PROVE  Shape'
    <2>1. CASE getWrapperKnown(n)
      BY <1>1, <2>1, RestKeeps DEF getWrapperKnown, listVars
    <2>2. QED
      BY <1>1, <1>6, <2>1, NativeDeleteKeeps, NewNativeKeeps
  <1>7. ASSUME NEW w \in Wrappers,
               Drop(w) \/ setOwnershipNative(w) \/ setOwnershipD(w) \/ Delete(w) \/ Collect(w)
        PROVE  Shape'
    <2>1. CASE Drop(w)
      BY <1>1, <2>1, RestKeeps DEF Drop, listVars
    <2>2. QED
      BY <1>1, <1>7, <2>1, SetOwnershipNativeKeeps, SetOwnershipDKeeps, DeleteKeeps, CollectKeeps
  <1>8. QED
    BY <1>2, <1>3, <1>4, <1>5, <1>6, <1>7 DEF Next, Destruct

LEMMA ListInvKept ==
  ASSUME ~AllowRepin, ListInv, [Next]_vars
  PROVE  ListInv'
  <1>1. [ListNext]_listVars
    <2>1. CASE UNCHANGED vars
      BY <2>1 DEF vars
    <2>2. CASE Destruct
      BY <2>2 DEF Destruct, ListNext, WrapperBody, WrapperUnpin, ShellDestroyLink, ShellUnlink,
                  ChildrenDeleted, DeleteUserData, NativeFreed, DeleteChild
    <2>3. CASE Next /\ ~Destruct
      BY <2>3 DEF Next, ListNext, NewPolymorphic, getWrapperNew, WrapPlain, NewQObject,
                  getWrapperKnown, NativeDelete, NewNative, Drop, setOwnershipNative,
                  setOwnershipD, Delete, Collect
    <2>4. QED
      BY <2>1, <2>2, <2>3
  <1>2. QED
    BY <1>1, StepKeepsInv

LEMMA InitHasInv == Init => ObjectInv
  <1> SUFFICES ASSUME Init PROVE ObjectInv
    OBVIOUS
  <1> USE NativesAssumption, PinListAssumption DEF Init
  <1>1. ListInv
    BY InitEstablishesInv
  <1>2. TypeOK
    BY <1>1 DEF TypeOK, ListInv, Kinds, Life
  <1>3. Depth = 0
    BY DEF Depth
  <1>4. Shape
    BY <1>3 DEF ListInit, Shape, Exist, Links, Flags, FramesFit, NativeFrames, WrapperFrames,
                Ordered, Linked, Owners, Orphans, Usable, IsQObject
  <1>5. QED
    BY <1>1, <1>2, <1>4 DEF ObjectInv

-----------------------------------------------------------------------------
(* Types. *)
LEMMA StacksTyped ==
  ASSUME stack \in Seq(Frames), stack # <<>>, NEW f \in Frames, NEW g \in Frames
  PROVE  /\ <<f>> \o stack \in Seq(Frames)
         /\ Tail(stack) \in Seq(Frames)
         /\ <<g>> \o Tail(stack) \in Seq(Frames)
         /\ <<f>> \o (<<g>> \o Tail(stack)) \in Seq(Frames)
  OBVIOUS

LEMMA GotoTyped ==
  ASSUME stack \in Seq(Frames)
  PROVE  /\ \A w \in Wrappers : Running("~QtdObject", w, "body") => At("unpin") \in Frames
         /\ \A n \in Natives, at \in {"shell", "unlink", "children", "userData", "end"},
               pc \in {"shell", "unlink", "children", "userData", "end"} :
              Running("~native", n, at) => At(pc) \in Frames
  BY DEF Running, At, Frames

LEMMA TypesKept ==
  ASSUME ~AllowRepin, ObjectInv, ListInv', [Next]_vars
  PROVE  TypeOK'
  <1> USE NativesAssumption, PinListAssumption
  <1>1. TypeOK /\ ListInv /\ Shape /\ Typed /\ ListTypeOK' /\ stack \in Seq(Frames)
    BY TypedHolds DEF ObjectInv, ListInv, TypeOK
  <1>2. CASE UNCHANGED vars
    BY <1>1, <1>2 DEF vars, nativeVars, wrapperVars, TypeOK
  <1>3. ASSUME NEW w \in Wrappers
        PROVE  [fn |-> "~QtdObject", id |-> w, at |-> "body"] \in Frames
    BY DEF Frames
  <1>4. ASSUME NEW n \in Natives
        PROVE  [fn |-> "~native", id |-> n, at |-> DeleteEntry(n)] \in Frames
    BY Entries DEF Frames
  <1>5. ASSUME NEW w \in Wrappers, WrapperBody(w)
        PROVE  TypeOK'
    <2>1. At("unpin") \in Frames /\ stack # <<>>
      BY <1>1, <1>5, GotoTyped DEF WrapperBody, Running
    <2>2. CASE nativeDeleteDisabled[w]
      BY <1>1, <1>5, <2>1, <2>2, StacksTyped DEF WrapperBody, TypeOK, listVars
    <2>3. CASE ~nativeDeleteDisabled[w]
      <3>1. PICK n \in Natives : n = nativeId[w]
        BY <1>1, <1>5, <2>3, BodyDeletesKeeps
      <3>2. stack' \in Seq(Frames)
        BY <1>1, <1>4, <1>5, <2>1, <2>3, <3>1, StacksTyped DEF WrapperBody, qtdDeleteNative
      <3>3. QED
        BY <1>1, <1>5, <2>3, <3>2 DEF WrapperBody, qtdDeleteNative, TypeOK, Life, listVars
    <2>4. QED
      BY <2>2, <2>3
  <1>6. ASSUME NEW w \in Wrappers, WrapperUnpin(w)
        PROVE  TypeOK'
    BY <1>1, <1>6, StacksTyped DEF WrapperUnpin, Running, TypeOK, Life, nativeVars
  <1>7. ASSUME NEW n \in Natives, ShellDestroyLink(n) \/ DeleteUserData(n)
        PROVE  TypeOK'
    <2>1. At("unlink") \in Frames /\ At("end") \in Frames /\ stack # <<>>
      BY <1>1, <1>7, GotoTyped DEF ShellDestroyLink, DeleteUserData, Running
    <2>2. ASSUME NEW pc \in {"unlink", "end"}, link[n] # NULL,
                 QtdObject_delete(link[n], <<At(pc)>> \o Tail(stack))
          PROVE  /\ stack' \in Seq(Frames) /\ wstate' \in [Wrappers -> Life]
                 /\ nativeDeleteDisabled' \in [Wrappers -> BOOLEAN]
      <3>1. PICK w \in Wrappers : w = link[n]
        BY <1>1, <2>2 DEF Typed
      <3>2. At(pc) \in Frames
        BY <2>1, <2>2
      <3>3. stack' \in Seq(Frames)
        <4>1. \/ stack' = <<At(pc)>> \o Tail(stack)
              \/ stack' = <<[fn |-> "~QtdObject", id |-> w, at |-> "body"]>>
                             \o (<<At(pc)>> \o Tail(stack))
          BY <2>2, <3>1 DEF QtdObject_delete, deleteWrapper
        <4>2. QED
          BY <1>1, <1>3, <2>1, <3>2, <4>1, StacksTyped
      <3>4. QED
        BY <1>1, <2>2, <3>3 DEF QtdObject_delete, deleteWrapper, Typed, Life
    <2>3. CASE ShellDestroyLink(n)
      <3>1. link[n] # NULL
        BY <1>1, <2>3, RunningIsLast DEF ShellDestroyLink, Last, Shape, NativeFrames, Typed
      <3>2. QED
        BY <1>1, <2>2, <2>3, <3>1 DEF ShellDestroyLink, TypeOK, nativeVars, listVars
    <2>4. CASE DeleteUserData(n) /\ link[n] = NULL
      BY <1>1, <2>1, <2>4, StacksTyped DEF DeleteUserData, TypeOK, nativeVars, listVars
    <2>5. CASE DeleteUserData(n) /\ link[n] # NULL
      BY <1>1, <2>2, <2>5 DEF DeleteUserData, TypeOK, nativeVars, listVars
    <2>6. QED
      BY <1>7, <2>3, <2>4, <2>5
  <1>8. ASSUME NEW n \in Natives, ShellUnlink(n) \/ ChildrenDeleted(n)
        PROVE  TypeOK'
    <2>1. At("children") \in Frames /\ At("userData") \in Frames /\ stack # <<>>
      BY <1>1, <1>8, GotoTyped DEF ShellUnlink, ChildrenDeleted, Running
    <2>2. CASE ShellUnlink(n)
      BY <1>1, <2>1, <2>2, StacksTyped DEF ShellUnlink, TypeOK, wrapperVars, listVars
    <2>3. CASE ChildrenDeleted(n)
      BY <1>1, <2>1, <2>3, StacksTyped DEF ChildrenDeleted, TypeOK, nativeVars, wrapperVars, listVars
    <2>4. QED
      BY <1>8, <2>2, <2>3
  <1>9. ASSUME NEW n \in Natives, NativeFreed(n)
        PROVE  TypeOK'
    BY <1>1, <1>9, StacksTyped DEF NativeFreed, Running, TypeOK, Life, wrapperVars, listVars
  <1>10. ASSUME NEW n \in Natives, NativeDelete(n) \/ \E m \in Natives : DeleteChild(m, n)
        PROVE  TypeOK'
    <2>1. /\ stack' = <<[fn |-> "~native", id |-> n, at |-> DeleteEntry(n)]>> \o stack
          /\ nstate' = [nstate EXCEPT ![n] = "dying"]
          /\ UNCHANGED <<listVars, kind, parent, link, wrapperVars>>
      BY <1>10 DEF NativeDelete, DeleteChild, qtdDeleteNative
    <2>2. stack' \in Seq(Frames)
      BY <1>1, <1>4, <2>1
    <2>3. QED
      BY <1>1, <2>1, <2>2 DEF TypeOK, Life, wrapperVars, listVars
  <1>11. ASSUME NEW w \in Wrappers, Delete(w) \/ Collect(w)
        PROVE  TypeOK'
    <2>1. /\ stack' = <<[fn |-> "~QtdObject", id |-> w, at |-> "body"]>> \o stack
          /\ wstate' = [wstate EXCEPT ![w] = "dying"]
          /\ UNCHANGED <<listVars, nativeVars, nativeId, nativeDeleteDisabled,
                         wrapperDeleteDisabled, held>>
      BY <1>11 DEF Delete, Collect, deleteWrapper
    <2>2. stack' \in Seq(Frames)
      BY <1>1, <1>3, <2>1
    <2>3. QED
      BY <1>1, <2>1, <2>2 DEF TypeOK, Life, nativeVars, listVars
  <1>12. ASSUME NEW n \in Natives, NEW w \in Wrappers,
                \/ NewPolymorphic(n, w) \/ getWrapperNew(n, w) \/ WrapPlain(n, w)
                \/ \E p \in Natives \cup {NULL} : NewQObject(n, w, p)
        PROVE  TypeOK'
    <2>1. CASE NewPolymorphic(n, w)
      BY <1>1, <2>1 DEF NewPolymorphic, NewWrapper, TypeOK, Kinds, Life
    <2>2. CASE getWrapperNew(n, w)
      BY <1>1, <2>2 DEF getWrapperNew, NewWrapper, TypeOK, Life
    <2>3. CASE WrapPlain(n, w)
      BY <1>1, <2>3 DEF WrapPlain, NewWrapper, TypeOK, Life, nativeVars
    <2>4. ASSUME NEW p \in Natives \cup {NULL}, NewQObject(n, w, p) PROVE TypeOK'
      BY <1>1, <2>4 DEF NewQObject, NewWrapper, TypeOK, Kinds, Life
    <2>5. QED
      BY <1>12, <2>1, <2>2, <2>3, <2>4
  <1>13. ASSUME NEW n \in Natives,
                getWrapperKnown(n) \/ \E k \in Kinds, p \in Natives \cup {NULL} : NewNative(n, k, p)
        PROVE  TypeOK'
    BY <1>1, <1>13 DEF getWrapperKnown, NewNative, TypeOK, Life, nativeVars, wrapperVars
  <1>14. ASSUME NEW w \in Wrappers, Drop(w) \/ setOwnershipNative(w) \/ setOwnershipD(w)
        PROVE  TypeOK'
    BY <1>1, <1>14 DEF Drop, setOwnershipNative, setOwnershipD, TypeOK, nativeVars
  <1>15. QED
    BY <1>2, <1>5, <1>6, <1>7, <1>8, <1>9, <1>10, <1>11, <1>12, <1>13, <1>14 DEF Next, Destruct

-----------------------------------------------------------------------------
LEMMA ObjectInvHolds ==
  ASSUME ~AllowRepin
  PROVE  Spec => []ObjectInv
  <1>1. ObjectInv /\ [Next]_vars => ObjectInv'
    <2> SUFFICES ASSUME ObjectInv, [Next]_vars PROVE ObjectInv'
      OBVIOUS
    <2>1. ListInv'
      BY ListInvKept DEF ObjectInv
    <2>2. QED
      BY <2>1, ShapeKept, TypesKept DEF ObjectInv
  <1>2. QED
    BY InitHasInv, <1>1, PTL DEF Spec

(* Every variable of the two halves keeps its type: no destructor is ever  *)
(* called on a null native or a null dId (QtdObject.d 213-233,             *)
(* qtd_core.cpp 80-124).                                                   *)
THEOREM ObjectsTyped ==
  ASSUME ~AllowRepin
  PROVE  Spec => []TypeOK
  <1>1. ObjectInv => TypeOK
    BY DEF ObjectInv
  <1>2. QED
    BY ObjectInvHolds, <1>1, PTL

(* A link that can be followed from C++ leads to the wrapper of its own    *)
(* native, whose memory exists.                                            *)
THEOREM LinksLeadToWrappers ==
  ASSUME ~AllowRepin
  PROVE  Spec => []LinkNeverDangles
  <1>1. ObjectInv => LinkNeverDangles
    <2> SUFFICES ASSUME ObjectInv, UserCode, NEW n \in Natives, link[n] # NULL
                 PROVE  wstate[link[n]] \in {"alive", "dying"} /\ nativeId[link[n]] = n
      BY DEF LinkNeverDangles
    <2>1. TypeOK /\ Shape /\ Typed
      BY TypedHolds DEF ObjectInv
    <2>2. wstate[link[n]] # "dead"
      BY <2>1, UserCodeLinks DEF LinksLive
    <2>3. PICK w \in Wrappers : w = link[n]
      BY <2>1 DEF Typed
    <2>4. nativeId[w] = n /\ wstate[w] # "none"
      BY <2>1, <2>3, NativesAssumption DEF Shape, Links, Exist
    <2>5. QED
      BY <2>1, <2>2, <2>3, <2>4 DEF Typed, Life
  <1>2. QED
    BY ObjectInvHolds, <1>1, PTL

(* D never holds a usable wrapper of a QObject that has been freed. *)
THEOREM WrappersGoWithQObjects ==
  ASSUME ~AllowRepin
  PROVE  Spec => []WrapperNeverOutlivesQObject
  <1>1. ObjectInv => WrapperNeverOutlivesQObject
    <2> SUFFICES ASSUME ObjectInv, NEW w \in Wrappers, wstate[w] = "alive", IsQObject(nativeId[w])
                 PROVE  nstate[nativeId[w]] \in {"alive", "dying"}
      BY DEF WrapperNeverOutlivesQObject
    <2>1. TypeOK /\ Shape /\ Typed
      BY TypedHolds DEF ObjectInv
    <2>2. PICK n \in Natives : n = nativeId[w]
      BY <2>1 DEF Shape, Exist, Typed
    <2>3. QED
      BY <2>1, <2>2 DEF Shape, Linked, FramesFit
  <1>2. QED
    BY ObjectInvHolds, <1>1, PTL

(* A QObject never has two usable wrappers (isSame, lines 140-142). *)
THEOREM QObjectWrapperIsUnique ==
  ASSUME ~AllowRepin
  PROVE  Spec => []UniqueQObjectWrapper
  <1>1. ObjectInv => UniqueQObjectWrapper
    <2> SUFFICES ASSUME ObjectInv, NEW v \in Wrappers, NEW w \in Wrappers,
                        wstate[v] = "alive", wstate[w] = "alive",
                        nativeId[v] = nativeId[w], IsQObject(nativeId[v])
                 PROVE  v = w
      BY DEF UniqueQObjectWrapper
    <2>1. TypeOK /\ Shape /\ Typed
      BY TypedHolds DEF ObjectInv
    <2>2. PICK n \in Natives : n = nativeId[v]
      BY <2>1 DEF Shape, Exist, Typed
    <2>3. link[n] = v /\ link[n] = w
      BY <2>1, <2>2 DEF Shape, Linked, Usable
    <2>4. QED
      BY <2>3
  <1>2. QED
    BY ObjectInvHolds, <1>1, PTL

(* The collector never takes a wrapper that C++ still needs. *)
THEOREM NeededWrapperIsKept ==
  ASSUME ~AllowRepin
  PROVE  Spec => []NeededWrapperKept
  <1>1. ObjectInv => NeededWrapperKept
    <2> SUFFICES ASSUME ObjectInv, NEW w \in Wrappers, wstate[w] = "alive",
                        \/ IsQObject(nativeId[w])
                        \/ kind[nativeId[w]] = "poly" /\ NativeOwned(w)
                 PROVE  w \in Shielded
      BY DEF NeededWrapperKept
    <2>1. TypeOK /\ Shape /\ Typed /\ ListInv
      BY TypedHolds DEF ObjectInv
    <2>2. PICK n \in Natives : n = nativeId[w]
      BY <2>1 DEF Shape, Exist, Typed
    <2>3. pinned[w]
      BY <2>1, <2>2 DEF Shape, Flags, NativeOwned
    <2>4. QED
      BY <2>1, <2>3, ShieldedIsPinned DEF Pinned
  <1>2. QED
    BY ObjectInvHolds, <1>1, PTL

(* When the outermost destructor returns, the wrapper of a freed QObject   *)
(* is freed and off the pin list, and its children are gone.               *)
THEOREM NothingHalfDestroyed ==
  ASSUME ~AllowRepin
  PROVE  Spec => []DestructionIsComplete
  <1>1. ObjectInv => DestructionIsComplete
    <2> SUFFICES ASSUME ObjectInv, stack = <<>>, NEW n \in Natives, nstate[n] = "dead"
                 PROVE  /\ \A c \in Natives : parent[c] = n => nstate[c] = "dead"
                        /\ IsQObject(n) => \A w \in Wrappers : nativeId[w] = n =>
                                             wstate[w] = "dead" /\ ~pinned[w]
      BY DEF DestructionIsComplete
    <2>1. TypeOK /\ Shape /\ Typed /\ Depth = 0
      BY TypedHolds DEF ObjectInv, Depth
    <2>2. ASSUME NEW c \in Natives, parent[c] = n PROVE nstate[c] = "dead"
      <3>1. nstate[c] # "alive" /\ nstate[c] # "dying"
        BY <2>1, <2>2 DEF Shape, Orphans, FramesFit
      <3>2. nstate[c] # "none"
        BY <2>1, <2>2, NativesAssumption DEF Shape, Exist, IsQObject
      <3>3. QED
        BY <2>1, <3>1, <3>2 DEF Typed, Life
    <2>3. ASSUME NEW w \in Wrappers, nativeId[w] = n, IsQObject(n)
          PROVE  wstate[w] = "dead" /\ ~pinned[w]
      <3>1. wstate[w] # "alive" /\ wstate[w] # "dying"
        BY <2>1, <2>3 DEF Shape, Linked, FramesFit
      <3>2. wstate[w] # "none"
        BY <2>1, <2>3, NativesAssumption DEF Shape, Exist
      <3>3. wstate[w] = "dead"
        BY <2>1, <3>1, <3>2 DEF Typed, Life
      <3>4. QED
        BY <2>1, <3>3 DEF Shape, Flags
    <2>4. QED
      BY <2>2, <2>3
  <1>2. QED
    BY ObjectInvHolds, <1>1, PTL

(* What is dead stays dead: each call of a destructor is made on a half    *)
(* that exists.                                                            *)
LEMMA DeadStaysDead ==
  ASSUME ObjectInv, Next
  PROVE  /\ \A n \in Natives : nstate[n] = "dead" => nstate'[n] = "dead"
         /\ \A w \in Wrappers : wstate[w] = "dead" => wstate'[w] = "dead"
  <1> DEFINE Goal == /\ \A n \in Natives : nstate[n] = "dead" => nstate'[n] = "dead"
                     /\ \A w \in Wrappers : wstate[w] = "dead" => wstate'[w] = "dead"
  <1>1. TypeOK /\ Shape /\ Typed
    BY TypedHolds DEF ObjectInv
  <1>2. ASSUME NEW w \in Wrappers, WrapperBody(w) PROVE Goal
    <2>1. CASE nativeDeleteDisabled[w]
      BY <1>2, <2>1 DEF WrapperBody
    <2>2. CASE ~nativeDeleteDisabled[w]
      <3>1. nativeId[w] \in Natives /\ nstate[nativeId[w]] = "alive"
        BY <1>1, <1>2, <2>2, BodyDeletesKeeps
      <3>2. QED
        BY <1>1, <1>2, <2>2, <3>1 DEF WrapperBody, qtdDeleteNative, Typed
    <2>3. QED
      BY <2>1, <2>2
  <1>3. ASSUME NEW w \in Wrappers, WrapperUnpin(w) PROVE Goal
    BY <1>1, <1>3 DEF WrapperUnpin, Typed, nativeVars
  <1>4. ASSUME NEW n \in Natives, ShellDestroyLink(n) \/ DeleteUserData(n) PROVE Goal
    BY <1>1, <1>4, ShellDestroyLinkKeeps, DeleteUserDataKeeps DEF Typed
  <1>5. ASSUME NEW n \in Natives, ShellUnlink(n) \/ ChildrenDeleted(n) PROVE Goal
    BY <1>5 DEF ShellUnlink, ChildrenDeleted, nativeVars, wrapperVars
  <1>6. ASSUME NEW n \in Natives, NativeFreed(n) PROVE Goal
    BY <1>1, <1>6 DEF NativeFreed, wrapperVars, Typed
  <1>7. ASSUME NEW n \in Natives, NativeDelete(n) \/ \E m \in Natives : DeleteChild(m, n) PROVE Goal
    BY <1>1, <1>7 DEF NativeDelete, MayDelete, DeleteChild, qtdDeleteNative, wrapperVars, Typed
  <1>8. ASSUME NEW w \in Wrappers, Delete(w) \/ Collect(w) PROVE Goal
    BY <1>1, <1>8 DEF Delete, Collect, deleteWrapper, nativeVars, Typed
  <1>9. ASSUME NEW n \in Natives, NEW w \in Wrappers,
               \/ NewPolymorphic(n, w) \/ getWrapperNew(n, w) \/ WrapPlain(n, w)
               \/ \E p \in Natives \cup {NULL} : NewQObject(n, w, p)
        PROVE  Goal
    BY <1>1, <1>9 DEF NewPolymorphic, getWrapperNew, WrapPlain, NewQObject, NewWrapper, nativeVars, Typed
  <1>10. ASSUME NEW n \in Natives,
                getWrapperKnown(n) \/ \E k \in Kinds, p \in Natives \cup {NULL} : NewNative(n, k, p)
         PROVE  Goal
    BY <1>1, <1>10 DEF getWrapperKnown, NewNative, nativeVars, wrapperVars, Typed
  <1>11. ASSUME NEW w \in Wrappers, Drop(w) \/ setOwnershipNative(w) \/ setOwnershipD(w) PROVE Goal
    BY <1>11 DEF Drop, setOwnershipNative, setOwnershipD, nativeVars
  <1>12. QED
    BY <1>2, <1>3, <1>4, <1>5, <1>6, <1>7, <1>8, <1>9, <1>10, <1>11 DEF Next, Destruct

(* "avoid deleting D object twice", "Avoid deleting native object twice":  *)
(* no destructor is entered while it runs or after it has run.             *)
THEOREM DestructorsRunOnce ==
  ASSUME ~AllowRepin
  PROVE  Spec => DestroyedOnce
  <1>1. ObjectInv /\ ObjectInv' /\ [Next]_vars =>
          [ /\ \A i, j \in DOMAIN stack' : stack'[i].id = stack'[j].id => i = j
            /\ \A n \in Natives : nstate[n] = "dead" => nstate'[n] = "dead"
            /\ \A w \in Wrappers : wstate[w] = "dead" => wstate'[w] = "dead" ]_vars
    <2> SUFFICES ASSUME ObjectInv, ObjectInv', Next
                 PROVE  /\ \A i, j \in DOMAIN stack' : stack'[i].id = stack'[j].id => i = j
                        /\ \A n \in Natives : nstate[n] = "dead" => nstate'[n] = "dead"
                        /\ \A w \in Wrappers : wstate[w] = "dead" => wstate'[w] = "dead"
      OBVIOUS
    <2>1. ASSUME NEW i \in DOMAIN stack', NEW j \in DOMAIN stack', stack'[i].id = stack'[j].id
          PROVE  i = j
      <3>1. stack' \in Seq(Frames) /\ FramesFit'
        BY DEF ObjectInv, TypeOK, Shape
      <3>2. Len(stack') \in Nat /\ i \in 1 .. Len(stack') /\ j \in 1 .. Len(stack')
        BY <3>1
      <3>3. /\ Len(stack') + 1 - i \in 1 .. Len(stack')
            /\ Len(stack') + 1 - (Len(stack') + 1 - i) = i
            /\ Len(stack') + 1 - j \in 1 .. Len(stack')
            /\ Len(stack') + 1 - (Len(stack') + 1 - j) = j
        BY <3>2
      <3>4. Who'[Len(stack') + 1 - i] = Who'[Len(stack') + 1 - j]
        BY <2>1, <3>3 DEF Who
      <3>5. Len(stack') + 1 - i = Len(stack') + 1 - j
        BY <3>1, <3>3, <3>4 DEF FramesFit, Depth
      <3>6. QED
        BY <3>2, <3>5
    <2>2. QED
      BY <2>1, DeadStaysDead
  <1>2. QED
    BY ObjectInvHolds, <1>1, PTL DEF Spec, DestroyedOnce
=============================================================================
