------------------------------- MODULE PinList -------------------------------
(***************************************************************************)
(* The list of pinned wrappers of the D2 runtime (d2/qtd/QtdObject.d).  A  *)
(* wrapper is an object of the D garbage collector.  While C++ owns the    *)
(* native half, nothing on the D side need refer to the wrapper, so it is  *)
(* threaded on an intrusive doubly linked list whose head _root is a       *)
(* static variable, hence a root of the collector.                         *)
(*                                                                         *)
(* qtdUnpin leaves the _prev and _next of the wrapper it takes out as they *)
(* were, and qtdPin does not reset _prev.  AllowRepin says whether a       *)
(* wrapper may be pinned a second time; the list keeps its promise only    *)
(* while it may not.                                                       *)
(***************************************************************************)
CONSTANTS Wrappers,       \* the D objects that can be pinned
          NULL,           \* the null reference
          AllowRepin      \* may a wrapper be pinned again after qtdUnpin?

ASSUME PinListAssumption == NULL \notin Wrappers /\ AllowRepin \in BOOLEAN

VARIABLES root,           \* __gshared static This _root
          next,           \* This _next
          prev,           \* This _prev
          pinned,         \* _flags.pinned
          pinnedBefore    \* the wrappers qtdPin was ever called on

listVars == <<root, next, prev, pinned, pinnedBefore>>

ListTypeOK == /\ root \in Wrappers \cup {NULL}
              /\ next \in [Wrappers -> Wrappers \cup {NULL}]
              /\ prev \in [Wrappers -> Wrappers \cup {NULL}]
              /\ pinned \in [Wrappers -> BOOLEAN]
              /\ pinnedBefore \in SUBSET Wrappers

ListInit == /\ root = NULL
            /\ next = [w \in Wrappers |-> NULL]
            /\ prev = [w \in Wrappers |-> NULL]
            /\ pinned = [w \in Wrappers |-> FALSE]
            /\ pinnedBefore = {}

(* Variants of qtdPin and qtdUnpin with a plausible bug each; MCPinList     *)
(* must reject them.                                                       *)
PinWith(w, nextValue, prevValue, flag) ==
  /\ ~pinned[w]
  /\ w \in pinnedBefore => AllowRepin
  /\ next' = nextValue /\ root' = w /\ prev' = prevValue
  /\ pinned' = [pinned EXCEPT ![w] = flag]
  /\ pinnedBefore' = pinnedBefore \cup {w}

qtdPin_NoBackLink(w) == PinWith(w, [next EXCEPT ![w] = root], prev, TRUE)
qtdPin_NoNext(w) == PinWith(w, next, IF root = NULL THEN prev ELSE [prev EXCEPT ![root] = w], TRUE)
qtdPin_WrongFlag(w) == PinWith(w, [next EXCEPT ![w] = root], prev, root)

UnpinWith(w, rootValue, nextValue) ==
  /\ pinned[w]
  /\ root' = rootValue /\ next' = nextValue
  /\ prev' = IF next[w] = NULL THEN prev ELSE [prev EXCEPT ![next[w]] = prev[w]]
  /\ pinned' = [pinned EXCEPT ![w] = FALSE]
  /\ UNCHANGED pinnedBefore

qtdUnpin_MovesRoot(w) == UnpinWith(w, next[w], next)
qtdUnpin_KeepsNext(w) == UnpinWith(w, IF prev[w] = NULL THEN next[w] ELSE root, next)

(* qtdPin: push the wrapper in front of the list. *)
qtdPin(w) ==
  /\ ~pinned[w]
  /\ w \in pinnedBefore => AllowRepin
  /\ next' = [next EXCEPT ![w] = root]
  /\ root' = w
  /\ prev' = IF root = NULL THEN prev ELSE [prev EXCEPT ![root] = w]
  /\ pinned' = [pinned EXCEPT ![w] = TRUE]
  /\ pinnedBefore' = pinnedBefore \cup {w}

(* qtdUnpin: unlink the wrapper; its own two pointers keep their values. *)
qtdUnpin(w) ==
  /\ pinned[w]
  /\ IF prev[w] = NULL
     THEN root' = next[w] /\ next' = next
     ELSE root' = root /\ next' = [next EXCEPT ![prev[w]] = next[w]]
  /\ prev' = IF next[w] = NULL THEN prev ELSE [prev EXCEPT ![next[w]] = prev[w]]
  /\ pinned' = [pinned EXCEPT ![w] = FALSE]
  /\ UNCHANGED pinnedBefore

ListNext == \E w \in Wrappers : qtdPin(w) \/ qtdUnpin(w)

ListSpec == ListInit /\ [][ListNext]_listVars

-----------------------------------------------------------------------------
Pinned == {w \in Wrappers : pinned[w]}

(* S is closed under the references the collector follows, and holds the   *)
(* objects in roots.  The collector keeps the least such set.              *)
Closed(S, roots) ==
  /\ roots \subseteq S
  /\ \A w \in S : {next[w], prev[w]} \ {NULL} \subseteq S

Marked(roots) ==
  {w \in Wrappers : \A S \in SUBSET Wrappers : Closed(S, roots) => w \in S}

(* The wrappers the static variable _root alone keeps alive. *)
Shielded == Marked({root} \ {NULL})

PS == INSTANCE PinnedSet WITH shielded <- Shielded

(* Neighbours agree about each other, the first wrapper is the root, and   *)
(* no pointer of a pinned wrapper leads off the list: what qtdUnpin needs  *)
(* to take any wrapper out from anywhere in the list.                      *)
WellLinked ==
  /\ root # NULL => pinned[root]
  /\ \A w \in Pinned :
       /\ prev[w] = NULL <=> root = w
       /\ next[w] # NULL => pinned[next[w]] /\ prev[next[w]] = w
       /\ prev[w] # NULL => pinned[prev[w]] /\ next[prev[w]] = w

(* "Disables GC for this object" (qtdPin, line 118): the collector reaches *)
(* every pinned wrapper from _root, whatever was pinned and unpinned, in   *)
(* whatever order, before.                                                 *)
GCKeepsPinned == Pinned \subseteq Shielded

(* "Enables GC for this object" (qtdUnpin, line 150): a wrapper that is    *)
(* not pinned is not kept alive by _root.                                  *)
GCReleasesUnpinned == Shielded \subseteq Pinned

(* The list implements the set: each call shields or releases exactly its  *)
(* own wrapper from the collector, never a neighbour.                      *)
ImplementsPinnedSet == PS!Spec
=============================================================================
