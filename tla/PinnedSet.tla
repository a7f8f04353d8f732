------------------------------ MODULE PinnedSet ------------------------------
(***************************************************************************)
(* What qtdPin and qtdUnpin of d2/qtd/QtdObject.d promise: "Disables GC    *)
(* for this object" and "Enables GC for this object".  The only state is   *)
(* the set of wrappers the collector is kept away from.                    *)
(***************************************************************************)
CONSTANT Wrappers

VARIABLE shielded     \* the wrappers the collector may not take

Init == shielded = {}

Disable(w) == /\ w \notin shielded
              /\ shielded' = shielded \cup {w}

Enable(w) == /\ w \in shielded
             /\ shielded' = shielded \ {w}

Next == \E w \in Wrappers : Disable(w) \/ Enable(w)

Spec == Init /\ [][Next]_shielded
=============================================================================
