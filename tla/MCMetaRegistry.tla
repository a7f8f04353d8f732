--------------------------- MODULE MCMetaRegistry ---------------------------
(* Meta-objects, for TLC: a base class with two subclasses, one of which   *)
(* has a subclass.                                                         *)
EXTENDS MetaRegistry

CONSTANTS root, left, right, leaf

MCTypes  == {root, left, right, leaf}
MCBaseOf == [t \in MCTypes |-> CASE t = root -> NULL
                                 [] t \in {left, right} -> root
                                 [] t = leaf -> left]
=============================================================================
