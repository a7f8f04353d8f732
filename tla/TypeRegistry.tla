---------------------------- MODULE TypeRegistry ----------------------------
(* What meta!T promises (d2/qtd/meta/Runtime.d): a type is registered once *)
(* for all threads, after its base, and every thread that asks learns of   *)
(* that registration and no other.                                         *)

CONSTANTS NULL, Types, Threads,
          BaseOf        \* the base of a type; NULL: none

VARIABLES registered, known

Init == registered = {} /\ known = [th \in Threads |-> {}]

Register(t) ==
  /\ t \notin registered
  /\ BaseOf[t] # NULL => BaseOf[t] \in registered
  /\ registered' = registered \cup {t}
  /\ UNCHANGED known

Learn(th, t) ==
  /\ t \in registered
  /\ known' = [known EXCEPT ![th] = @ \cup {t}]
  /\ UNCHANGED registered

Next == \E t \in Types : Register(t) \/ \E th \in Threads : Learn(th, t)

Spec == Init /\ [][Next]_<<registered, known>>
=============================================================================
