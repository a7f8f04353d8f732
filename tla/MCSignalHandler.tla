--------------------------- MODULE MCSignalHandler ---------------------------
(* One handler, for TLC: a function, a delegate connected with NoObject    *)
(* and delegates of one object.                                            *)
EXTENDS SignalHandler

CONSTANTS f, plain, method, object,
          Limits,     \* per signal, the bounds of its three lists
          Waiting     \* disconnections that may wait on the first signal

MCFunctions == {f}
MCDelegates == {method, plain}
MCObjects   == {object}
MCObjectOf  == [d \in MCDelegates |-> IF d = plain THEN NULL ELSE object]

MCMaxSlots ==
  [s \in Signals |-> [l \in Lists |-> Limits[s + 1][CHOOSE i \in 1 .. 3 : ListOrder[i] = l]]]

(* Disconnections wait on the first signal only.                           *)
MCMaxDelayed == [s \in Signals |-> IF s = 0 THEN Waiting ELSE 0]

(* One slot in each list of the first signal; functions pile up on the     *)
(* second.                                                                 *)
OneAndMany == <<<<1, 1, 1>>, <<2, 1, 0>>>>
TwoDelegates == <<<<1, 2, 1>>>>
OneEach == <<<<1, 1, 1>>>>
=============================================================================
