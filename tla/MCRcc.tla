------------------------------ MODULE MCRcc ------------------------------
(* Three files in up to three levels; d names a directory in two places,   *)
(* e and f have the same hash, one file is empty, one is too big and one   *)
(* does not exist.                                                         *)
EXTENDS Rcc

MCAliases == {<<"f">>, <<"d">>, <<"d", "e">>, <<"d", "d", "f">>, <<"e", "f">>}
MCSizes == [empty |-> 0, small |-> 2, big |-> 9, gone |-> 0]
MCWidths == [d |-> 2, e |-> 1, f |-> 1]
MCHash == [d |-> 5, e |-> 3, f |-> 3]

========================================================================
