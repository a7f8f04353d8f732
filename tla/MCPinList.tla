------------------------------ MODULE MCPinList ------------------------------
(* The pin list on its own, for TLC. *)
EXTENDS PinList
=============================================================================
