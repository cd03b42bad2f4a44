---------------------------- MODULE MCSessionLoop ----------------------------
(* SessionLoop for TLC: a session with a pair of messages to fold and a     *)
(* retrieved chunk to drop, and sizes near every limit of the engine.       *)
EXTENDS SessionLoop, TLC

OneSession == {[pairs |-> 1, memory |-> 0, chunks |-> 1]}
=============================================================================
