---------------------------- MODULE MCSessionOut ----------------------------
(* Small instances of SessionOut: the constants the configurations use. *)
EXTENDS SessionOut

CONSTANTS a, b, c  \* messages

QosOf == [m \in Msgs |-> CASE m = a -> 2 [] m = b -> 1 [] OTHER -> 2]
=============================================================================
