-------------------------- MODULE MCSomeIpMessage --------------------------
(* SomeIpMessage with an empty, a short and a longer payload and 6-bit lengths. *)
EXTENDS SomeIpMessage

Sizes == [i \in Ids |-> CASE i = 1 -> 0 [] i = 2 -> 3 [] OTHER -> 20]
=============================================================================
