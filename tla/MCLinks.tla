------------------------------- MODULE MCLinks ------------------------------
(***************************************************************************)
(* Three nodes: 1 and 2 of one network dial each other; 3, of another      *)
(* network, dials 1.                                                       *)
(***************************************************************************)
EXTENDS Links

MCTargets == [n \in Node |-> CASE n = 1 -> {2} [] n = 2 -> {1} [] OTHER -> {1}]
MCNetId == [n \in Node |-> IF n = 3 THEN 8 ELSE 7]

=============================================================================
