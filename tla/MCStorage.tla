------------------------------ MODULE MCStorage -----------------------------
(***************************************************************************)
(* A small instance of Storage: two branches, of two and of three blocks,  *)
(* that part above the first block.                                        *)
(***************************************************************************)
EXTENDS Storage

\* 0 <- 1 <- 2 and 1 <- 3 <- 4.
MCTree == <<[parent |-> 0, height |-> 1], [parent |-> 1, height |-> 2],
            [parent |-> 1, height |-> 2], [parent |-> 3, height |-> 3]>>

=============================================================================
