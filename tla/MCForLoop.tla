------------------------------ MODULE MCForLoop ------------------------------
(* Instances of ForLoop: lists of a few items, one or two variables. *)
EXTENDS ForLoop
=============================================================================
