------------------------------ MODULE MCConfig ------------------------------
(* Constants of the TLC instances of Config. *)
EXTENDS Config, TLC

\* The handler threads are interchangeable.
HandlerSymmetry == Permutations(Handlers)
=============================================================================
