------------------------------- MODULE MCWifi -------------------------------
(* Small instances of the WiFi for TLC. *)
EXTENDS Wifi, TLC

\* The threads that call actions are interchangeable.
CallerSymmetry == Permutations(Callers)
=============================================================================
