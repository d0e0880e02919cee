---------------------------- MODULE MCWebSocket ----------------------------
(* Small instances of the connection pool for TLC. *)
EXTENDS WebSocket, TLC

\* Connections are interchangeable; slots are not (the search is ordered).
ConnSymmetry == Permutations(Conns)
=============================================================================
