-------------------------- MODULE MCConnectionPool --------------------------
(* Instances of ConnectionPool for TLC. *)
EXTENDS ConnectionPool, TLC

(* Threads and connections are interchangeable in safety runs. *)
Interchangeable == Permutations(Threads) \union Permutations(Conn)
=============================================================================
