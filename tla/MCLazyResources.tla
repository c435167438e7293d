-------------------------- MODULE MCLazyResources ---------------------------
(* Instance of LazyResources for TLC. *)
EXTENDS LazyResources

CONSTANTS r1, r2

(* The first request asks what the warm-up asked, the second asks anew. *)
MCQuery == [c \in {"search", r1, r2} |-> IF c = r2 THEN 4 ELSE 3]
=============================================================================
