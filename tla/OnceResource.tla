---------------------------- MODULE OnceResource ----------------------------
(***************************************************************************)
(* What the double-checked locks of backend/src/catalog.py promise of the  *)
(* PostgreSQL pool and of the Qdrant client: it is built by one caller at  *)
(* a time, an attempt that fails leaves nothing behind and lets the next   *)
(* caller try, and what has been published is never built again.           *)
(***************************************************************************)
CONSTANTS Callers, Nobody

VARIABLES
  open,        (* the resource is published *)
  builder      (* the caller building it, or Nobody *)

Init == open = FALSE /\ builder = Nobody

Begin ==
  /\ ~open /\ builder = Nobody
  /\ builder' \in Callers
  /\ open' = open

Publish ==
  /\ ~open /\ builder \in Callers
  /\ open' = TRUE
  /\ builder' = Nobody

Abandon ==
  /\ ~open /\ builder \in Callers
  /\ builder' = Nobody
  /\ open' = open

Next == Begin \/ Publish \/ Abandon

Spec == Init /\ [][Next]_<<open, builder>>
=============================================================================
