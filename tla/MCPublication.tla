----------------------------- MODULE MCPublication -----------------------------
(* Bounded instances of Publication. *)
EXTENDS Publication

================================================================================
