------------------------------ MODULE MCStoreLink ------------------------------
(* Instances of StoreLink for TLC. *)
EXTENDS StoreLink
=============================================================================
