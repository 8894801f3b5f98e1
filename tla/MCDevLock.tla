------------------------------ MODULE MCDevLock ------------------------------
(* Instances of DevLock for TLC. *)
EXTENDS DevLock
=============================================================================
