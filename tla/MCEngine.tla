------------------------------ MODULE MCEngine ------------------------------
(* An engine that is given three commands. *)
EXTENDS Engine
=============================================================================
