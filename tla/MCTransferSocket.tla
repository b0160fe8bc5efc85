-------------------------- MODULE MCTransferSocket --------------------------
(* The data connection, model-checked for small files. *)
EXTENDS TransferSocket
=============================================================================
