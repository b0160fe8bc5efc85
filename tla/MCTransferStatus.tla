-------------------------- MODULE MCTransferStatus --------------------------
(* Three transfers in a row, of three pieces of data each. *)
EXTENDS TransferStatus
=============================================================================
