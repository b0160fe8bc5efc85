-------------------------- MODULE MCAsciiTransfer --------------------------
(* ASCII transfers, model-checked for every short file and every way to cut it. *)
EXTENDS AsciiTransfer
=============================================================================
