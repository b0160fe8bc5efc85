---------------------------- MODULE MCAioWriter ----------------------------
(* file_writer with a ring of three buffers. *)
EXTENDS AioWriter
=============================================================================
