---------------------------- MODULE MCAioReader ----------------------------
(* file_reader with a ring of two buffers and a file of up to two and a half
   of them. *)
EXTENDS AioReader
=============================================================================
