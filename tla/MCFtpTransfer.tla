--------------------------- MODULE MCFtpTransfer ---------------------------
(* A logon and two operations on one control connection. *)
EXTENDS FtpTransfer
=============================================================================
