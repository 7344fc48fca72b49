---------------------------- MODULE MCServeShutdown ----------------------------
(* Small instances of ServeShutdown.                                         *)
EXTENDS ServeShutdown
=============================================================================
