---------------------------- MODULE MCTcpServer ----------------------------
(* A model-checking instance of the master.                                *)
EXTENDS TcpServer
=============================================================================
