---------------------------- MODULE MCPromises ----------------------------
(* The instance of Promises: MCProxyFS's file and its directory.             *)
EXTENDS Promises, MCProxyFS
=============================================================================
