-------------------------- MODULE MCPrivilegedApply -------------------------
(* The instances of PrivilegedApply that TLC checks.  TLC evaluates the     *)
(* claims of MCRecovery, which are about the requests of this route and the *)
(* recovery on a remote host, before it starts.                             *)
EXTENDS PrivilegedApply, MCRecovery
=============================================================================
