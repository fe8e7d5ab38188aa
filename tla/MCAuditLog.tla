------------------------------ MODULE MCAuditLog ----------------------------
(* The instances of AuditLog that TLC checks. *)
EXTENDS AuditLog
=============================================================================
