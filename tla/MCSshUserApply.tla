---------------------------- MODULE MCSshUserApply --------------------------
(* SshUserApply with one editor's content and two edits.  Its run also     *)
(* evaluates the claims of MCPlanning and MCDiagnosis, which have no state *)
(* of their own.                                                           *)
EXTENDS SshUserApply, MCPlanning, MCDiagnosis
=============================================================================
