----------------------------- MODULE MCSafeApply ----------------------------
(* The instances of SafeApply that TLC checks. *)
EXTENDS SafeApply
=============================================================================
