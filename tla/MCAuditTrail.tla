----------------------------- MODULE MCAuditTrail -----------------------------
(* Instances of AuditTrail for TLC. *)
EXTENDS AuditTrail

CONSTANTS server, console
=============================================================================
