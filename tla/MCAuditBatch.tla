---------------------------- MODULE MCAuditBatch ----------------------------
(* Instances of AuditBatch for TLC. *)
EXTENDS AuditBatch
=============================================================================
