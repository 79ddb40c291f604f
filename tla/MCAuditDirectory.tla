-------------------------- MODULE MCAuditDirectory --------------------------
(* Instances of AuditDirectory for TLC. *)
EXTENDS AuditDirectory

TailOnly == {"tail"}
=============================================================================
