------------------------------ MODULE MCPdpAudit ------------------------------
(* A small instance of PdpAudit with its invariant: see MCPdpAudit.cfg. *)
EXTENDS PdpAuditInv
==============================================================================
