----------------------------- MODULE MCAuditChain -----------------------------
(* Constants for the runs of AuditChain. *)
EXTENDS AuditChain

Migrated == {<<>>, <<"login", "sync">>}
=============================================================================
