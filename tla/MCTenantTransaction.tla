------------------------ MODULE MCTenantTransaction ------------------------
(* Two branches in blocks two deep.                                        *)
EXTENDS TenantTransaction

CONSTANTS a, b
===========================================================================
