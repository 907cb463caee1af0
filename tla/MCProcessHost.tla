--------------------------- MODULE MCProcessHost ---------------------------
(* One task of a tenant, with a cron expression.                           *)
EXTENDS ProcessHost

CONSTANTS t1, p1, p2

Owners == [t \in Tasks |-> "acme"]
=============================================================================
