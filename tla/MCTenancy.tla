----------------------------- MODULE MCTenancy -----------------------------
(* Values for TLC. *)
EXTENDS Tenancy, TLC

CONSTANTS q1, q2, t1, t2, platform, c1

Change(status, required, extend) ==
    [status |-> status, required |-> required, extend |-> extend]

\* One field at a time, and an extension of a tenant that is disabled with it.
SomeChanges ==
    {Change("active", None, 0), Change("disabled", None, 0), Change(None, "on", 0),
     Change(None, "off", 0), Change(None, None, 1), Change("disabled", None, 1)}

RequestSymmetry == Permutations(Requests)
TenantSymmetry == Permutations(Tenants \ {Platform})
Symmetry == RequestSymmetry \cup TenantSymmetry
=============================================================================
