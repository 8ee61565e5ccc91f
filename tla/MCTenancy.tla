------------------------------- MODULE MCTenancy -------------------------------
(* Constants of the run of Tenancy: the settings an operator may write. *)
EXTENDS Tenancy, TLC

CONSTANTS k1, k2, stranger, own, shared, base

Env(auth, allow, tenants) == [auth |-> auth, allow |-> allow, tenants |-> tenants]
Bound(keys, collection) == [key_hashes |-> keys, collection |-> collection]

\* Two of them do not validate (no keys; a key in two groups), one leaves a
\* tenant without its collection, one changes hands.
MCEnvironments ==
    { Env(FALSE, {k1}, << >>),
      Env(TRUE, {}, << >>),
      Env(TRUE, {k1}, <<Bound({k2}, own)>>),
      Env(TRUE, {k1}, <<Bound({k1}, own), Bound({k2}, shared)>>),
      Env(TRUE, {}, <<Bound({k1}, shared), Bound({k2}, own)>>),
      Env(TRUE, {k2}, <<Bound({k1}, own)>>) }

MCSymmetry == Permutations(Request)
=============================================================================
