---------------------------- MODULE MCDispatch -----------------------------
(***************************************************************************)
(* Dispatch for an agent with a singular metric, a metric with instances   *)
(* and a read-only one with instances; the client also asks for a PMID     *)
(* that was never registered.                                              *)
(***************************************************************************)
EXTENDS Dispatch

CONSTANTS single, array, readonly, unknown, d

MCPMIDs == {single, array, readonly, unknown}

MCMetrics ==
  [m \in {single, array, readonly} |->
     [domain |-> IF m = single THEN NoDomain ELSE d, storable |-> m # readonly]]

\* PM_ERR_SIGN and PM_ERR_AGAIN.
ErrorCodes == {-12347, -11}

Cache == INSTANCE Cache

\* A cache with an active entry and an inactive one.
Instanced == Cache!Stored(Cache!AllInactive(Cache!Stored(Cache!EmptyCache, "old", 0)), "new", 1)

\* The same, and what cache::lookup throws for ids and names of this cache, and
\* for some it does not have.
CacheCodes == ErrorCodes \cup Cache!LookupCodes(Instanced, 0..2, {"old", "new", "none"})
=============================================================================
