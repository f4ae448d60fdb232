------------------------------- MODULE Cache -------------------------------
(***************************************************************************)
(* pcp::cache: the functions that an agent calls to keep the instances of  *)
(* a domain in the pmdaCache of libpcp_pmda.  Each turns a status of the   *)
(* C function behind it into a result or into a pcp::exception with that   *)
(* status as its code.                                                     *)
(*                                                                         *)
(* The module has no state: a cache is a value, `entries', which maps the  *)
(* name of an instance to its id, status and opaque pointer.  An outcome   *)
(* is a value returned, or the code of the exception thrown.               *)
(***************************************************************************)
EXTENDS Integers, FiniteSets

\* Statuses of an entry, both positive, and of a failed call, negative.
PMDA_CACHE_ACTIVE   == 8
PMDA_CACHE_INACTIVE == 9
PM_ERR_INST         == -12359

\* lookup_flags: absent, and require_active.
Flags == {0, 1}
require_active == 1

Returned(value) == [thrown |-> FALSE, value |-> value]
Throws(code)    == [thrown |-> TRUE, code |-> code]
-----------------------------------------------------------------------------
(* pmdaCache.                                                              *)

EmptyCache == [name \in {} |-> [id |-> 0]]

\* pmdaCacheStore, PMDA_CACHE_ADD: a name that is known keeps its id.
Stored(entries, name, opaque) ==
  [n \in DOMAIN entries \cup {name} |->
     IF n # name THEN entries[n]
     ELSE [id     |-> IF name \in DOMAIN entries THEN entries[name].id
                      ELSE Cardinality(DOMAIN entries),
           status |-> PMDA_CACHE_ACTIVE, opaque |-> opaque]]

\* pmdaCacheOp, PMDA_CACHE_INACTIVE: every entry stays, with its id.
AllInactive(entries) ==
  [n \in DOMAIN entries |-> [entries[n] EXCEPT !.status = PMDA_CACHE_INACTIVE]]

Active(entries) == {n \in DOMAIN entries : entries[n].status = PMDA_CACHE_ACTIVE}
-----------------------------------------------------------------------------
(* pcp::cache.                                                             *)

\* What the three functions named lookup have in common; found is the entry
\* that pmdaCacheLookup and its siblings find, if there is one.
LookedUp(entries, found, flags) ==
  IF found = {} THEN Throws(PM_ERR_INST)
  ELSE LET entry == entries[CHOOSE n \in found : TRUE]
       IN  IF flags = require_active /\ entry.status # PMDA_CACHE_ACTIVE
           THEN Throws(entry.status) ELSE Returned(entry.opaque)

\* By instance id, and by name, with or without a key.
lookup(entries, id, flags) ==
  LookedUp(entries, {n \in DOMAIN entries : entries[n].id = id}, flags)
lookup_name(entries, name, flags) ==
  LookedUp(entries, {n \in DOMAIN entries : n = name}, flags)

\* Mutant: the status is negated, as if it were an errno.
CheckedNegated(status) == IF status < 0 THEN Throws(-status) ELSE Returned(status)

\* perform, purge and store: a negative status is thrown.
Checked(status) == IF status < 0 THEN Throws(status) ELSE Returned(status)

\* The codes that an agent's lookups in a cache may throw.
LookupCodes(entries, ids, names) ==
  LET outcomes == {lookup(entries, i, f) : i \in ids, f \in Flags}
                    \cup {lookup_name(entries, n, f) : n \in names, f \in Flags}
  IN  {o.code : o \in {p \in outcomes : p.thrown}}
=============================================================================
